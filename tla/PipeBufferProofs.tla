-------------------------- MODULE PipeBufferProofs --------------------------
(***************************************************************************)
(* Proofs about PipeBuffer, for every buffer size, word width, stream,     *)
(* choice of items and arrivals, with and without delayed stores.          *)
(***************************************************************************)
EXTENDS PipeBuffer, Wrapping

\* The derived sizes are natural numbers, and small against the word.
LEMMA Sizes ==
  /\ Size \in Nat /\ Size > 0 /\ Word \in Nat /\ Word > 0 /\ Word >= 4 * Size
  /\ MaxItem \in Nat /\ MaxItem <= Size
  /\ Magic \in Nat /\ Magic <= Size /\ FileLen \in Nat /\ Magic <= FileLen
  /\ PipeCap \in Nat
BY SizeAssumption, StreamAssumption DEF MaxItem

\* A wrapped counter is a word, and its offset in the buffer is that of the
\* position it stands for.
LEMMA WrapFacts ==
  ASSUME NEW x \in Int
  PROVE  /\ Wrap(x) \in 0..(Word - 1)
         /\ (Wrap(x) % Size) = (x % Size)
         /\ (x % Size) \in 0..(Size - 1)
<1>1. Wrap(x) \in 0..(Word - 1)
  BY Sizes, DivMod DEF Wrap
<1>2. (x % Size) \in 0..(Size - 1)
  BY Sizes, DivMod
<1>3. PICK k \in 1..Word : Word = k * Size
  BY SizeAssumption
<1>4. k \in Nat
  BY <1>3, Sizes
<1>5. (Wrap(x) % Size) = (x % Size)
  BY <1>3, <1>4, Sizes, ModMultiple, ZenonT(30) DEF Wrap
<1> QED BY <1>1, <1>2, <1>5

\* The signed comparison of wrapped counters is that of the positions, for
\* positions less than two buffers apart.
LEMMA SDiffSign ==
  ASSUME NEW a \in Int, NEW b \in Int, a - b <= Size, b - a <= Size
  PROVE  SDiff(Wrap(a), Wrap(b)) >= 0 <=> a >= b
<1> DEFINE e == (Wrap(a) - Wrap(b)) % Word
<1>1. CASE a >= b
  <2>1. 0 <= a - b /\ a - b < Word BY <1>1, Sizes
  <2>2. e = a - b BY <2>1, Sizes, ModDiff DEF Wrap
  <2>3. e < Word \div 2 BY <2>2, Sizes
  <2> QED BY <1>1, <2>2, <2>3 DEF SDiff
<1>2. CASE a < b
  <2>1. -Word <= a - b /\ a - b < 0 BY <1>2, Sizes
  <2>2. e = (a - b) + Word BY <2>1, Sizes, ModDiff DEF Wrap
  <2>3. ~(e < Word \div 2) BY <2>2, Sizes
  <2>4. SDiff(Wrap(a), Wrap(b)) = e - Word BY <2>3 DEF SDiff
  <2> QED BY <1>2, <2>2, <2>4, Sizes
<1> QED BY <1>1, <1>2

\* What the reader computes as the fill of the buffer is the distance of the
\* positions behind the counters.
LEMMA Fill ==
  ASSUME nread \in Nat, NEW d \in Nat, done = Wrap(d), d <= nread,
         nread <= d + Size
  PROVE  /\ ((ReaderAvail - done) % Word) = nread - d
         /\ ReaderFull <=> nread >= d + Size
         /\ Space = (d + Size) - nread
         /\ Offset = (nread % Size)
<1>1. 0 <= nread - d /\ nread - d < Word
  BY Sizes
<1>2. ((ReaderAvail - done) % Word) = nread - d
  <2>1. (((nread % Word) - (d % Word)) % Word) = nread - d
    <3>1. nread \in Int /\ d \in Int OBVIOUS
    <3> QED BY <1>1, <3>1, Sizes, ModDiff
  <2> QED BY <2>1 DEF ReaderAvail, Wrap
<1>3. Offset = (nread % Size)
  BY WrapFacts DEF Offset, ReaderAvail
<1> QED BY <1>2, <1>3, Sizes DEF ReaderFull, Space

\* The read() fits the free space and does not pass the end of the buffer.
LEMMA ReadFits ==
  ASSUME TypeOK, OrderOK, NEW d \in Nat, done = Wrap(d), d <= nread,
         nread <= d + Size, NEW n, n = Smaller(Segment, arrived - nread)
  PROVE  /\ n \in Nat /\ nread + n <= d + Size /\ nread + n <= arrived
         /\ Offset \in 0..(Size - 1) /\ Offset + n <= Size
         /\ Offset = (nread % Size)
         /\ nread < d + Size => Segment > 0
<1>1. nread \in Nat /\ arrived \in Nat
  BY DEF TypeOK
<1>2. nread <= arrived
  BY <1>1 DEF OrderOK, InFlight, TypeOK
<1>3. Space = (d + Size) - nread /\ Offset = (nread % Size)
  BY <1>1, Fill
<1>4. Offset \in 0..(Size - 1)
  BY <1>1, <1>3, WrapFacts
<1>5. /\ Segment \in Nat /\ Segment <= Space /\ Segment <= Size - Offset
      /\ nread < d + Size => Segment > 0
  BY <1>1, <1>3, <1>4, Sizes DEF Segment
<1>6. n \in Nat /\ n <= Segment /\ n <= arrived - nread
  BY <1>1, <1>2, <1>5 DEF Smaller
<1> QED BY <1>1, <1>3, <1>4, <1>5, <1>6, Sizes

-----------------------------------------------------------------------------
(* The inductive invariant *)

\* The constructor and init establish the invariant, preloaded bytes included.
LEMMA InitIInv == Init => IInv
<1> SUFFICES ASSUME Init PROVE IInv
  OBVIOUS
<1>1. TypeOK
  <2>1. buffer \in [0..(Size - 1) -> Int]
    BY Sizes DEF Init
  <2>2. /\ avail \in 0..(Word - 1) /\ done \in 0..(Word - 1)
        /\ wakeup_done \in 0..(Word - 1) /\ wakeup_avail \in 0..(Word - 1)
        /\ rtokens \in 0..PipeCap /\ ctokens \in 0..PipeCap
        /\ nread \in Nat /\ got \in Nat /\ arrived \in Nat
        /\ front \in Nat /\ released \in Nat /\ want \in Nat
    BY Sizes DEF Init
  <2>3. /\ reached_eof \in BOOLEAN /\ fdset \in BOOLEAN
        /\ need_reader_wakeup \in BOOLEAN /\ need_consumer_wakeup \in BOOLEAN
        /\ rpc \in ReaderPc /\ cpc \in ConsumerPc
    BY DEF Init, ReaderPc, ConsumerPc
  <2> QED BY <2>1, <2>2, <2>3 DEF TypeOK
<1>2. OrderOK /\ WantOK
  BY Sizes DEF Init, OrderOK, WantOK, InFlight
<1>3. Wrap(Magic) = Magic /\ Wrap(0) = 0
  BY Sizes, ModSmall DEF Wrap
<1>4. AvailOK
  BY <1>3, Sizes DEF Init, AvailOK
<1>5. DoneOK
  BY <1>3, Sizes DEF Init, DoneOK, InFlight
<1>6. DataOK
  <2>0. released = 0 /\ nread + InFlight - 1 = Magic - 1
    BY Sizes DEF Init, InFlight
  <2> SUFFICES ASSUME NEW k \in 0..(Magic - 1) PROVE buffer[k % Size] = k
    BY <2>0 DEF DataOK
  <2>1. (k % Size) = k
    BY Sizes, ModSmall
  <2> QED BY <2>1, Sizes DEF Init
<1> QED BY <1>1, <1>2, <1>4, <1>5, <1>6 DEF IInv

\* A step of the reader that touches neither the data nor the counters, and
\* does not decide that there is space.
LEMMA ReaderQuiet ==
  ASSUME IInv, UNCHANGED <<nread, avail, done, buffer, consumer, arrived>>,
         rpc # "publish", rpc' # "publish",
         fdset' /\ rpc' \in {"select", "read"}
           => fdset /\ rpc \in {"select", "read"}
  PROVE  OrderOK' /\ WantOK' /\ AvailOK' /\ DoneOK' /\ DataOK'
<1>1. UNCHANGED <<cpc, front, released, want>>
  BY DEF consumer
<1>2. InFlight = 0 /\ InFlight' = 0
  BY DEF InFlight
<1>3. OrderOK' /\ WantOK'
  BY <1>1, <1>2 DEF IInv, OrderOK, WantOK
<1>4. AvailOK'
  BY <1>1 DEF IInv, AvailOK
<1>5. DoneOK'
  BY <1>1, <1>2 DEF IInv, DoneOK
<1>6. DataOK'
  BY <1>1, <1>2 DEF IInv, DataOK
<1> QED BY <1>3, <1>4, <1>5, <1>6

\* The reader decides whether to wait for data or for space.
LEMMA ReaderLooks ==
  ASSUME IInv, UNCHANGED <<nread, avail, done, buffer, consumer, arrived>>,
         rpc # "publish", rpc' # "publish", fdset' => ~ReaderFull
  PROVE  OrderOK' /\ WantOK' /\ AvailOK' /\ DoneOK' /\ DataOK'
<1>1. UNCHANGED <<cpc, front, released, want>>
  BY DEF consumer
<1>2. InFlight = 0 /\ InFlight' = 0
  BY DEF InFlight
<1>3. OrderOK' /\ WantOK'
  BY <1>1, <1>2 DEF IInv, OrderOK, WantOK
<1>4. AvailOK'
  BY <1>1 DEF IInv, AvailOK
<1>5. DoneOK'
  <2>1. PICK d \in 0..released : done = Wrap(d) /\ nread + InFlight <= d + Size
    BY DEF IInv, DoneOK
  <2>2. released \in Nat /\ nread \in Nat /\ front \in Nat
        /\ released <= front /\ front <= nread
    BY DEF IInv, TypeOK, OrderOK
  <2>3. d \in Nat /\ d <= nread /\ nread <= d + Size
    BY <2>1, <2>2, <1>2
  <2>4. ReaderFull <=> nread >= d + Size
    BY <2>1, <2>2, <2>3, Fill
  <2>5. fdset' => nread < d + Size
    BY <2>2, <2>3, <2>4, Sizes
  <2> QED BY <1>1, <1>2, <2>1, <2>5 DEF DoneOK
<1>6. DataOK'
  BY <1>1, <1>2 DEF IInv, DataOK
<1> QED BY <1>3, <1>4, <1>5, <1>6

\* A step of the consumer that moves none of its positions.
LEMMA ConsumerQuiet ==
  ASSUME IInv, UNCHANGED <<avail, done, buffer, reader, arrived>>,
         UNCHANGED <<front, released>>, WantOK'
  PROVE  OrderOK' /\ WantOK' /\ AvailOK' /\ DoneOK' /\ DataOK'
<1>1. UNCHANGED <<rpc, nread, fdset, got>>
  BY DEF reader
<1>2. InFlight' = InFlight
  BY <1>1 DEF InFlight
<1>3. OrderOK'
  BY <1>1, <1>2 DEF IInv, OrderOK
<1>4. AvailOK'
  BY <1>1 DEF IInv, AvailOK
<1>5. DoneOK'
  BY <1>1, <1>2 DEF IInv, DoneOK
<1>6. DataOK'
  BY <1>1, <1>2 DEF IInv, DataOK
<1> QED BY <1>3, <1>4, <1>5, <1>6

-----------------------------------------------------------------------------
(* Types are preserved *)

\* Every step keeps the types: one step of the proof per action.
LEMMA TypeStep ==
  ASSUME IInv, Next
  PROVE  TypeOK'
<1>0. TypeOK
  BY DEF IInv
<1>1. CASE RTop
  <2>1. fdset' \in BOOLEAN /\ rpc' \in ReaderPc
    BY <1>1 DEF RTop, ReaderPc
  <2> QED BY <1>0, <1>1, <2>1 DEF TypeOK, RTop, shared, pipes, consumer
<1>2. CASE RArmThreshold
  <2>1. ReaderAvail \in Int /\ Hysteresis \in Int
    BY <1>0, WrapFacts, Sizes DEF TypeOK, ReaderAvail, Hysteresis
  <2>2. wakeup_done' \in 0..(Word - 1)
    BY <1>2, <2>1, Sizes, DivMod DEF RArmThreshold
  <2> QED BY <1>0, <1>2, <2>2 DEF TypeOK, RArmThreshold, pipes, consumer, ReaderPc
<1>3. CASE RArmFlag
  BY <1>0, <1>3 DEF TypeOK, RArmFlag, shared, pipes, consumer, ReaderPc
<1>4. CASE RAssert
  BY <1>0, <1>4 DEF TypeOK, RAssert, shared, pipes, consumer, ReaderPc
<1>5. CASE RRecheck
  <2>1. fdset' \in BOOLEAN /\ rpc' \in ReaderPc
    BY <1>5 DEF RRecheck, ReaderPc
  <2> QED BY <1>0, <1>5, <2>1 DEF TypeOK, RRecheck, shared, pipes, consumer
<1>6. CASE RSelectToken
  <2>1. fdset' \in BOOLEAN /\ rpc' \in ReaderPc
    BY <1>6 DEF RSelectToken, ReaderPc
  <2>2. rtokens' \in 0..PipeCap
    BY <1>0, <1>6, Sizes DEF TypeOK, RSelectToken
  <2> QED BY <1>0, <1>6, <2>1, <2>2 DEF TypeOK, RSelectToken, shared, consumer
<1>7. CASE RSelectFd
  BY <1>0, <1>7 DEF TypeOK, RSelectFd, shared, pipes, consumer, ReaderPc
<1>8. CASE RRead
  <2>1. PICK d \in 0..released : done = Wrap(d) /\ nread + InFlight <= d + Size
    BY DEF IInv, DoneOK
  <2>2. d \in Nat /\ d <= nread /\ nread <= d + Size /\ OrderOK
    BY <1>0, <1>8, <2>1 DEF IInv, TypeOK, OrderOK, InFlight, RRead
  <2>3. got' \in Nat /\ Offset \in 0..(Size - 1)
    BY <1>0, <1>8, <2>1, <2>2, ReadFits DEF RRead
  <2>4. buffer' \in [0..(Size - 1) -> Int]
    BY <1>0, <1>8, <2>3, Sizes DEF TypeOK, RRead
  <2> QED BY <1>0, <1>8, <2>3, <2>4 DEF TypeOK, RRead, pipes, consumer, ReaderPc
<1>9. CASE RPublish
  <2>1. nread' \in Nat /\ nread + got \in Int
    BY <1>0, <1>9 DEF TypeOK, RPublish
  <2>2. avail' \in 0..(Word - 1)
    BY <1>0, <1>9, <2>1, WrapFacts DEF TypeOK, RPublish
  <2> QED BY <1>0, <1>9, <2>1, <2>2 DEF TypeOK, RPublish, pipes, consumer, ReaderPc
<1>10. CASE RCheckFlag
  BY <1>0, <1>10 DEF TypeOK, RCheckFlag, shared, pipes, consumer, ReaderPc
<1>11. CASE RCheckThreshold
  BY <1>0, <1>11 DEF TypeOK, RCheckThreshold, shared, pipes, consumer, ReaderPc
<1>12. CASE RClear
  BY <1>0, <1>12 DEF TypeOK, RClear, shared, pipes, consumer, ReaderPc
<1>13. CASE RWake
  BY <1>0, <1>13, Sizes DEF TypeOK, RWake, shared, consumer, ReaderPc
<1>14. CASE REof
  BY <1>0, <1>14 DEF TypeOK, REof, shared, pipes, consumer, ReaderPc
<1>15. CASE REofCheck
  BY <1>0, <1>15 DEF TypeOK, REofCheck, shared, pipes, consumer, ReaderPc
<1>16. CASE RCancelled
  BY <1>0, <1>16 DEF TypeOK, RCancelled, shared, pipes, consumer, ReaderPc
<1>17. CASE RSelectSignal
  BY <1>0, <1>17 DEF TypeOK, RSelectSignal, shared, pipes, consumer, ReaderPc
<1>18. CASE RDrain
  <2>1. avail' \in 0..(Word - 1)
    BY <1>0, <1>18, WrapFacts DEF TypeOK, RDrain, ReaderAvail
  <2> QED BY <1>0, <1>18, <2>1 DEF TypeOK, RDrain, pipes, reader, consumer
<1>19. CASE CMap
  <2>1. want' \in Nat
    BY <1>0, <1>19, StreamAssumption DEF TypeOK, CMap
  <2> QED BY <1>0, <1>19, <2>1 DEF TypeOK, CMap, shared, pipes, reader, ConsumerPc
<1>20. CASE CTest
  BY <1>0, <1>20 DEF TypeOK, CTest, Mapped, shared, pipes, reader, ConsumerPc
<1>21. CASE CArmThreshold
  <2>1. wakeup_avail' \in 0..(Word - 1)
    BY <1>0, <1>21, WrapFacts DEF TypeOK, CArmThreshold
  <2> QED BY <1>0, <1>21, <2>1 DEF TypeOK, CArmThreshold, pipes, reader, ConsumerPc
<1>22. CASE CArmFlag
  BY <1>0, <1>22 DEF TypeOK, CArmFlag, shared, pipes, reader, ConsumerPc
<1>23. CASE CRecheck
  BY <1>0, <1>23 DEF TypeOK, CRecheck, Mapped, shared, pipes, reader, ConsumerPc
<1>24. CASE CEofCheck
  BY <1>0, <1>24 DEF TypeOK, CEofCheck, shared, pipes, reader, ConsumerPc
<1>25. CASE CBlockToken
  BY <1>0, <1>25, Sizes DEF TypeOK, CBlockToken, shared, reader, ConsumerPc
<1>26. CASE CRelease
  <2>1. released' \in Nat /\ released' \in Int
    BY <1>0, <1>26, StreamAssumption DEF TypeOK, CRelease
  <2>2. done' \in 0..(Word - 1)
    BY <1>0, <1>26, <2>1, WrapFacts DEF TypeOK, CRelease
  <2> QED BY <1>0, <1>26, <2>1, <2>2 DEF TypeOK, CRelease, pipes, reader, ConsumerPc
<1>27. CASE CReleaseFlag
  BY <1>0, <1>27 DEF TypeOK, CReleaseFlag, shared, pipes, reader, ConsumerPc
<1>28. CASE CReleaseThreshold
  BY <1>0, <1>28 DEF TypeOK, CReleaseThreshold, shared, pipes, reader, ConsumerPc
<1>29. CASE CReleaseClear
  BY <1>0, <1>29 DEF TypeOK, CReleaseClear, shared, pipes, reader, ConsumerPc
<1>30. CASE CReleaseWake
  BY <1>0, <1>30, Sizes DEF TypeOK, CReleaseWake, shared, reader, ConsumerPc
<1>31. CASE CClose
  BY <1>0, <1>31 DEF TypeOK, CClose, shared, pipes, reader, ConsumerPc
<1>32. CASE CJoin
  BY <1>0, <1>32 DEF TypeOK, CJoin, shared, pipes, reader, ConsumerPc
<1>33. CASE CBlockSignal
  BY <1>0, <1>33 DEF TypeOK, CBlockSignal, shared, pipes, reader, ConsumerPc
<1>34. CASE CDrain
  <2>1. done' \in 0..(Word - 1)
    BY <1>0, <1>34, WrapFacts DEF TypeOK, CDrain, ConsumerDone
  <2> QED BY <1>0, <1>34, <2>1 DEF TypeOK, CDrain, pipes, reader, consumer
<1>35. CASE Arrive
  <2>1. arrived' \in Nat
    BY <1>0, <1>35, StreamAssumption DEF TypeOK, Arrive, Smaller
  <2> QED BY <1>0, <1>35, <2>1 DEF TypeOK, Arrive, shared, pipes, reader, consumer
<1> QED
  BY <1>1, <1>2, <1>3, <1>4, <1>5, <1>6, <1>7, <1>8, <1>9, <1>10, <1>11,
     <1>12, <1>13, <1>14, <1>15, <1>16, <1>17, <1>18, <1>19, <1>20, <1>21,
     <1>22, <1>23, <1>24, <1>25, <1>26, <1>27, <1>28, <1>29, <1>30, <1>31,
     <1>32, <1>33, <1>34, <1>35 DEF Next, Reader, ReaderThread, Consumer,
     ConsumerThread

-----------------------------------------------------------------------------
(* The steps that move data or positions *)

\* read(): the bytes go to cells that hold nothing the consumer still needs.
LEMMA ReadStep ==
  ASSUME IInv, RRead
  PROVE  OrderOK' /\ WantOK' /\ AvailOK' /\ DoneOK' /\ DataOK'
<1>1. /\ nread \in Nat /\ released \in Nat /\ front \in Nat /\ arrived \in Nat
      /\ released <= front /\ front <= nread
      /\ nread <= arrived /\ arrived <= FileLen
      /\ InFlight = 0 /\ TypeOK /\ OrderOK
  BY DEF IInv, TypeOK, OrderOK, InFlight, RRead
<1>2. UNCHANGED <<cpc, front, released, want, nread, avail, done,
                  arrived, fdset>>
  BY DEF RRead, consumer
<1>3. PICK d \in 0..released :
        /\ done = Wrap(d) /\ nread + InFlight <= d + Size
        /\ fdset /\ rpc \in {"select", "read"} => nread < d + Size
  BY DEF IInv, DoneOK
<1>4. d \in Nat /\ d <= released /\ d <= nread /\ nread <= d + Size
  BY <1>1, <1>3
<1> DEFINE n == Smaller(Segment, arrived - nread)
           f == IF rpc' = "publish" THEN n ELSE 0
<1>5. /\ n \in Nat /\ nread + n <= d + Size /\ nread + n <= arrived
      /\ Offset \in 0..(Size - 1) /\ Offset + n <= Size
      /\ Offset = (nread % Size)
  BY <1>1, <1>3, <1>4, ReadFits
<1>6. got' = n /\ InFlight' = f
  BY DEF InFlight, RRead
<1>7. buffer' = [o \in 0..(Size - 1) |->
                   IF o >= Offset /\ o < Offset + n
                   THEN nread + (o - Offset) ELSE buffer[o]]
  BY DEF RRead
<1> HIDE DEF n
<1>8. f \in Nat /\ f <= n
  BY <1>5
<1> HIDE DEF f
<1>9. OrderOK' /\ WantOK'
  <2>1. nread + f <= arrived
    BY <1>1, <1>5, <1>8
  <2> QED BY <1>1, <1>2, <1>6, <2>1 DEF IInv, OrderOK, WantOK
<1>10. AvailOK'
  BY <1>2 DEF IInv, AvailOK
<1>11. DoneOK'
  <2>1. rpc' \notin {"select", "read"}
    BY DEF RRead
  <2>2. nread + f <= d + Size
    BY <1>1, <1>4, <1>5, <1>8, Sizes
  <2> QED BY <1>2, <1>3, <1>6, <2>1, <2>2 DEF DoneOK
<1>12. DataOK'
  <2> SUFFICES ASSUME NEW k \in released..(nread + f - 1)
               PROVE  buffer'[k % Size] = k
    BY <1>2, <1>6 DEF DataOK
  <2>0. k \in Int /\ released <= k /\ k < nread + f
    BY <1>1, <1>8
  <2> DEFINE c == k % Size
  <2>1. c \in 0..(Size - 1)
    BY <2>0, WrapFacts
  <2>2. buffer'[c] = IF c >= Offset /\ c < Offset + n
                     THEN nread + (c - Offset) ELSE buffer[c]
    BY <1>7, <2>1
  <2>3. CASE k >= nread
    <3> DEFINE j == k - nread
    <3>1. j \in Nat /\ j < n /\ nread + j = k
      BY <1>1, <1>5, <1>8, <2>0, <2>3
    <3>2. c = Offset + j
      <4>1. (nread % Size) + j < Size
        BY <1>5, <3>1, Sizes
      <4>2. ((nread + j) % Size) = (nread % Size) + j
        <5>1. j \in Int /\ 0 <= j /\ nread \in Int BY <1>1, <3>1
        <5> HIDE DEF j
        <5> QED BY <4>1, <5>1, Sizes, ModStep, Zenon
      <4> QED BY <1>5, <3>1, <4>2
    <3> HIDE DEF c, j
    <3>3. buffer'[c] = nread + j
      BY <1>1, <1>5, <2>1, <2>2, <3>1, <3>2, Sizes
    <3> QED BY <3>1, <3>3 DEF c
  <2>4. CASE k < nread
    <3>1. buffer[c] = k
      BY <1>1, <2>0, <2>4 DEF IInv, DataOK
    <3>2. ASSUME c >= Offset, c < Offset + n PROVE FALSE
      <4> DEFINE j == c - Offset
      <4> HIDE DEF c
      <4>1. j \in Nat /\ j < n /\ Offset + j < Size /\ Offset + j = c
        BY <1>5, <2>1, <3>2, Sizes
      <4> HIDE DEF j
      <4>2. ((nread + j) % Size) = (nread % Size) + j
        <5>1. j \in Int /\ 0 <= j /\ nread \in Int /\ (nread % Size) + j < Size
          BY <1>1, <1>5, <4>1
        <5> QED BY <5>1, Sizes, ModStep, Zenon
      <4>3. ((nread + j) % Size) = (k % Size)
        BY <1>5, <4>1, <4>2 DEF c
      <4>4. 0 < (nread + j) - k /\ (nread + j) - k < Size
        BY <1>1, <1>4, <1>5, <2>0, <2>4, <4>1, Sizes
      <4>5. nread + j \in Int
        BY <1>1, <4>1
      <4> QED BY <2>0, <4>3, <4>4, <4>5, Sizes, ModDistinct
    <3> HIDE DEF c
    <3>3. buffer'[c] = k
      BY <2>2, <3>1, <3>2
    <3> QED BY <3>3 DEF c
  <2> QED BY <1>1, <2>0, <2>3, <2>4
<1> QED BY <1>9, <1>10, <1>11, <1>12

\* _avail += n: the bytes in flight are counted.
LEMMA PublishStep ==
  ASSUME IInv, RPublish
  PROVE  OrderOK' /\ WantOK' /\ AvailOK' /\ DoneOK' /\ DataOK'
<1>1. /\ nread \in Nat /\ got \in Nat /\ front \in Nat /\ released \in Nat
      /\ front <= nread /\ released <= front
  BY DEF IInv, TypeOK, OrderOK
<1>2. UNCHANGED <<cpc, front, released, want, done, arrived, buffer>>
  BY DEF RPublish, consumer
<1>3. InFlight = got /\ InFlight' = 0 /\ nread' = nread + got
      /\ rpc' \notin {"select", "read"}
  BY DEF InFlight, RPublish
<1>4. nread' + InFlight' = nread + InFlight /\ nread' \in Nat /\ nread <= nread'
  BY <1>1, <1>3
<1>5. OrderOK' /\ WantOK'
  BY <1>1, <1>2, <1>4 DEF IInv, OrderOK, WantOK
<1>6. AvailOK'
  <2>1. PICK a \in front..nread : avail = Wrap(a)
    BY DEF IInv, AvailOK
  <2>2. a \in front..nread'
    BY <1>1, <1>4
  <2>3. nread' \in front..nread'
    BY <1>1, <1>4
  <2>4. avail' = avail \/ avail' = Wrap(nread')
    BY DEF RPublish
  <2> QED BY <1>2, <2>1, <2>2, <2>3, <2>4 DEF AvailOK
<1>7. DoneOK'
  BY <1>2, <1>3, <1>4 DEF IInv, DoneOK
<1>8. DataOK'
  <2>1. nread' + InFlight' - 1 = nread + InFlight - 1
    BY <1>1, <1>3
  <2> QED BY <1>2, <2>1 DEF IInv, DataOK
<1> QED BY <1>5, <1>6, <1>7, <1>8

\* The store of _avail becomes visible.
LEMMA ReaderDrainStep ==
  ASSUME IInv, RDrain
  PROVE  OrderOK' /\ WantOK' /\ AvailOK' /\ DoneOK' /\ DataOK'
<1>1. UNCHANGED <<cpc, front, released, want, rpc, nread, fdset, got,
                  done, buffer, arrived>>
  BY DEF RDrain, consumer, reader
<1>2. InFlight' = InFlight
  BY <1>1 DEF InFlight
<1>3. nread \in front..nread
  BY DEF IInv, TypeOK, OrderOK
<1>4. avail' = Wrap(nread)
  BY DEF RDrain, ReaderAvail
<1>5. AvailOK'
  BY <1>1, <1>3, <1>4 DEF AvailOK
<1>6. OrderOK' /\ WantOK'
  BY <1>1, <1>2 DEF IInv, OrderOK, WantOK
<1>7. DoneOK' /\ DataOK'
  BY <1>1, <1>2 DEF IInv, DoneOK, DataOK
<1> QED BY <1>5, <1>6, <1>7

\* map_range finds enough data: they are there.
LEMMA MappedStep ==
  ASSUME IInv, Mapped, Enough, cpc \in {"test", "recheck"},
         UNCHANGED <<avail, done, buffer, reader, released, want, arrived>>
  PROVE  /\ OrderOK' /\ WantOK' /\ AvailOK' /\ DoneOK' /\ DataOK'
         /\ front' > front /\ front' <= nread
<1>1. /\ nread \in Nat /\ front \in Nat /\ released \in Nat /\ want \in Nat
      /\ released <= front /\ front <= nread
      /\ front < want /\ want <= front + MaxItem
  BY DEF IInv, TypeOK, OrderOK, WantOK
<1>2. UNCHANGED <<rpc, nread, fdset, got>>
  BY DEF reader
<1>3. InFlight' = InFlight /\ InFlight \in Nat
  BY <1>2 DEF InFlight, IInv, TypeOK
<1>4. PICK a \in front..nread : avail = Wrap(a)
  BY DEF IInv, AvailOK
<1>5. PICK d \in 0..released : nread + InFlight <= d + Size
  BY DEF IInv, DoneOK
<1>6. a \in Int /\ want \in Int /\ a - want <= Size /\ want - a <= Size
  BY <1>1, <1>3, <1>4, <1>5, Sizes
<1>7. a >= want
  BY <1>4, <1>6, SDiffSign DEF Enough
<1>8. front' = want /\ cpc' = "idle"
  BY DEF Mapped
<1>9. OrderOK'
  BY <1>1, <1>2, <1>3, <1>4, <1>7, <1>8 DEF IInv, OrderOK
<1>10. WantOK'
  BY <1>8 DEF WantOK
<1>11. AvailOK'
  <2>1. a \in want..nread BY <1>1, <1>4, <1>7
  <2> QED BY <1>2, <1>4, <1>8, <2>1 DEF AvailOK
<1>12. DoneOK' /\ DataOK'
  BY <1>2, <1>3 DEF IInv, DoneOK, DataOK
<1> QED BY <1>1, <1>4, <1>7, <1>8, <1>9, <1>10, <1>11, <1>12

\* release_to: the position moves at once, _done at once or later.
LEMMA ReleaseStep ==
  ASSUME IInv, CRelease
  PROVE  OrderOK' /\ WantOK' /\ AvailOK' /\ DoneOK' /\ DataOK'
<1>1. /\ nread \in Nat /\ front \in Nat /\ released \in Nat
      /\ front <= nread
  BY DEF IInv, TypeOK, OrderOK
<1>2. UNCHANGED <<rpc, nread, fdset, got, avail, buffer, front, want,
                  arrived>>
  BY DEF CRelease, reader
<1>3. InFlight' = InFlight
  BY <1>2 DEF InFlight
<1>4. released' \in Nat /\ released < released' /\ released' <= front
  BY <1>1, StreamAssumption DEF CRelease
<1>5. OrderOK' /\ WantOK' /\ AvailOK'
  BY <1>2, <1>3, <1>4 DEF IInv, OrderOK, WantOK, AvailOK, CRelease
<1>6. DoneOK'
  <2>1. PICK d \in 0..released :
          /\ done = Wrap(d) /\ nread + InFlight <= d + Size
          /\ fdset /\ rpc \in {"select", "read"} => nread < d + Size
    BY DEF IInv, DoneOK
  <2>2. InFlight \in Nat /\ d \in Nat /\ d < released'
    BY <1>1, <1>4, <2>1 DEF InFlight, IInv, TypeOK
  <2>3. CASE done' = done
    <3>1. d \in 0..released' BY <1>1, <1>4
    <3> QED BY <1>2, <1>3, <2>1, <2>3, <3>1 DEF DoneOK
  <2>4. CASE done' = Wrap(released')
    <3>0. PICK r \in Nat : r = released' BY <1>4
    <3>1. r \in 0..r /\ d < r BY <3>0, <2>2
    <3>2. nread + InFlight <= r + Size
      BY <1>1, <2>1, <2>2, <3>1, Sizes
    <3>3. fdset /\ rpc \in {"select", "read"} => nread < r + Size
      BY <1>1, <2>1, <2>2, <3>1, Sizes
    <3> QED BY <1>2, <1>3, <2>4, <3>0, <3>1, <3>2, <3>3 DEF DoneOK
  <2> QED BY <2>3, <2>4 DEF CRelease
<1>7. DataOK'
  BY <1>1, <1>2, <1>3, <1>4 DEF IInv, DataOK
<1> QED BY <1>5, <1>6, <1>7

\* The store of _done becomes visible.
LEMMA ConsumerDrainStep ==
  ASSUME IInv, CDrain
  PROVE  OrderOK' /\ WantOK' /\ AvailOK' /\ DoneOK' /\ DataOK'
<1>1. UNCHANGED <<cpc, front, released, want, rpc, nread, fdset, got,
                  avail, buffer, arrived>>
  BY DEF CDrain, consumer, reader
<1>2. InFlight' = InFlight /\ InFlight \in Nat
  BY <1>1 DEF InFlight, IInv, TypeOK
<1>3. released \in Nat /\ nread \in Nat
  BY DEF IInv, TypeOK
<1>4. DoneOK'
  <2>1. PICK d \in 0..released :
          /\ nread + InFlight <= d + Size
          /\ fdset /\ rpc \in {"select", "read"} => nread < d + Size
    BY DEF IInv, DoneOK
  <2>2. released \in 0..released /\ nread + InFlight <= released + Size
    BY <1>2, <1>3, <2>1, Sizes
  <2>3. fdset /\ rpc \in {"select", "read"} => nread < released + Size
    BY <1>3, <2>1, Sizes
  <2>4. done' = Wrap(released)
    BY DEF CDrain, ConsumerDone
  <2> QED BY <1>1, <1>2, <2>2, <2>3, <2>4 DEF DoneOK
<1>5. OrderOK' /\ WantOK' /\ AvailOK' /\ DataOK'
  BY <1>1, <1>2 DEF IInv, OrderOK, WantOK, AvailOK, DataOK
<1> QED BY <1>4, <1>5

\* Data arriving at the descriptor disturb nothing.
LEMMA ArriveStep ==
  ASSUME IInv, Arrive
  PROVE  OrderOK' /\ WantOK' /\ AvailOK' /\ DoneOK' /\ DataOK'
<1>1. UNCHANGED <<cpc, front, released, want, rpc, nread, fdset, got,
                  avail, done, buffer>>
  BY DEF Arrive, consumer, reader, shared
<1>2. InFlight' = InFlight /\ InFlight \in Nat
  BY <1>1 DEF InFlight, IInv, TypeOK
<1>3. arrived \in Nat /\ arrived <= arrived' /\ arrived' <= FileLen
      /\ arrived' \in Nat
  BY StreamAssumption DEF IInv, TypeOK, Arrive, Smaller
<1>4. OrderOK'
  BY <1>1, <1>2, <1>3 DEF IInv, OrderOK, TypeOK
<1>5. WantOK' /\ AvailOK' /\ DoneOK' /\ DataOK'
  BY <1>1, <1>2, SMTT(30) DEF IInv, WantOK, AvailOK, DoneOK, DataOK
<1> QED BY <1>4, <1>5

\* Every step keeps the positions in order and the counters close behind them.
LEMMA PositionStep ==
  ASSUME IInv, Next
  PROVE  OrderOK' /\ WantOK' /\ AvailOK' /\ DoneOK' /\ DataOK'
<1>1. CASE RTop
  <2>1. rpc # "publish" /\ rpc' # "publish" /\ (fdset' => ~ReaderFull)
    BY <1>1 DEF RTop
  <2> QED BY <1>1, <2>1, ReaderLooks DEF RTop, shared
<1>2. CASE RArmThreshold
  <2>1. /\ rpc # "publish" /\ rpc' # "publish"
        /\ fdset' /\ rpc' \in {"select", "read"}
             => fdset /\ rpc \in {"select", "read"}
    BY <1>2 DEF RArmThreshold
  <2> QED BY <1>2, <2>1, ReaderQuiet DEF RArmThreshold, shared
<1>3. CASE RArmFlag
  <2>1. /\ rpc # "publish" /\ rpc' # "publish"
        /\ fdset' /\ rpc' \in {"select", "read"}
             => fdset /\ rpc \in {"select", "read"}
    BY <1>3 DEF RArmFlag
  <2> QED BY <1>3, <2>1, ReaderQuiet DEF RArmFlag, shared
<1>4. CASE RAssert
  <2>1. /\ rpc # "publish" /\ rpc' # "publish"
        /\ fdset' /\ rpc' \in {"select", "read"}
             => fdset /\ rpc \in {"select", "read"}
    BY <1>4 DEF RAssert
  <2> QED BY <1>4, <2>1, ReaderQuiet DEF RAssert, shared
<1>5. CASE RRecheck
  <2>1. rpc # "publish" /\ rpc' # "publish" /\ (fdset' => ~ReaderFull)
    BY <1>5 DEF RRecheck
  <2> QED BY <1>5, <2>1, ReaderLooks DEF RRecheck, shared
<1>6. CASE RSelectToken
  <2>1. /\ rpc # "publish" /\ rpc' # "publish"
        /\ fdset' /\ rpc' \in {"select", "read"}
             => fdset /\ rpc \in {"select", "read"}
    BY <1>6 DEF RSelectToken
  <2> QED BY <1>6, <2>1, ReaderQuiet DEF RSelectToken, shared
<1>7. CASE RSelectFd
  <2>1. /\ rpc # "publish" /\ rpc' # "publish"
        /\ fdset' /\ rpc' \in {"select", "read"}
             => fdset /\ rpc \in {"select", "read"}
    BY <1>7 DEF RSelectFd
  <2> QED BY <1>7, <2>1, ReaderQuiet DEF RSelectFd, shared
<1>8. CASE RRead
  BY <1>8, ReadStep
<1>9. CASE RPublish
  BY <1>9, PublishStep
<1>10. CASE RCheckFlag
  <2>1. /\ rpc # "publish" /\ rpc' # "publish"
        /\ fdset' /\ rpc' \in {"select", "read"}
             => fdset /\ rpc \in {"select", "read"}
    BY <1>10 DEF RCheckFlag
  <2> QED BY <1>10, <2>1, ReaderQuiet DEF RCheckFlag, shared
<1>11. CASE RCheckThreshold
  <2>1. /\ rpc # "publish" /\ rpc' # "publish"
        /\ fdset' /\ rpc' \in {"select", "read"}
             => fdset /\ rpc \in {"select", "read"}
    BY <1>11 DEF RCheckThreshold
  <2> QED BY <1>11, <2>1, ReaderQuiet DEF RCheckThreshold, shared
<1>12. CASE RClear
  <2>1. /\ rpc # "publish" /\ rpc' # "publish"
        /\ fdset' /\ rpc' \in {"select", "read"}
             => fdset /\ rpc \in {"select", "read"}
    BY <1>12 DEF RClear
  <2> QED BY <1>12, <2>1, ReaderQuiet DEF RClear, shared
<1>13. CASE RWake
  <2>1. /\ rpc # "publish" /\ rpc' # "publish"
        /\ fdset' /\ rpc' \in {"select", "read"}
             => fdset /\ rpc \in {"select", "read"}
    BY <1>13 DEF RWake
  <2> QED BY <1>13, <2>1, ReaderQuiet DEF RWake, shared
<1>14. CASE REof
  <2>1. /\ rpc # "publish" /\ rpc' # "publish"
        /\ fdset' /\ rpc' \in {"select", "read"}
             => fdset /\ rpc \in {"select", "read"}
    BY <1>14 DEF REof
  <2> QED BY <1>14, <2>1, ReaderQuiet DEF REof, shared
<1>15. CASE REofCheck
  <2>1. /\ rpc # "publish" /\ rpc' # "publish"
        /\ fdset' /\ rpc' \in {"select", "read"}
             => fdset /\ rpc \in {"select", "read"}
    BY <1>15 DEF REofCheck
  <2> QED BY <1>15, <2>1, ReaderQuiet DEF REofCheck, shared
<1>16. CASE RCancelled
  <2>1. /\ rpc # "publish" /\ rpc' # "publish"
        /\ fdset' /\ rpc' \in {"select", "read"}
             => fdset /\ rpc \in {"select", "read"}
    BY <1>16 DEF RCancelled
  <2> QED BY <1>16, <2>1, ReaderQuiet DEF RCancelled, shared
<1>17. CASE RSelectSignal
  <2>1. /\ rpc # "publish" /\ rpc' # "publish"
        /\ fdset' /\ rpc' \in {"select", "read"}
             => fdset /\ rpc \in {"select", "read"}
    BY <1>17 DEF RSelectSignal
  <2> QED BY <1>17, <2>1, ReaderQuiet DEF RSelectSignal, shared
<1>18. CASE RDrain
  BY <1>18, ReaderDrainStep
<1>19. CASE CMap
  <2>0. PICK len \in Items : len <= MaxItem /\ want' = front + len
    BY <1>19 DEF CMap
  <2>1. WantOK'
    <3>1. len \in Nat /\ len > 0 /\ front \in Nat /\ front' = front
      BY <1>19, StreamAssumption DEF CMap, IInv, TypeOK
    <3>2. front < want' /\ want' <= front + MaxItem
      BY <2>0, <3>1, Sizes
    <3> QED BY <3>1, <3>2 DEF WantOK
  <2> QED BY <1>19, <2>1, ConsumerQuiet DEF CMap, shared
<1>20. CASE CTest
  <2>1. CASE Enough /\ Mapped
    BY <1>20, <2>1, MappedStep DEF CTest, shared
  <2>2. CASE ~Enough /\ UNCHANGED front
    <3>1. WantOK'
      BY <1>20, <2>2 DEF CTest, IInv, WantOK
    <3> QED BY <1>20, <2>2, <3>1, ConsumerQuiet DEF CTest, shared
  <2> QED BY <1>20, <2>1, <2>2 DEF CTest
<1>21. CASE CArmThreshold
  <2>1. WantOK'
    BY <1>21 DEF CArmThreshold, IInv, WantOK
  <2> QED BY <1>21, <2>1, ConsumerQuiet DEF CArmThreshold, shared
<1>22. CASE CArmFlag
  <2>1. WantOK'
    BY <1>22 DEF CArmFlag, IInv, WantOK
  <2> QED BY <1>22, <2>1, ConsumerQuiet DEF CArmFlag, shared
<1>23. CASE CRecheck
  <2>1. CASE Enough /\ Mapped
    BY <1>23, <2>1, MappedStep DEF CRecheck, shared
  <2>2. CASE ~Enough /\ UNCHANGED front
    <3>1. WantOK'
      BY <1>23, <2>2 DEF CRecheck, IInv, WantOK
    <3> QED BY <1>23, <2>2, <3>1, ConsumerQuiet DEF CRecheck, shared
  <2> QED BY <1>23, <2>1, <2>2 DEF CRecheck
<1>24. CASE CEofCheck
  <2>1. WantOK'
    BY <1>24 DEF CEofCheck, IInv, WantOK
  <2> QED BY <1>24, <2>1, ConsumerQuiet DEF CEofCheck, shared
<1>25. CASE CBlockToken
  <2>1. WantOK'
    BY <1>25 DEF CBlockToken, IInv, WantOK
  <2> QED BY <1>25, <2>1, ConsumerQuiet DEF CBlockToken, shared
<1>26. CASE CRelease
  BY <1>26, ReleaseStep
<1>27. CASE CReleaseFlag
  <2>1. WantOK'
    BY <1>27 DEF CReleaseFlag, IInv, WantOK
  <2> QED BY <1>27, <2>1, ConsumerQuiet DEF CReleaseFlag, shared
<1>28. CASE CReleaseThreshold
  <2>1. WantOK'
    BY <1>28 DEF CReleaseThreshold, IInv, WantOK
  <2> QED BY <1>28, <2>1, ConsumerQuiet DEF CReleaseThreshold, shared
<1>29. CASE CReleaseClear
  <2>1. WantOK'
    BY <1>29 DEF CReleaseClear, IInv, WantOK
  <2> QED BY <1>29, <2>1, ConsumerQuiet DEF CReleaseClear, shared
<1>30. CASE CReleaseWake
  <2>1. WantOK'
    BY <1>30 DEF CReleaseWake, IInv, WantOK
  <2> QED BY <1>30, <2>1, ConsumerQuiet DEF CReleaseWake, shared
<1>31. CASE CClose
  <2>1. WantOK'
    BY <1>31 DEF CClose, IInv, WantOK
  <2> QED BY <1>31, <2>1, ConsumerQuiet DEF CClose, shared
<1>32. CASE CJoin
  <2>1. WantOK'
    BY <1>32 DEF CJoin, IInv, WantOK
  <2> QED BY <1>32, <2>1, ConsumerQuiet DEF CJoin, shared
<1>33. CASE CBlockSignal
  <2>1. WantOK'
    BY <1>33 DEF CBlockSignal, IInv, WantOK
  <2> QED BY <1>33, <2>1, ConsumerQuiet DEF CBlockSignal, shared
<1>34. CASE CDrain
  BY <1>34, ConsumerDrainStep
<1>35. CASE Arrive
  BY <1>35, ArriveStep
<1> QED
  BY <1>1, <1>2, <1>3, <1>4, <1>5, <1>6, <1>7, <1>8, <1>9, <1>10, <1>11,
     <1>12, <1>13, <1>14, <1>15, <1>16, <1>17, <1>18, <1>19, <1>20, <1>21,
     <1>22, <1>23, <1>24, <1>25, <1>26, <1>27, <1>28, <1>29, <1>30, <1>31,
     <1>32, <1>33, <1>34, <1>35 DEF Next, Reader, ReaderThread, Consumer,
     ConsumerThread

-----------------------------------------------------------------------------
(* The theorems *)

\* A step that changes nothing keeps the invariant.
LEMMA Stutter == IInv /\ UNCHANGED vars => IInv'
<1> SUFFICES ASSUME IInv, UNCHANGED vars PROVE IInv'
  OBVIOUS
<1>1. UNCHANGED <<avail, done, reached_eof, wakeup_done, wakeup_avail,
                  need_reader_wakeup, need_consumer_wakeup, buffer, rtokens,
                  ctokens, rpc, nread, fdset, got, cpc, front,
                  released, want, arrived>>
  BY DEF vars, shared, pipes, reader, consumer
<1>2. TypeOK'
  BY <1>1 DEF IInv, TypeOK
<1>3. InFlight' = InFlight
  BY <1>1 DEF InFlight
<1>4. OrderOK' /\ WantOK' /\ AvailOK' /\ DoneOK' /\ DataOK'
  BY <1>1, <1>3 DEF IInv, OrderOK, WantOK, AvailOK, DoneOK, DataOK
<1> QED BY <1>2, <1>4 DEF IInv

\* Every step keeps the invariant.
LEMMA NextIInv == IInv /\ [Next \/ Terminating]_vars => IInv'
<1>1. ASSUME IInv, Next PROVE IInv'
  BY <1>1, TypeStep, PositionStep DEF IInv
<1> QED BY <1>1, Stutter DEF Terminating

\* The invariant of the reader and consumer code as a whole: the positions
\* are in order, each counter in memory lags behind its position by no more
\* than is safe, and the bytes between release and read are in place.
THEOREM Invariance == Spec => []IInv
BY InitIInv, NextIInv, PTL DEF Spec

\* The variables of the two threads keep their types: in particular the
\* counters stay words, and no more is read than there is.
THEOREM TypeCorrect == Spec => []TypeOK
<1>1. IInv => TypeOK
  BY DEF IInv
<1> QED BY <1>1, Invariance, PTL

\* The chunks of map_range lead to the bytes of the range.
LEMMA ChunksLead ==
  ASSUME NEW s \in Nat, NEW e \in Nat, s < e, e - s <= Size,
         NEW i \in 0..(e - s - 1)
  PROVE  ChunkByte(map_chunks(s, e), i) = buffer[(s + i) % Size]
<1> DEFINE offset == s % Size
<1>1. offset \in Int /\ 0 <= offset /\ offset < Size
  BY Sizes, DivMod
<1>2. i \in Int /\ 0 <= i /\ i < e - s /\ s \in Int
  OBVIOUS
<1>3. CASE e - s <= Size - offset
  <2>1. map_chunks(s, e)[1].ptr = offset /\ map_chunks(s, e)[1].length = e - s
    BY <1>3 DEF map_chunks
  <2>2. ((s + i) % Size) = offset + i
    <3>1. offset + i < Size BY <1>1, <1>2, <1>3, Sizes
    <3> QED BY <1>2, <3>1, Sizes, ModStep, Zenon
  <2> QED BY <1>2, <2>1, <2>2 DEF ChunkByte
<1>4. CASE ~(e - s <= Size - offset)
  <2>1. /\ map_chunks(s, e)[1].ptr = offset
        /\ map_chunks(s, e)[1].length = Size - offset
        /\ map_chunks(s, e)[2].ptr = 0
    BY <1>4 DEF map_chunks
  <2>2. CASE i < Size - offset
    <3>1. offset + i < Size BY <1>1, <1>2, <2>2, Sizes
    <3>2. ((s + i) % Size) = offset + i
      BY <1>2, <3>1, Sizes, ModStep, Zenon
    <3> QED BY <2>1, <2>2, <3>2 DEF ChunkByte
  <2>3. CASE ~(i < Size - offset)
    <3>1. Size <= offset + i /\ offset + i < 2 * Size
      BY <1>1, <1>2, <2>3, Sizes
    <3>2. ((s + i) % Size) = (offset + i) - Size
      BY <1>2, <3>1, Sizes, ModStep, Zenon
    <3>3. 0 + (i - (Size - offset)) = (offset + i) - Size
      BY <1>1, <1>2, Sizes
    <3> HIDE DEF offset
    <3> QED BY <2>1, <2>3, <3>2, <3>3 DEF ChunkByte
  <2> QED BY <2>2, <2>3
<1> QED BY <1>3, <1>4

\* What map_range gave out stays as it is until release_to: the reader
\* thread never overwrites a byte the event code may still look at, however
\* the counters wrap and however long their stores take to become visible.
THEOREM DataIntact == Spec => []MappedIntact
<1>1. ASSUME IInv PROVE MappedIntact
  <2>1. /\ released \in Nat /\ front \in Nat /\ nread \in Nat
        /\ front <= nread /\ InFlight \in Nat
    BY <1>1 DEF IInv, TypeOK, OrderOK, InFlight
  <2>2. PICK d \in 0..released : nread + InFlight <= d + Size
    BY <1>1 DEF IInv, DoneOK
  <2> SUFFICES ASSUME NEW s \in released..(front - 1),
                      NEW i \in 0..(front - s - 1)
               PROVE  ChunkByte(map_chunks(s, front), i) = s + i
    BY DEF MappedIntact
  <2>3. /\ s \in Nat /\ s < front /\ front - s <= Size
        /\ s + i \in released..(nread + InFlight - 1)
    BY <2>1, <2>2, Sizes
  <2>4. ChunkByte(map_chunks(s, front), i) = buffer[(s + i) % Size]
    BY <2>1, <2>3, ChunksLead
  <2>5. buffer[(s + i) % Size] = s + i
    BY <1>1, <2>3 DEF IInv, DataOK
  <2> QED BY <2>4, <2>5
<1> QED BY <1>1, Invariance, PTL

\* read() is never called for 0 bytes, so that its answer 0 is the end of the
\* file and nothing else: the space seen before select() is still there.
THEOREM NeverEmptyRead == Spec => []NoEmptyRead
<1>1. ASSUME IInv, rpc = "read", fdset PROVE Segment > 0
  <2>1. PICK d \in 0..released :
          /\ done = Wrap(d) /\ nread + InFlight <= d + Size
          /\ fdset /\ rpc \in {"select", "read"} => nread < d + Size
    BY <1>1 DEF IInv, DoneOK
  <2>2. /\ TypeOK /\ OrderOK /\ d \in Nat /\ d <= nread
        /\ nread <= d + Size /\ nread < d + Size
    BY <1>1, <2>1 DEF IInv, TypeOK, OrderOK, InFlight
  <2> QED BY <2>1, <2>2, ReadFits
<1>2. IInv => NoEmptyRead
  BY <1>1 DEF NoEmptyRead
<1> QED BY <1>2, Invariance, PTL

\* The buffer implements the window of ByteWindow: bytes are stored once and
\* in order into space that was released, handed out only once stored, and
\* released only once handed out.
THEOREM Implementation == Spec => ImplementsWindow
<1>1. Init => Window!WInit
  BY DEF Init, Window!WInit
<1>2. ASSUME IInv, [Next \/ Terminating]_vars
      PROVE  [Window!WNext]_(Window!window)
  <2>0. /\ nread \in Nat /\ front \in Nat /\ released \in Nat /\ got \in Nat
        /\ released <= front /\ front <= nread
        /\ InFlight \in Nat
    BY <1>2 DEF IInv, TypeOK, OrderOK, InFlight
  <2>1. CASE UNCHANGED <<nread, front, released>>
    BY <2>1 DEF Window!window
  <2>2. CASE RPublish
    <3>1. nread + got <= FileLen
      BY <1>2, <2>0, <2>2, Sizes DEF IInv, TypeOK, OrderOK, InFlight, RPublish
    <3>2. PICK d \in 0..released : nread + InFlight <= d + Size
      BY <1>2 DEF IInv, DoneOK
    <3>3. nread + got <= released + Size
      BY <2>0, <2>2, <3>2, Sizes DEF InFlight, RPublish
    <3>4. nread' = nread + got /\ UNCHANGED <<front, released>>
      BY <2>2 DEF RPublish, consumer
    <3>5. CASE got = 0
      BY <2>0, <2>1, <3>4, <3>5
    <3>6. CASE got > 0
      BY <2>0, <3>1, <3>3, <3>4, <3>6, Sizes DEF Window!WNext, Window!Store
    <3> QED BY <2>0, <3>5, <3>6
  <2>3. ASSUME CTest \/ CRecheck PROVE [Window!WNext]_(Window!window)
    <3>1. CASE Enough /\ Mapped
      <4>1. front' > front /\ front' <= nread /\ front' \in Nat
        BY <1>2, <2>3, <3>1, MappedStep
           DEF CTest, CRecheck, shared, Mapped, IInv, TypeOK
      <4>2. UNCHANGED <<nread, released>>
        BY <2>3 DEF CTest, CRecheck, reader
      <4> QED BY <2>0, <4>1, <4>2 DEF Window!WNext, Window!Map
    <3>2. CASE UNCHANGED front
      BY <2>1, <2>3, <3>2 DEF CTest, CRecheck, reader
    <3> QED BY <2>3, <3>1, <3>2 DEF CTest, CRecheck
  <2>4. CASE CRelease
    <3>1. released' > released /\ released' <= front /\ released' \in Nat
      BY <2>0, <2>4, StreamAssumption DEF CRelease
    <3>2. UNCHANGED <<nread, front>>
      BY <2>4 DEF CRelease, reader
    <3> QED BY <2>0, <3>1, <3>2 DEF Window!WNext, Window!Free
  <2>5. ASSUME Reader, ~RPublish PROVE UNCHANGED <<nread, front, released>>
    BY <2>5, SMTT(30) DEF Reader, ReaderThread, RTop, RArmThreshold, RArmFlag, RAssert,
       RRecheck, RSelectToken, RSelectFd, RRead, RCheckFlag, RCheckThreshold,
       RClear, RWake, REof, REofCheck, RCancelled, RSelectSignal, RDrain,
       consumer, reader
  <2>6. ASSUME Consumer, ~CTest, ~CRecheck, ~CRelease
        PROVE  UNCHANGED <<nread, front, released>>
    BY <2>6 DEF Consumer, ConsumerThread, CMap, CArmThreshold, CArmFlag,
       CEofCheck, CBlockToken, CReleaseFlag, CReleaseThreshold, CReleaseClear,
       CReleaseWake, CClose, CJoin, CBlockSignal, CDrain, consumer, reader
  <2>7. CASE Arrive
    BY <2>1, <2>7 DEF Arrive, reader, consumer
  <2>8. CASE UNCHANGED vars
    BY <2>1, <2>8 DEF vars, reader, consumer
  <2> QED BY <1>2, <2>1, <2>2, <2>3, <2>4, <2>5, <2>6, <2>7, <2>8
          DEF Next, Terminating
<1> QED BY <1>1, <1>2, Invariance, PTL DEF Spec, ImplementsWindow, Window!WSpec
=============================================================================
