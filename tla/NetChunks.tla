----------------------------- MODULE NetChunks -------------------------------
(***************************************************************************)
(* The server that throws ntuple data at its clients                       *)
(* (hbook/ext_file_net_io.cc), with as much of the main loop of            *)
(* ext_file_writer.cc as decides when the clients are looked after.        *)
(*                                                                         *)
(* Messages are put one after the other into chunks of memory.  Those of   *)
(* the setup are kept for clients to come; of the others, chunks that no   *)
(* client is in are reclaimed when too much memory is used, and then       *)
(* missing for clients that are slow.  A client first asks on a well-known *)
(* port for the port of the data.                                          *)
(*                                                                         *)
(* Bytes are numbered in the order they are committed, and stand for       *)
(* themselves; a chunk is known by the number of its first byte.  One      *)
(* process does it all; what interleaves with it are the clients, the      *)
(* source of the messages, and the signal (SIGIO).                         *)
(*                                                                         *)
(* Plausible mistakes are defined before what they distort: ReclaimAny,    *)
(* CommitStart, FilledAlone, AllocatedLess, SpliceQuiet, SelectCloseWait,  *)
(* FollowingEvents, CloseRoundOnce.                                        *)
(***************************************************************************)
EXTENDS Integers, Sequences, FiniteSets, FiniteSetsExt

CONSTANTS
  Clients,       \* numbers; those to look at are in this order
  Hdr,           \* sizeof(send_item_chunk)
  Factor,        \* a chunk is made for so many messages like the first; 4
  MinAlloc,      \* smallest chunk; 0x10000
  MaxMemory,     \* MAX_BUFFER_MEMORY
  Lens,          \* lengths of messages, before they are compacted
  Magic,         \* bytes a client is expected to send
  InitMsgs, MaxMsgs,   \* bounds: messages of the setup, and in all
  MaxOut         \* bound: bytes a client sends

ASSUME MemoryAssumption ==
  /\ Hdr \in Nat /\ Factor \in Nat \ {0} /\ MinAlloc > Hdr
  /\ Clients \subseteq Nat /\ Lens \subseteq Nat \ {0} /\ InitMsgs \in 1..MaxMsgs

VARIABLES
  pc, sig,        \* sig: _got_sigio
  delayed,        \* _delayed_got_sigio
  init, event,    \* the lists of chunks
  initLen, eventLen,   \* _init_chunks._length, _event_chunks._length
  ends,           \* last bytes of the messages committed
  pm,             \* clients of the port map
  cl,             \* data clients
  todo, again,    \* ready by select(); of these, not in their first write
  got             \* what a client was sent

lists == <<init, event, initLen, eventLen, ends>>
vars  == <<pc, sig, delayed, lists, pm, cl, todo, again, got>>

Bytes  == IF ends = <<>> THEN 0 ELSE ends[Len(ends)]
Setup  == ends[InitMsgs]                \* once they are all there

NoClient == [ph |-> "away", at |-> 0, off |-> 0, full |-> FALSE,
             out |-> 0, left |-> FALSE]

Init ==
  /\ pc = "setup" /\ sig = FALSE /\ delayed = FALSE
  /\ init = <<>> /\ event = <<>> /\ initLen = 0 /\ eventLen = 0 /\ ends = <<>>
  /\ pm = [c \in Clients |-> "away"]
  /\ cl = [c \in Clients |-> NoClient]
  /\ todo = {} /\ again = {} /\ got = [c \in Clients |-> {}]

------------------------------------------------------------------------------
(* ext_net_io_reserve_chunk: room in the last chunk, or a new one. *)
HasRoom(list, len) ==
  list # <<>> /\ list[Len(list)].alloc - list[Len(list)].len >= len

AllocSize(len) == LET n == Hdr + Factor * len IN IF n < MinAlloc THEN MinAlloc ELSE n

(* Mistaken: a chunk is freed whether or not it is in use. *)
ReclaimAny(alloc) ==
  LET upto[k \in 0..Len(event)] ==
        IF k = 0 THEN [len |-> eventLen, kept |-> <<>>]
        ELSE LET s == upto[k - 1]
             IN  IF initLen + s.len + alloc > MaxMemory
                 THEN [s EXCEPT !.len = @ - (Hdr + event[k].len)]
                 ELSE [s EXCEPT !.kept = Append(@, event[k])]
  IN  upto[Len(event)]

(* Chunks no client is in are taken out, from the oldest on, as long as    *)
(* too much memory is counted.  Whether one of them is used for the new    *)
(* chunk or all are freed makes no difference here.                        *)
Reclaim(alloc) ==
  LET upto[k \in 0..Len(event)] ==
        IF k = 0 THEN [len |-> eventLen, kept |-> <<>>]
        ELSE LET s == upto[k - 1]
             IN  IF initLen + s.len + alloc > MaxMemory /\ event[k].users = 0
                 THEN [s EXCEPT !.len = @ - (Hdr + event[k].len)]
                 ELSE [s EXCEPT !.kept = Append(@, event[k])]
  IN  upto[Len(event)]

(* ext_net_io_commit_chunk: clients that had nothing more to send go on    *)
(* with the data just added.                                               *)
Waiting == {c \in Clients : cl[c].ph = "data" /\ cl[c].at = 0}

(* Mistaken: they begin the chunk anew. *)
CommitStart(chunk, n) ==
  /\ cl' = [c \in Clients |-> IF c \in Waiting
                              THEN [cl[c] EXCEPT !.at = chunk.first, !.off = 0]
                              ELSE cl[c]]
  /\ ends' = Append(ends, Bytes + n)

Commit(chunk, n) ==
  /\ cl' = [c \in Clients |-> IF c \in Waiting
                              THEN [cl[c] EXCEPT !.at = chunk.first, !.off = chunk.len]
                              ELSE cl[c]]
  /\ ends' = Append(ends, Bytes + n)

(* Mistaken: these clients are not counted. *)
FilledAlone(chunk, n) == [chunk EXCEPT !.len = @ + n]

Filled(chunk, n) ==
  [chunk EXCEPT !.len = @ + n, !.users = @ + Cardinality(Waiting)]

(* Mistaken: the memory of a new chunk is not counted, only the data. *)
AllocatedLess(len) == Hdr + len

Allocated(len) == AllocSize(len)

(* Mistaken: the main loop is never told of the clients. *)
SpliceQuiet(isDelayed) == sig

Splice(isDelayed) == sig \/ isDelayed

NewChunk(len) == [first |-> Bytes + 1, len |-> 0, alloc |-> AllocSize(len) - Hdr, users |-> 0]

(* A message, for which len bytes are reserved and n used. *)
PutInit(len) ==
  /\ init' = IF HasRoom(init, len)
             THEN [init EXCEPT ![Len(init)] = Filled(@, len)]
             ELSE Append(init, Filled(NewChunk(len), len))
  /\ initLen' = IF HasRoom(init, len) THEN initLen ELSE initLen + AllocSize(len)
  /\ Commit(NewChunk(len), len)
  /\ UNCHANGED <<event, eventLen, sig, delayed>>

PutEvent(len, n) ==
  \/ /\ HasRoom(event, len)
     /\ event' = [event EXCEPT ![Len(event)] = Filled(@, n)]
     /\ Commit(event[Len(event)], n)
     /\ delayed' = (delayed \/ Waiting # {})
     /\ UNCHANGED <<init, initLen, eventLen, sig>>
  \/ /\ ~HasRoom(event, len)
     /\ LET r == Reclaim(AllocSize(len))
        IN  /\ event' = Append(r.kept, Filled(NewChunk(len), n))
            /\ eventLen' = r.len + Allocated(len)
     /\ Commit(NewChunk(len), n)
     /\ sig' = Splice(delayed)
     /\ delayed' = (Waiting # {})
     /\ UNCHANGED <<init, initLen>>

------------------------------------------------------------------------------
(* The main loop.  The messages of the setup come first, before there is a *)
(* port; nobody can connect then.                                          *)
SetupMessage ==
  /\ pc = "setup"
  /\ \E len \in Lens : PutInit(len)
  /\ pc' = IF Len(ends') = InitMsgs THEN "top" ELSE "setup"
  /\ UNCHANGED <<pm, todo, again, got>>

(* An event is compacted, and may need less than was reserved. *)
EventMessage ==
  /\ pc = "top" /\ ~sig /\ Len(ends) < MaxMsgs - 1
  /\ \E len \in Lens : \E n \in 1..len : PutEvent(len, n)
  /\ UNCHANGED <<pc, pm, todo, again, got>>

(* The last message, that all is done or was aborted; with it the ports    *)
(* are closed.                                                             *)
DoneMessage ==
  /\ pc = "top" /\ ~sig
  /\ PutEvent(Min(Lens), Min(Lens))
  /\ pc' = "close"
  /\ UNCHANGED <<pm, todo, again, got>>

(* select(): a client with data to send is ready if its socket is not full *)
(* (or broken); one with none is only looked at when shutting down.  The   *)
(* main loop calls it when it has been signalled, or has to wait.          *)
Shutdown == pc \in {"close", "closing"}

Ready == {c \in Clients :
            /\ cl[c].ph = "data"
            /\ IF cl[c].at # 0 THEN ~cl[c].full \/ cl[c].left
               ELSE Shutdown /\ (cl[c].left \/ cl[c].out > 0)}

Select ==
  /\ pc = "top"
  /\ pc' = "select" /\ sig' = FALSE
  /\ todo' = Ready
  /\ UNCHANGED <<delayed, lists, pm, cl, again, got>>

(* Mistaken: it goes on until all clients have left. *)
SelectCloseWait ==
  /\ pc = "close" /\ \E c \in Clients : cl[c].ph = "data"
  /\ pc' = "closing" /\ todo' = Ready
  /\ UNCHANGED <<sig, delayed, lists, pm, cl, again, got>>

(* ext_net_io_server_close: as long as there are clients, and until for    *)
(* two seconds nobody is ready.                                            *)
SelectClose ==
  /\ pc = "close" /\ \E c \in Clients : cl[c].ph = "data"
  /\ pc' = IF Ready = {} THEN "exit" ELSE "closing"
  /\ todo' = Ready
  /\ UNCHANGED <<sig, delayed, lists, pm, cl, again, got>>

CloseDone ==
  /\ pc = "close" /\ \A c \in Clients : cl[c].ph # "data"
  /\ pc' = "exit"
  /\ UNCHANGED <<sig, delayed, lists, pm, cl, todo, again, got>>

First(S) == {c \in S : \A d \in S : c <= d}

(* The chunk with the given first byte, and the one after it. *)
ChunkAt(f) == CHOOSE k \in {init[i] : i \in 1..Len(init)} \cup
                           {event[i] : i \in 1..Len(event)} : k.first = f

(* Mistaken: it goes on with the events, if there are some. *)
FollowingEvents(f) ==
  LET later == {k \in {event[i].first : i \in 1..Len(event)} : k > f}
  IN  IF later = {} THEN 0 ELSE Min(later)

Following(f) ==
  LET later == {k \in {init[i].first : i \in 1..Len(init)} \cup
                      {event[i].first : i \in 1..Len(event)} : k > f}
  IN  IF later = {} THEN 0 ELSE Min(later)

Moved(list, from, to) ==
  [i \in 1..Len(list) |->
     [list[i] EXCEPT !.users = @ - (IF list[i].first = from THEN 1 ELSE 0)
                                 + (IF list[i].first = to THEN 1 ELSE 0)]]

Move(from, to) == init' = Moved(init, from, to) /\ event' = Moved(event, from, to)

(* ext_net_io_client_write, one send() of it: in part, the socket is full  *)
(* then; or all, and then the next chunk is tried at once.                 *)
SendPart(c) ==
  /\ c \in First(todo) /\ cl[c].at # 0 /\ ~cl[c].left
  /\ \E n \in 1..(ChunkAt(cl[c].at).len - cl[c].off - 1) :
       /\ cl' = [cl EXCEPT ![c].off = @ + n, ![c].full = TRUE]
       /\ got' = [got EXCEPT ![c] = @ \cup {cl[c].at + cl[c].off + i : i \in 0..(n - 1)}]
  /\ todo' = todo \ {c} /\ again' = again \ {c}
  /\ UNCHANGED <<pc, sig, delayed, lists, pm>>

SendRest(c) ==
  /\ c \in First(todo) /\ cl[c].at # 0 /\ ~cl[c].left
  /\ LET next == Following(cl[c].at)
         k    == ChunkAt(cl[c].at)
     IN  /\ cl' = [cl EXCEPT ![c].at = next, ![c].off = 0]
         /\ Move(k.first, next)
         /\ got' = [got EXCEPT ![c] = @ \cup (k.first + cl[c].off)..(k.first + k.len - 1)]
         /\ todo' = IF next = 0 THEN todo \ {c} ELSE todo
         /\ again' = IF next = 0 THEN again \ {c} ELSE again \cup {c}
  /\ UNCHANGED <<pc, sig, delayed, initLen, eventLen, ends, pm>>

(* The socket turns out to be full (EAGAIN), after at least one write. *)
SendNone(c) ==
  /\ c \in First(todo) /\ c \in again
  /\ cl' = [cl EXCEPT ![c].full = TRUE]
  /\ todo' = todo \ {c} /\ again' = again \ {c}
  /\ UNCHANGED <<pc, sig, delayed, lists, pm, got>>

Remove(c) ==
  /\ cl' = [cl EXCEPT ![c] = [NoClient EXCEPT !.ph = "closed"]]
  /\ got' = [got EXCEPT ![c] = {}]
  /\ Move(cl[c].at, 0)
  /\ todo' = todo \ {c} /\ again' = again \ {c}
  /\ UNCHANGED <<pc, sig, delayed, initLen, eventLen, ends, pm>>

(* The client has left (before: what it was still sent does not count),    *)
(* and writing fails.                                                      *)
SendFails(c) ==
  /\ c \in First(todo) /\ cl[c].at # 0 /\ cl[c].left
  /\ Remove(c)

(* When shutting down: the client has left, or sends more than expected. *)
EndClient(c) ==
  /\ c \in First(todo) /\ cl[c].at = 0
  /\ \/ /\ cl[c].out > 0 /\ cl[c].off + 1 <= Magic
        /\ cl' = [cl EXCEPT ![c].out = @ - 1, ![c].off = @ + 1]
        /\ todo' = todo \ {c}
        /\ UNCHANGED <<pc, sig, delayed, lists, pm, again, got>>
     \/ /\ cl[c].out > 0 => cl[c].off + 1 > Magic
        /\ Remove(c)

(* The port map: accepted clients are told the port, and are removed when  *)
(* they have closed the connection (bytes they send before are dropped).   *)
PortTold(c) ==
  /\ pc = "select" /\ todo = {} /\ pm[c] \in {"open", "left"}
  /\ pm' = [pm EXCEPT ![c] = IF @ = "open" THEN "told" ELSE "removed"]
  /\ UNCHANGED <<pc, sig, delayed, lists, cl, todo, again, got>>

(* The last thing in a round is to accept one client of each kind. *)
Accepted(p, d) ==
  /\ pm' = [c \in Clients |-> IF c \in p THEN "open" ELSE pm[c]]
  /\ cl' = [c \in Clients |-> IF c \in d THEN [cl[c] EXCEPT !.ph = "data", !.at = init[1].first]
                              ELSE cl[c]]
  /\ init' = [init EXCEPT ![1].users = @ + Cardinality(d)]
  /\ sig' = (sig \/ p # {} \/ d # {})

SelectDone ==
  /\ pc = "select" /\ todo = {} /\ \A c \in Clients : pm[c] \notin {"open", "left"}
  /\ Accepted(First({c \in Clients : pm[c] = "dialling"}),
              First({c \in Clients : cl[c].ph = "dialling"}))
  /\ pc' = "top"
  /\ UNCHANGED <<delayed, event, initLen, eventLen, ends, todo, again, got>>

(* Mistaken: one round must do. *)
CloseRoundOnce ==
  /\ pc = "closing" /\ todo = {}
  /\ pc' = "exit"
  /\ UNCHANGED <<sig, delayed, lists, pm, cl, todo, again, got>>

CloseRound ==
  /\ pc = "closing" /\ todo = {}
  /\ pc' = "close"
  /\ UNCHANGED <<sig, delayed, lists, pm, cl, todo, again, got>>

Server == \/ SetupMessage \/ Select \/ SelectClose \/ CloseDone
          \/ SelectDone \/ CloseRound
          \/ \E c \in Clients : \/ SendPart(c) \/ SendRest(c) \/ SendNone(c)
                                \/ SendFails(c) \/ EndClient(c) \/ PortTold(c)

------------------------------------------------------------------------------
(* The clients.  The kernel signals the server when something is possible  *)
(* with a socket that was not before.                                      *)
Listening == pc \in {"top", "select"}

Dial(c) ==
  /\ Listening /\ pm[c] = "away"
  /\ pm' = [pm EXCEPT ![c] = "dialling"] /\ sig' = TRUE
  /\ UNCHANGED <<pc, delayed, lists, cl, todo, again, got>>

DialData(c) ==
  /\ Listening /\ pm[c] = "told"
  /\ pm' = [pm EXCEPT ![c] = "left"]
  /\ cl' = [cl EXCEPT ![c].ph = "dialling"] /\ sig' = TRUE
  /\ UNCHANGED <<pc, delayed, lists, todo, again, got>>

Read(c) ==
  /\ cl[c].ph = "data" /\ pc # "exit" /\ cl[c].full /\ ~cl[c].left
  /\ cl' = [cl EXCEPT ![c].full = FALSE] /\ sig' = Listening
  /\ UNCHANGED <<pc, delayed, lists, pm, todo, again, got>>

Write(c) ==
  /\ cl[c].ph = "data" /\ Shutdown /\ ~cl[c].left /\ cl[c].out < MaxOut /\ cl[c].at = 0
  /\ cl' = [cl EXCEPT ![c].out = @ + 1]
  /\ UNCHANGED <<pc, sig, delayed, lists, pm, todo, again, got>>

Leave(c) ==
  /\ cl[c].ph = "data" /\ pc # "exit" /\ ~cl[c].left
  /\ cl' = [cl EXCEPT ![c].left = TRUE] /\ sig' = Listening
  /\ UNCHANGED <<pc, delayed, lists, pm, todo, again, got>>

Next == \/ Server \/ EventMessage \/ DoneMessage
        \/ \E c \in Clients : Dial(c) \/ DialData(c) \/ Read(c) \/ Write(c) \/ Leave(c)

Spec == Init /\ [][Next]_vars

(* The server process goes on; nothing is assumed of the clients, nor that *)
(* messages come.                                                          *)
FairSpec == Spec /\ WF_vars(Server)

------------------------------------------------------------------------------
Chunk == [first : Nat \ {0}, len : Nat, alloc : Nat, users : 0..Cardinality(Clients)]

(* Type invariant. *)
TypeOK ==
  /\ pc \in {"setup", "top", "select", "close", "closing", "exit"}
  /\ sig \in BOOLEAN /\ delayed \in BOOLEAN
  /\ init \in Seq(Chunk) /\ event \in Seq(Chunk)
  /\ initLen \in Nat /\ eventLen \in Nat /\ ends \in Seq(Nat)
  /\ pm \in [Clients -> {"away", "dialling", "open", "told", "left", "removed"}]
  /\ cl \in [Clients -> [ph : {"away", "dialling", "data", "closed"}, at : Nat, off : Nat,
                         full : BOOLEAN, out : 0..MaxOut, left : BOOLEAN]]
  /\ todo \subseteq Clients /\ again \subseteq todo
  /\ got \in [Clients -> SUBSET Nat]

(* What check_list_integrity asserts and commit_chunk and client_write     *)
(* rely on: a client is in a chunk of the lists, before its end, and the   *)
(* chunk counts it.  The chunks hold successive data, those of the setup   *)
(* all of theirs; a chunk is never overfull.                               *)
ListsSound ==
  LET all == init \o event
  IN  /\ \A i \in 1..Len(all) :
            /\ all[i].users = Cardinality({c \in Clients : cl[c].at = all[i].first})
            /\ all[i].len \in 1..all[i].alloc
            /\ i > 1 => all[i - 1].first + all[i - 1].len <= all[i].first
            /\ i \in 2..Len(init) => all[i - 1].first + all[i - 1].len = all[i].first
      /\ \A c \in Clients : cl[c].at # 0 =>
            \E i \in 1..Len(all) : all[i].first = cl[c].at /\ cl[c].off < all[i].len

(* Freeing a chunk takes its header and data off the account, while making *)
(* it has added its size: the account (an unsigned number) never falls     *)
(* below what all the chunks of events would take off it.                  *)
AccountCovers ==
  LET sum[k \in 0..Len(event)] == IF k = 0 THEN 0 ELSE sum[k - 1] + Hdr + event[k].len
  IN  sum[Len(event)] <= eventLen

(* The lists of chunks are sound: no chunk is freed with a client in it,   *)
(* none is overfull, and the account of their memory does not wrap.        *)
ChunksSound == TypeOK /\ ListsSound /\ AccountCovers

(* A client that could be sent data is behind by at most the newest chunk  *)
(* when the main loop takes another message without a look at the clients. *)
NotPassedOver ==
  pc = "top" /\ ~sig =>
    \A c \in Ready : ~cl[c].left => event # <<>> /\ cl[c].at = event[Len(event)].first

(* A client gets all of the setup before any event, and of the events      *)
(* whole messages: of none but the one being sent only a part.             *)
WholeMessages ==
  \A c \in Clients : got[c] # {} =>
    LET last == Max(got[c])
    IN  /\ \A m \in 1..Len(ends) :
              LET msg == ((IF m = 1 THEN 0 ELSE ends[m - 1]) + 1)..ends[m]
              IN  \/ msg \cap got[c] = {}
                  \/ msg \subseteq got[c]
                  \/ last \in msg /\ msg \cap got[c] = Min(msg)..last
        /\ \A b \in 1..Setup : b < last => b \in got[c]

(* A client is sent nothing twice, and nothing after what came later. *)
SentInOrder ==
  [][\A c \in Clients : got[c] # {} /\ ~(got'[c] \subseteq got[c]) =>
       cl[c].at + cl[c].off > Max(got[c])]_vars

(* Nobody still there is disconnected before all was sent: shutting down   *)
(* is only given up when all those clients fail to take more.              *)
NotCutShort ==
  [][/\ pc # "exit" /\ pc' = "exit" =>
          \A c \in Clients : cl[c].ph = "data" /\ ~cl[c].left =>
                             cl[c].full \/ Bytes \in got[c]
     /\ \A c \in Clients : cl[c].ph = "data" /\ cl'[c].ph = "closed" /\ ~cl[c].left =>
                             Shutdown /\ Bytes \in got[c]]_vars

(* No step serves a client wrongly: not by data out of order, and not by   *)
(* leaving it before it has all that it takes.                             *)
ServedRight == SentInOrder /\ NotCutShort

(* Shutting down ends, whatever the clients do. *)
ShutdownEnds == (pc = "close") ~> (pc = "exit")

------------------------------------------------------------------------------
(* A property the code does not have: chunks of events are only given up   *)
(* when their memory is needed ("We keep a buffer of messages to send, of  *)
(* several MB").  The account grows with each chunk freed that was not     *)
(* filled, by what was not, and in the end nothing is kept that is not in  *)
(* use.                                                                    *)
InUse ==
  LET sum[k \in 0..Len(event)] == IF k = 0 THEN 0 ELSE sum[k - 1] + Hdr + event[k].alloc
  IN  initLen + sum[Len(event)]

KeepsBuffer ==
  [][event # <<>> /\ event'[1].first # event[1].first =>
       InUse + event'[Len(event')].alloc + Hdr > MaxMemory]_vars
==============================================================================
