----------------------------- MODULE LmdServer -----------------------------
(***************************************************************************)
(* The LMD network server (file_input/lmd_output_tcp.cc): the thread that  *)
(* writes events fills streams (blocks of buffers) and hands them through  *)
(* a ring to a server thread, which sends them to any number of clients.   *)
(* Streams come back through a second ring.  When a ring is empty or full  *)
(* the two threads exchange tokens.  A client that may have missed sticky  *)
(* events waits for a recovery stream, in which the producer replays them. *)
(*                                                                         *)
(* The unit of data is a stream: only full streams are handed over, and a  *)
(* part of a stream that was sent only moves _offset.                      *)
(***************************************************************************)
EXTENDS Integers, Sequences, FiniteSets, SequencesExt

CONSTANTS
    Clients,      \* connections that may be open at the same time
    DataPort,     \* those that may be made to a port for data
    StreamPort,   \* those of them that use the stream protocol
    MapPort,      \* those that may be made to a port that only tells the data
                  \* port (_allow_data false)
    MaxStreams,   \* _max_streams
    FreeRing,     \* LMD_OUTPUT_FREE_STREAMS
    FilledRing,   \* LMD_OUTPUT_FILLED_STREAMS
    Options,      \* the sets of options and habits of clients to look at
    ReplayLen,    \* number of streams that the replay of the store takes
    MaxWrites,    \* bound: events written and flushes
    MaxUpdates,   \* bound: sticky events written
    None

ServerAssumption ==
    /\ DataPort \cup StreamPort \cup MapPort \subseteq Clients
    /\ MaxStreams \in Nat \ {0} /\ FreeRing \in Nat \ {0, 1}
    /\ FilledRing \in Nat \ {0} /\ ReplayLen \in Nat \ {0}
    /\ Options \subseteq SUBSET {"hold", "sendonce", "dropold", "leave", "port"}
    /\ MaxWrites \in Nat /\ MaxUpdates \in Nat

ASSUME ServerAssumption

VARIABLES
    opts,     \* the one of Options that this server and its clients have
    st,       \* _state: streams, list, rings and the stream being filled
    client,   \* the fields of each client connection
    con,      \* _clients, in order of connection
    flag,     \* _tell_fill_stream and _need_recovery_stream
    toserver, toproducer,   \* tokens in the pipes of the two thread_blocks
    spc,      \* where the server thread is in its loop
    srv,      \* locals and members only the server thread uses
    ppc,      \* where the producer is
    prod      \* locals and members only the producer uses

vars == <<opts, st, client, con, flag, toserver, toproducer, spc, srv, ppc, prod>>

\* The command line options, of which dropold is given or not.
Hold == "hold" \in opts
Sendonce == "sendonce" \in opts
Dropold == "dropold" \in opts

\* Clients may disconnect, and connect only to ask for the data port.
MayLeave == "leave" \in opts
MayAskPort == "port" \in opts

Streams == 1 .. MaxStreams
Updates == 1 .. MaxUpdates

(***************************************************************************)
(* A stream: flags, number of clients, and what it carries: the sticky     *)
(* updates in it, and the number of updates which its ordinary events come *)
(* after (-1: it has no ordinary events).  sent is kept with hold only: a  *)
(* client got the stream.                                                  *)
(***************************************************************************)
Fresh == [sticky |-> FALSE, recovery |-> "no", lost |-> FALSE,
          clients |-> 0, adds |-> {}, level |-> -1, sent |-> FALSE]

NoClient == [state |-> "none", current |-> None, pending |-> None,
             need |-> 3, got |-> {}]

-----------------------------------------------------------------------------
(* lmd_output_state: the methods, as functions of the state. *)

\* Faulty variant: the room in the ring is not looked at.
AddFreeAnyway(s0, s) == [s0 EXCEPT !.free = Append(@, s)]

\* A freed stream goes to the ring; it is deleted when there is no room.
add_free_stream(s0, s) ==
    IF Len(s0.free) >= FreeRing
    THEN [s0 EXCEPT !.alloc = @ \ {s}]
    ELSE [s0 EXCEPT !.free = Append(@, s)]

\* while (_num_streams < _max_streams && create_free_stream()).
CreateOne(s0, s) ==
    IF Len(s0.free) >= FreeRing \div 2
    THEN s0
    ELSE add_free_stream([s0 EXCEPT !.alloc = @ \cup {s}], s)

create_free_streams(s0) ==
    FoldLeft(CreateOne, s0, SetToSortSeq(Streams \ s0.alloc, <))

Unused(s0) == {i \in DOMAIN s0.list : s0.stream[s0.list[i]].clients = 0}

IndexOf(seq, s) == CHOOSE i \in DOMAIN seq : seq[i] = s

MinOf(S) == CHOOSE i \in S : \A j \in S : i <= j


\* The oldest stream that no client holds is given up; its predecessor
\* remembers it when sticky events went with it.
free_oldest_unused(s0) ==
    IF Unused(s0) = {}
    THEN s0
    ELSE LET i == MinOf(Unused(s0))
             s == s0.list[i]
             marked == IF i > 1 /\ s0.stream[s].sticky
                       THEN [s0 EXCEPT !.stream[s0.list[i - 1]].lost = TRUE]
                       ELSE s0
         IN  add_free_stream([marked EXCEPT !.list = RemoveAt(@, i)], s)

\* How many streams at the head of the list nobody holds.
UnusedPrefix(s0) ==
    MinOf({i \in 1 .. Len(s0.list) + 1 :
             i = Len(s0.list) + 1 \/ s0.stream[s0.list[i]].clients # 0}) - 1

\* A client lets go of stream s.  Streams leave the list at its head; with
\* sendonce s leaves it at once.
free_client_stream(s0, s) ==
    LET s1 == [s0 EXCEPT !.stream[s].clients = @ - 1]
        i  == IndexOf(s1.list, s)
        n  == UnusedPrefix(s1)
    IN  IF i = 1
        THEN FoldLeft(add_free_stream,
                      [s1 EXCEPT !.list = SubSeq(@, n + 1, Len(@))],
                      SubSeq(s1.list, 1, n))
        ELSE IF Sendonce
        THEN add_free_stream([s1 EXCEPT !.list = RemoveAt(@, i)], s)
        ELSE s1

\* Whether a stream suits a client, and what the client needs from then on.
matching_recovery_stream(mask, need) ==
    CASE need = 0 -> [ok |-> mask = "no", need |-> 0]
      [] need = 1 -> [ok |-> mask = "first",
                      need |-> IF mask = "first" THEN 2 ELSE 1]
      [] OTHER    -> [ok |-> mask = "no",
                      need |-> IF mask = "more" THEN 2 ELSE 0]

\* One step of the search for the next stream: s is taken or skipped.
\* Old is the set of streams older than dropold.
SearchStep(s0, Old, acc, s) ==
    LET e == s0.stream[s]
        skip == \/ Dropold /\ e.recovery = "no" /\ s \in Old
                \/ Sendonce /\ e.clients # 0
        m == IF skip
             THEN [ok |-> FALSE, need |-> IF e.sticky THEN 1 ELSE acc.need]
             ELSE matching_recovery_stream(e.recovery, acc.need)
    IN  IF acc.next # None THEN acc
        ELSE IF m.ok THEN [next |-> s, need |-> m.need]
        ELSE [next |-> None, need |-> IF e.lost THEN 1 ELSE m.need]

\* Faulty variant: the search starts again at the head of the list.
NextFromFirst(s0, s, need, Old) ==
    LET other == SelectSeq(s0.list, LAMBDA x : x # s)
        s1 == IF other = <<>> THEN s0
              ELSE [s0 EXCEPT !.stream[Head(other)].clients = @ + 1]
    IN  [st |-> free_client_stream(s1, s),
         next |-> IF other = <<>> THEN None ELSE Head(other), need |-> need]

\* The stream a client at stream s is to have next, and what it needs.
get_next_client_stream(s0, s, need, Old) ==
    LET later == SubSeq(s0.list, IndexOf(s0.list, s) + 1, Len(s0.list))
        Step(acc, x) == SearchStep(s0, Old, acc, x)
        found == FoldLeft(Step, [next |-> None,
                                 need |-> IF s0.stream[s].lost THEN 1 ELSE need],
                          later)
        s1 == IF found.next = None THEN s0
              ELSE [s0 EXCEPT !.stream[found.next].clients = @ + 1]
    IN  [st |-> free_client_stream(s1, s),
         next |-> found.next, need |-> found.need]

\* The number of streams still to be sent, counted once for every client.
streams_to_send(s0) ==
    LET Add(acc, s) == [n |-> acc.n + s0.stream[s].clients,
                        sum |-> acc.sum + acc.n + s0.stream[s].clients]
    IN  FoldLeft(Add, [n |-> 0, sum |-> 0], s0.list).sum

-----------------------------------------------------------------------------
(* lmd_output_client_con *)

\* close(): the stream the client holds is let go.
closed(s0, c) ==
    IF client[c].current # None
    THEN free_client_stream(s0, client[c].current)
    ELSE IF client[c].pending # None
    THEN free_client_stream(s0, client[c].pending)
    ELSE s0

\* Faulty variant: the stream that is only pending is forgotten.
LeaveForgetsPending(c) ==
    /\ st' = IF client[c].current # None
             THEN free_client_stream(st, client[c].current) ELSE st
    /\ client' = [client EXCEPT ![c] = NoClient]
    /\ con' = SelectSeq(con, LAMBDA d : d # c)
    /\ UNCHANGED flag

Leave(c) ==
    /\ st' = closed(st, c)
    /\ client' = [client EXCEPT ![c] = NoClient]
    /\ con' = SelectSeq(con, LAMBDA d : d # c)
    /\ UNCHANGED flag

\* next_stream(): k are the fields of the client, Old the streams that are
\* too old by now.
next_stream(c, k, s0, Old) ==
    LET r == IF k.pending # None
             THEN [st |-> s0, next |-> k.pending, need |-> k.need]
             ELSE IF k.current = None
             THEN [st |-> s0, next |-> None, need |-> k.need]
             ELSE get_next_client_stream(s0, k.current, k.need, Old)
    IN  /\ st' = r.st
        /\ client' = [client EXCEPT ![c] =
               [k EXCEPT !.pending = None, !.current = r.next, !.need = r.need,
                         !.state = IF r.next = None THEN "stream" ELSE "send"]]
        /\ flag' = IF r.next # None THEN flag
                   ELSE [tell |-> TRUE, need |-> flag.need \/ r.need = 1]
        /\ UNCHANGED con

\* The age of streams increases along the list.
OldSets == {ToSet(SubSeq(st.list, 1, n)) :
              n \in IF Dropold THEN 0 .. Len(st.list) ELSE {0}}

\* after_select() for a client whose descriptor is ready.  Which kind of port
\* a connection was made to is only known when the info has been sent.
after_select(c) ==
    LET k == client[c]
        sent == [k EXCEPT !.got = @ \cup st.stream[k.current].adds]
        out == [st EXCEPT !.stream[k.current].sent = Hold]
    IN  \/ UNCHANGED <<st, client, con, flag>>     \* sent or read a part only
        \/ MayLeave /\ Leave(c)
        \/ /\ k.state = "info" /\ c \in MapPort /\ MayAskPort
           /\ client' = [client EXCEPT ![c].state = "close"]
           /\ UNCHANGED <<st, con, flag>>
        \/ /\ k.state = "info" /\ c \in DataPort
           /\ IF c \in StreamPort
              THEN /\ client' = [client EXCEPT ![c].state = "request"]
                   /\ UNCHANGED <<st, con, flag>>
              ELSE next_stream(c, k, st, {})
        \/ /\ k.state = "request"
           /\ \E Old \in OldSets : next_stream(c, k, st, Old)
        \/ /\ k.state = "send"
           /\ IF c \in StreamPort
              THEN /\ client' = [client EXCEPT ![c] =
                                    [sent EXCEPT !.state = "request"]]
                   /\ st' = out
                   /\ UNCHANGED <<con, flag>>
              ELSE \E Old \in OldSets : next_stream(c, sent, out, Old)
        \/ k.state = "close" /\ Leave(c)

-----------------------------------------------------------------------------
(* lmd_output_tcp::server(), the loop of the server thread. *)

\* The server listens to the producer only when it would dequeue streams.
Listening == ~Hold \/ con # <<>>

Selectable == {c \in ToSet(con) : client[c].state # "stream"}

\* select() returns, with the descriptors in R ready, and a new client if
\* one connects.
Selected(R, new) ==
    /\ con' = con \o new
    /\ client' = [c \in Clients |->
                    IF new = <<c>> THEN [NoClient EXCEPT !.state = "info"]
                    ELSE client[c]]
    /\ srv' = [srv EXCEPT !.token = Listening /\ toserver # <<>>,
                          !.ready = R, !.got = FALSE]
    /\ spc' = IF Hold /\ con' = <<>> THEN "select" ELSE "dequeue"
    /\ UNCHANGED <<st, flag, toserver, toproducer, ppc, prod>>

NewClient == {<<>>} \cup {<<c>> : c \in Clients \ ToSet(con)}

\* Setting up select(): the timeout is zero if there are streams to dequeue,
\* a second when shutting down; else there is none, and the thread sleeps.
SelectSetup ==
    /\ spc = "select"
    /\ spc' = IF (Listening /\ st.filled # <<>>) \/ srv.shutdown # 0
              THEN "poll" ELSE "sleep"
    /\ UNCHANGED <<st, client, con, flag, toserver, toproducer, srv, ppc, prod>>

\* select() returns at the timeout, or for a token of the producer.
SelectReturns ==
    /\ spc = "poll" \/ (spc = "sleep" /\ Listening /\ toserver # <<>>)
    /\ \E R \in SUBSET Selectable, new \in NewClient : Selected(R, new)

\* select() returns only because of clients.
SelectClient ==
    /\ spc = "sleep" /\ ~(Listening /\ toserver # <<>>)
    /\ \E R \in SUBSET Selectable, new \in NewClient :
         (R # {} \/ new # <<>>) /\ Selected(R, new)

\* Faulty variant: with sendonce the search goes on after the first taker.
OfferToAll(s, seen, acc, i) ==
    LET k == acc.client[con[i]]
    IN  IF k.current # None \/ k.pending # None
        THEN acc
        ELSE [acc EXCEPT !.client[con[i]] =
                 IF k.state = "stream"
                 THEN [k EXCEPT !.need = 0, !.current = s, !.state = "send"]
                 ELSE [k EXCEPT !.need = 0, !.pending = s],
                         !.users = @ + 1]

\* stream_is_available(): stream s is offered to the i-th client of con.
stream_is_available(s, seen, acc, i) ==
    LET c == con[i]
        k == acc.client[c]
        first == k.need = 3
        m == matching_recovery_stream(st.stream[s].recovery,
               IF ~first THEN k.need ELSE IF seen THEN 1 ELSE 0)
        taken == IF k.state = "stream"
                 THEN [k EXCEPT !.need = m.need, !.current = s, !.state = "send"]
                 ELSE [k EXCEPT !.need = m.need, !.pending = s]
    IN  IF acc.stop \/ k.current # None \/ k.pending # None
        THEN acc
        ELSE [client |-> [acc.client EXCEPT ![c] =
                            IF m.ok THEN taken ELSE [k EXCEPT !.need = m.need]],
              users |-> acc.users + (IF m.ok THEN 1 ELSE 0),
              need |-> acc.need \/ (first /\ seen),
              stop |-> Sendonce /\ m.ok,
              search |-> IF Sendonce /\ m.ok THEN i + 1 ELSE acc.search]

\* One filled stream is dequeued and offered to all clients, the search
\* starting where the last one left off.
Dequeue ==
    /\ spc = "dequeue" /\ st.filled # <<>>
    /\ LET s == Head(st.filled)
           seen == srv.seen \/ st.stream[s].sticky
           n == Len(con)
           order == [i \in 1 .. n |-> ((i - 1 + srv.search - 1) % n) + 1]
           Offer(acc, i) == stream_is_available(s, seen, acc, i)
           r == FoldLeft(Offer, [client |-> client, users |-> 0,
                                 need |-> flag.need, stop |-> FALSE,
                                 search |-> srv.search], order)
           s1 == [st EXCEPT !.filled = Tail(@), !.stream[s].clients = r.users]
       IN  /\ client' = r.client
           /\ flag' = [flag EXCEPT !.need = r.need]
           /\ srv' = [srv EXCEPT !.seen = seen, !.search = r.search, !.got = TRUE]
           /\ st' = IF st.list # <<>> \/ r.users # 0
                    THEN [s1 EXCEPT !.list = Append(@, s)]
                    ELSE add_free_stream(s1, s)
    /\ UNCHANGED <<con, toserver, toproducer, spc, ppc, prod>>

DequeueDone ==
    /\ spc = "dequeue" /\ st.filled = <<>>
    /\ spc' = "tell"
    /\ UNCHANGED <<st, client, con, flag, toserver, toproducer, srv, ppc, prod>>

\* Ask to be told of the next stream when some client has none.
AskToBeTold ==
    /\ spc = "tell"
    /\ flag' = [flag EXCEPT !.tell = @ \/
                  (srv.got /\ \E c \in ToSet(con) :
                     client[c].current = None /\ client[c].pending = None)]
    /\ srv' = [srv EXCEPT !.ready = {}, !.got = FALSE, !.todo =
                  SelectSeq(con, LAMBDA c : \/ c \in srv.ready
                                            \/ client[c].state = "close")]
    /\ spc' = "clients"
    /\ UNCHANGED <<st, client, con, toserver, toproducer, ppc, prod>>

ServeClient ==
    /\ spc = "clients" /\ srv.todo # <<>>
    /\ after_select(Head(srv.todo))
    /\ srv' = [srv EXCEPT !.todo = Tail(@)]
    /\ UNCHANGED <<toserver, toproducer, spc, ppc, prod>>

\* Faulty variant: the reply is sent before streams are made available.
HandleTokenEarly ==
    /\ spc = "clients" /\ srv.todo = <<>>
    /\ spc' = "finish"
    /\ IF ~srv.token
       THEN UNCHANGED <<srv, toserver, toproducer>>
       ELSE LET t == Head(toserver)
            IN  /\ toserver' = Tail(toserver)
                /\ toproducer' =
                     CASE t = "queue_full" -> Append(toproducer, "slot_free")
                       [] t = "need_free" -> Append(toproducer, "have_free")
                       [] OTHER -> toproducer
                /\ srv' = [srv EXCEPT !.shutdown =
                     IF t = "shutdown" THEN streams_to_send(st) + 1 ELSE @]
    /\ UNCHANGED <<st, client, con, flag, ppc, prod>>

\* At most one token of the producer is handled in each turn of the loop.
HandleToken ==
    /\ spc = "clients" /\ srv.todo = <<>>
    /\ spc' = "finish"
    /\ IF ~srv.token
       THEN UNCHANGED <<srv, toserver, toproducer>>
       ELSE LET t == Head(toserver)
            IN  /\ toserver' = Tail(toserver)
                /\ toproducer' = IF t = "queue_full"
                                 THEN Append(toproducer, "slot_free")
                                 ELSE toproducer
                /\ srv' = [srv EXCEPT
                     !.need_free = @ \/ t = "need_free",
                     !.shutdown = IF t = "shutdown"
                                  THEN streams_to_send(st) + 1 ELSE @]
    /\ UNCHANGED <<st, client, con, flag, ppc, prod>>



\* A stream for the producer, if it waits for one: create, else steal.
Provide(s0) ==
    IF Cardinality(s0.alloc) < MaxStreams
    THEN create_free_streams(s0)
    ELSE IF ~Hold THEN free_oldest_unused(s0) ELSE s0

\* Faulty variant: no change passes for progress.
ProgressLenient(left) == srv.shutdown # 0 /\ left + 1 <= srv.shutdown

\* Fewer streams are left to send than when progress was last seen.
Progress(left) == srv.shutdown # 0 /\ left + 1 < srv.shutdown

\* The end of the loop: a stream for the producer, and the shutdown, which
\* is given up (late) when too long passed since the last progress.
EndLoop(late) ==
    LET s1 == IF srv.need_free THEN Provide(st) ELSE st
        give == srv.need_free /\ s1.free # <<>>
        left == streams_to_send(s1)
        stop == srv.shutdown # 0 /\ left = 0
    IN  /\ spc = "finish"
        /\ late => srv.shutdown # 0 /\ ~stop /\ ~Progress(left)
        /\ st' = s1
        /\ toproducer' = IF give THEN Append(toproducer, "have_free")
                         ELSE toproducer
        /\ spc' = IF stop \/ late THEN "exit" ELSE "select"
        /\ srv' = [srv EXCEPT !.need_free = @ /\ ~give, !.token = FALSE,
                     !.shutdown = IF Progress(left) THEN left + 1 ELSE @]
        /\ UNCHANGED <<client, con, flag, toserver, ppc, prod>>

Finish == EndLoop(FALSE)
GiveUp == EndLoop(TRUE)

-----------------------------------------------------------------------------
(* The producer: lmd_output_buffered and lmd_output_tcp, called from the    *)
(* thread that writes events.  prod.job is what the new stream is for.      *)

FillIsFresh == st.fill # None /\ st.stream[st.fill] = Fresh

\* What the producer writes to the stream at hand for a job.
Written(job, updates) ==
    CASE job = "event"  -> [Fresh EXCEPT !.level = updates]
      [] job = "sticky" -> [Fresh EXCEPT !.sticky = TRUE, !.adds = {updates},
                                         !.level = updates]
      [] OTHER -> Fresh

At(p) == /\ ppc = p
         /\ UNCHANGED <<client, con, spc, srv>>

\* write_event(): a sticky event enters the store first.  The event goes to
\* the stream at hand if that one is empty, else to a new one.
WriteEvent ==
    /\ At("idle") /\ prod.writes > 0
    /\ \E job \in {"event", "sticky"} :
         LET u == IF job = "sticky" THEN prod.updates + 1 ELSE prod.updates
         IN  /\ u <= MaxUpdates
             /\ prod' = [prod EXCEPT !.writes = @ - 1, !.updates = u,
                           !.job = IF FillIsFresh THEN "none" ELSE job]
             /\ st' = IF FillIsFresh
                      THEN [st EXCEPT !.stream[st.fill] = Written(job, u)] ELSE st
    /\ ppc' = IF FillIsFresh THEN "idle" ELSE IF st.fill = None THEN "get"
              ELSE "send"
    /\ UNCHANGED <<flag, toserver, toproducer>>

\* flush_buffer(): the stream is handed over although it is not full.
FlushBuffer ==
    /\ At("idle") /\ prod.writes > 0
    /\ st.fill # None /\ flag.tell /\ Len(st.filled) < FilledRing
    /\ prod' = [prod EXCEPT !.job = "flush", !.writes = @ - 1]
    /\ ppc' = "send"
    /\ UNCHANGED <<st, flag, toserver, toproducer>>

\* close(): the stream at hand, then one with the request to close.
CloseOutput ==
    /\ At("idle")
    /\ prod' = [prod EXCEPT !.job = "close"]
    /\ ppc' = IF st.fill = None THEN "get" ELSE "send"
    /\ UNCHANGED <<st, flag, toserver, toproducer>>

\* The full stream, with its mark, is put in the ring.
Put == [st EXCEPT !.filled = Append(@, st.fill), !.fill = None,
                  !.stream[st.fill].recovery = prod.mark]

Marked == [prod EXCEPT !.mark = IF @ = "first" THEN "more" ELSE @]

\* write_buffer(): the stream is handed over, unless the ring is full.
SendBuffer ==
    /\ At("send")
    /\ IF Len(st.filled) >= FilledRing
       THEN /\ toserver' = Append(toserver, "queue_full")
            /\ ppc' = "wait_slot"
            /\ UNCHANGED <<st, prod>>
       ELSE /\ st' = Put /\ prod' = Marked
            /\ ppc' = "test"
            /\ UNCHANGED toserver
    /\ UNCHANGED <<flag, toproducer>>

\* The wait for the reply; there must be a slot then (an assertion).
SlotFree ==
    /\ At("wait_slot") /\ toproducer # <<>>
    /\ toproducer' = Tail(toproducer)
    /\ CASE Head(toproducer) # "slot_free" -> UNCHANGED <<st, prod, ppc>>
         [] Len(st.filled) < FilledRing ->
              st' = Put /\ prod' = Marked /\ ppc' = "test"
         [] OTHER -> ppc' = "abort" /\ UNCHANGED <<st, prod>>
    /\ UNCHANGED <<flag, toserver>>

AfterPut == IF prod.job = "closing" THEN "shutdown" ELSE "get"

\* if (_tell_fill_stream): the test, and then the reset and the token.
TestTell ==
    /\ At("test")
    /\ ppc' = IF flag.tell THEN "clear" ELSE AfterPut
    /\ UNCHANGED <<st, flag, toserver, toproducer, prod>>

ClearTell ==
    /\ At("clear")
    /\ flag' = [flag EXCEPT !.tell = FALSE]
    /\ toserver' = Append(toserver, "filled_stream")
    /\ ppc' = AfterPut
    /\ UNCHANGED <<st, toproducer, prod>>

\* Faulty variant: the slot is not released.
TakenTwice == [st EXCEPT !.fill = Head(st.free), !.stream[Head(st.free)] = Fresh]

\* The oldest free stream becomes the one to fill.
Taken == [st EXCEPT !.fill = Head(st.free), !.free = Tail(@),
                    !.stream[Head(st.free)] = Fresh]

\* get_buffer(): a stream from the ring, or a token that there is none.
GetBuffer ==
    /\ At("get")
    /\ IF st.free = <<>>
       THEN /\ toserver' = Append(toserver, "need_free")
            /\ ppc' = "wait_free"
            /\ UNCHANGED st
       ELSE st' = Taken /\ ppc' = "replay" /\ UNCHANGED toserver
    /\ UNCHANGED <<flag, toproducer, prod>>

\* The wait for the reply; there must be a stream then (an assertion).
HaveFree ==
    /\ At("wait_free") /\ toproducer # <<>>
    /\ toproducer' = Tail(toproducer)
    /\ CASE Head(toproducer) # "have_free" -> UNCHANGED <<st, ppc>>
         [] st.free # <<>> -> st' = Taken /\ ppc' = "replay"
         [] OTHER -> ppc' = "abort" /\ UNCHANGED st
    /\ UNCHANGED <<flag, toserver, prod>>

\* The part of the store that goes to the i-th stream of a replay.
ReplayPart(i) ==
    [Fresh EXCEPT !.sticky = TRUE,
       !.adds = {u \in 1 .. prod.updates : u % ReplayLen = i % ReplayLen}]


\* do_sticky_replay() at the start of a new stream: the request is taken.
StartReplay ==
    /\ At("replay") /\ flag.need /\ prod.mark = "no"
    /\ flag' = [tell |-> TRUE, need |-> FALSE]
    /\ prod' = [prod EXCEPT !.mark = "first", !.replay = 1]
    /\ st' = [st EXCEPT !.stream[st.fill] = ReplayPart(1)]
    /\ ppc' = "send"
    /\ UNCHANGED <<toserver, toproducer>>

MoreReplay ==
    /\ At("replay") /\ prod.mark # "no" /\ prod.replay < ReplayLen
    /\ prod' = [prod EXCEPT !.replay = @ + 1]
    /\ st' = [st EXCEPT !.stream[st.fill] = ReplayPart(prod.replay + 1)]
    /\ ppc' = "send"
    /\ UNCHANGED <<flag, toserver, toproducer>>

\* No replay, or its end: the event goes to the new stream, or the stream is
\* marked as a request to close and sent.
WriteStream ==
    /\ At("replay")
    /\ IF prod.mark = "no" THEN ~flag.need ELSE prod.replay = ReplayLen
    /\ st' = [st EXCEPT !.stream[st.fill] = Written(prod.job, prod.updates)]
    /\ prod' = [prod EXCEPT !.job = IF @ = "close" THEN "closing" ELSE "none",
                            !.mark = "no", !.replay = 0]
    /\ ppc' = IF prod.job = "close" THEN "send" ELSE "idle"
    /\ UNCHANGED <<flag, toserver, toproducer>>

Shutdown ==
    /\ At("shutdown")
    /\ toserver' = Append(toserver, "shutdown")
    /\ ppc' = "join"
    /\ UNCHANGED <<st, flag, toproducer, prod>>

\* pthread_join() returns; the remaining connections are closed.
Join ==
    /\ ppc = "join" /\ spc = "exit"
    /\ st' = FoldLeft(closed, st, con)
    /\ client' = [c \in Clients |-> NoClient]
    /\ con' = <<>>
    /\ ppc' = "done"
    /\ UNCHANGED <<flag, toserver, toproducer, spc, srv, prod>>

Done == ppc = "done" /\ UNCHANGED vars

-----------------------------------------------------------------------------
Init ==
    /\ opts \in Options
    /\ st = [stream |-> [s \in Streams |-> Fresh], alloc |-> {}, list |-> <<>>,
             free |-> <<>>, filled |-> <<>>, fill |-> None]
    /\ client = [c \in Clients |-> NoClient]
    /\ con = <<>>
    /\ flag = [tell |-> FALSE, need |-> FALSE]
    /\ toserver = <<>> /\ toproducer = <<>>
    /\ spc = "select"
    /\ srv = [token |-> FALSE, ready |-> {}, got |-> FALSE, todo |-> <<>>,
              seen |-> FALSE, search |-> 1, need_free |-> FALSE, shutdown |-> 0]
    /\ ppc = "idle"
    /\ prod = [job |-> "none", mark |-> "no", replay |-> 0, updates |-> 0,
               writes |-> MaxWrites]

Server == \/ SelectSetup \/ SelectReturns \/ Dequeue \/ DequeueDone \/ AskToBeTold
          \/ ServeClient \/ HandleToken \/ Finish \/ GiveUp

Producer == \/ SendBuffer \/ SlotFree \/ TestTell \/ ClearTell
            \/ GetBuffer \/ HaveFree \/ StartReplay \/ MoreReplay
            \/ WriteStream \/ Shutdown \/ Join

Next == /\ \/ Server \/ SelectClient \/ Producer
           \/ WriteEvent \/ FlushBuffer \/ CloseOutput \/ Done
        /\ UNCHANGED opts

Spec == Init /\ [][Next]_vars

\* Fairness: both threads run whenever they can, and time passes, so that
\* the server gives up at last when it is late again and again.  Nothing is
\* assumed of the clients (SelectClient, after_select), nor that events come.
FairSpec == /\ Spec
            /\ WF_vars(Server /\ UNCHANGED opts)
            /\ WF_vars(Producer /\ UNCHANGED opts)
            /\ SF_vars(GiveUp /\ UNCHANGED opts)

-----------------------------------------------------------------------------
StreamType ==
    [sticky: BOOLEAN, recovery: {"no", "first", "more"}, lost: BOOLEAN,
     clients: 0 .. Cardinality(Clients), adds: SUBSET Updates,
     level: -1 .. MaxUpdates, sent: BOOLEAN]

\* The shape of the state; the rings never hold more than they have room for.
TypeOK ==
    /\ st.stream \in [Streams -> StreamType]
    /\ st.alloc \subseteq Streams /\ st.list \in Seq(Streams)
    /\ st.free \in Seq(Streams) /\ Len(st.free) <= FreeRing
    /\ st.filled \in Seq(Streams) /\ Len(st.filled) <= FilledRing
    /\ st.fill \in Streams \cup {None}
    /\ \A c \in Clients :
         /\ client[c].state \in
              {"none", "info", "request", "stream", "send", "close"}
         /\ {client[c].current, client[c].pending} \subseteq Streams \cup {None}
         /\ client[c].need \in 0 .. 3
    /\ ToSet(con) = {c \in Clients : client[c].state # "none"}

Holders(s) ==
    {c \in Clients : client[c].current = s \/ client[c].pending = s}

\* Every stream is in one place: it is being filled, in one of the two rings,
\* or in the list, and there only once.  No stream is leaked, and none is
\* written to while it is sent (lmd_output_state, write_buffer, get_buffer).
OnePlace ==
    LET all == st.list \o st.free \o st.filled
               \o (IF st.fill = None THEN <<>> ELSE <<st.fill>>)
    IN  /\ ToSet(all) = st.alloc
        /\ Len(all) = Cardinality(st.alloc)

\* _clients of a stream in the list is the number of clients that hold it,
\* so that it is not reused under one of them; no client holds a stream that
\* is not in the list, nor two streams (stream_is_available,
\* get_next_client_stream, free_client_stream, close).
HoldersCounted ==
    /\ \A s \in ToSet(st.list) : st.stream[s].clients = Cardinality(Holders(s))
    /\ \A c \in Clients :
         /\ {client[c].current, client[c].pending}
              \subseteq ToSet(st.list) \cup {None}
         /\ None \in {client[c].current, client[c].pending}

\* With sendonce no stream has two receivers (the assertion in
\* free_client_stream).
OneReceiver ==
    Sendonce => \A s \in Streams : Cardinality(Holders(s)) <= 1

\* The pool of streams is sound: no stream is leaked, in two places, or reused
\* or given to a second client while one holds it.
PoolSound == TypeOK /\ OnePlace /\ HoldersCounted /\ OneReceiver

\* The producer's assertions after the tokens: a slot, or a stream, is there
\* when the reply arrives (write_buffer and get_buffer).
TokensKept == ppc # "abort"

\* A client gets the streams in the order they were written, none twice: the
\* next one comes after the last in the list, or from the ring.
InOrder ==
    [][\A c \in Clients :
         LET old == client[c].current
             new == client'[c].current
             all == st.list \o st.filled
         IN  old # None /\ new # None /\ old # new
                => IndexOf(all, old) < IndexOf(all, new)]_vars




\* Shutting down ends although clients may be stuck (close).
ShutdownEnds == ppc = "join" ~> ppc = "done"


\* A client that waits for a stream is not left waiting while there are
\* streams in the ring: the producer tells the server (server, write_buffer).
WaitingServed ==
    \A c \in Clients :
       (client[c].state = "stream" /\ st.filled # <<>>)
       ~> (client[c].state # "stream" \/ st.filled = <<>>)
=============================================================================
