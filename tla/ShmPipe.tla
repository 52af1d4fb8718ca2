------------------------------ MODULE ShmPipe ------------------------------
(***************************************************************************)
(* The shared memory between an unpacker and its external writer:          *)
(* ext_writer_shm_buf of hbook/external_writer.cc (the unpacker, `u') and  *)
(* the shared-memory loops of hbook/ext_file_writer.cc (the writer         *)
(* program, `w').                                                          *)
(*                                                                         *)
(* The unpacker sends messages through a ring in shared memory.  Each side *)
(* sleeps on a pipe of one-byte tokens when it has nothing to do, and asks *)
(* for a token with a flag and a threshold.  A message never wraps around  *)
(* the end of the ring: a marker eats the rest of the linear space.  The   *)
(* unpacker may grow the ring while messages are in it, and may hand the   *)
(* direction over, after which the writer program sends events to it.      *)
(*                                                                         *)
(* Sizes are in words of four bytes.  The content of the ring is the set   *)
(* of the messages and markers written to it, each with its place, that    *)
(* have not been given back; one that is overwritten is no longer there.   *)
(*                                                                         *)
(* The definitions FitsTooMuch, EnsureNoAgain, ReadCommandNoEnd,           *)
(* HandleResizeBy and HandleDoneKept are plausible mistakes in the         *)
(* definitions they precede, against which the properties are tried out.   *)
(***************************************************************************)
EXTENDS Integers, Sequences, FiniteSets

CONSTANTS
  Size0,      \* words of the ring when it is created
  Sizes,      \* sizes it may be grown to
  HystDiv,    \* a sleeper asks for size / HystDiv extra: 16 in the code
  Lens,       \* lengths of the messages of the unpacker
  MaxMsgs,    \* bound: messages before the closing one
  MaxBefore,  \* bound: messages before the direction is handed over
  MaxResize,  \* bound: calls that grow the ring
  MaxFlush,   \* bound: calls of send_flush
  Ends,       \* how the unpacker ends: subset of {"done", "setup_rd"}
  ReadLens,   \* lengths of the events the writer program sends back
  MaxEvents,  \* bound: events sent back
  CmdCap,     \* tokens the command pipe can hold
  RspCap,     \* tokens the response pipe can hold
  MaxCrash    \* bound: processes that may be killed

ASSUME SizesAssumption ==
  /\ Size0 \in Nat \ {0} /\ HystDiv \in Nat \ {0}
  /\ Sizes \subseteq {n \in Nat : n > Size0}
  /\ Lens \subseteq {n \in Nat : n >= 2} /\ ReadLens \subseteq {n \in Nat : n >= 2}
  /\ {MaxMsgs, MaxBefore, MaxResize, MaxFlush, MaxEvents, MaxCrash} \subseteq Nat
  /\ {CmdCap, RspCap} \subseteq Nat \ {0}

HeaderLen == 2    \* sizeof(external_writer_buf_header)

ResizeLen == 4    \* a header, the size and the magic

VARIABLES
  ring,       \* what has been written to the ring and not been given back
  avail, needP, wakeDone,   \* control block, written by the producer
  done, needC, wakeAvail,   \* control block, written by the consumer
  cmd,        \* number of tokens in the command pipe
  rsp,        \* tokens in the response pipe
  u,          \* the unpacker: pc, its ring, what it is sending
  w,          \* the writer program: pc, its ring, what it is handling
  sent,       \* how many messages of each kind have been put into the ring
  taken,      \* how many messages the other side has taken out
  crashes     \* processes killed so far

ctrl == <<avail, needP, wakeDone, done, needC, wakeAvail>>
pipes == <<cmd, rsp>>
vars == <<ring, ctrl, pipes, u, w, sent, taken, crashes>>

MaxRead == CHOOSE n \in ReadLens : \A k \in ReadLens : n >= k

Kinds == {"msg", "resize", "done", "setup_rd", "event"}

Total == sent["msg"] + sent["resize"] + sent["done"] + sent["setup_rd"] + sent["event"]

\* A message or a marker: its number (0 for a marker), its place and length,
\* and the size asked for by a request to resize.
Item(n, kind, pos, len, new) ==
  [n |-> n, kind |-> kind, pos |-> pos, len |-> len, new |-> new]

None == Item(0, "msg", 0, 0, 0)

uEnds == {"closed", "exit", "killed", "unsynced", "outside", "badmagic"}

wEnds == {"exit", "abort", "killed", "unsynced", "garbage"}

Init ==
  /\ ring = {}
  /\ avail = 0 /\ needP = FALSE /\ wakeDone = 0
  /\ done = 0 /\ needC = TRUE /\ wakeAvail = 0
  /\ cmd = 0 /\ rsp = <<>>
  /\ u = [pc |-> "idle", size |-> Size0, cur |-> 0, msg |-> None, flushes |-> 0,
          next |-> "idle", rd |-> FALSE, dn |-> 0]
  /\ w = [pc |-> "top", size |-> Size0, cur |-> 0, msg |-> None, rd |-> FALSE, av |-> 0]
  /\ sent = [k \in Kinds |-> 0] /\ taken = 0 /\ crashes = 0

----------------------------------------------------------------------------
(* The pipes.                                                              *)

uOver == u.pc \in uEnds

wOver == w.pc \in wEnds

Hyst(size) == size \div HystDiv

\* ext_writer_buf::write_command: a blocking write of one token; a writer
\* that is gone is a SIGPIPE.
WriteCommand(next) ==
  \/ /\ ~wOver /\ cmd < CmdCap
     /\ cmd' = cmd + 1 /\ u' = [u EXCEPT !.pc = next]
     /\ UNCHANGED <<rsp>>
  \/ /\ wOver
     /\ u' = [u EXCEPT !.pc = "exit"]
     /\ UNCHANGED pipes

\* ext_writer_buf::get_response: a blocking read, after which
\* the unpacker goes on as `then'; end of file is fatal.
GetResponse(then) ==
  \/ /\ rsp # <<>>
     /\ rsp' = Tail(rsp) /\ u' = then
     /\ UNCHANGED cmd
  \/ /\ rsp = <<>> /\ wOver
     /\ u' = [u EXCEPT !.pc = "exit"]
     /\ UNCHANGED pipes

\* write_response of the writer program.
WriteResponse(token, next) ==
  \/ /\ ~uOver /\ Len(rsp) < RspCap
     /\ rsp' = Append(rsp, token) /\ w' = [w EXCEPT !.pc = next]
     /\ UNCHANGED cmd
  \/ /\ uOver
     /\ w' = [w EXCEPT !.pc = "abort"]
     /\ UNCHANGED pipes


\* The read of the command pipe by the writer program.  When the unpacker is
\* gone it aborts its clients and closes its outputs.
ReadCommand(next) ==
  \/ /\ cmd > 0
     /\ cmd' = cmd - 1 /\ w' = [w EXCEPT !.pc = next]
     /\ UNCHANGED rsp
  \/ /\ cmd = 0 /\ uOver
     /\ w' = [w EXCEPT !.pc = "abort"]
     /\ UNCHANGED pipes

----------------------------------------------------------------------------
(* The unpacker sends.                                                     *)

\* One call of a send_ function, or set_max_message_size when it does grow
\* the ring: the next thing is to find space for the message.
Send(kind, len, new) ==
  /\ u.pc = "idle"
  /\ u' = [u EXCEPT !.pc = "space", !.msg = Item(Total + 1, kind, 0, len, new)]
  /\ UNCHANGED <<ring, ctrl, pipes, w, sent, taken, crashes>>

SendMessage == sent["msg"] < MaxMsgs /\ \E n \in Lens : Send("msg", n, u.size)

SetMaxMessageSize ==
  /\ sent["resize"] < MaxResize
  /\ \E n \in {k \in Sizes : k >= u.size} : Send("resize", ResizeLen, n)

Close == "done" \in Ends /\ Send("done", HeaderLen, u.size)

\* The caller has set the maximum message size, four of which fit.
SendSetupDoneRd ==
  /\ "setup_rd" \in Ends /\ 4 * MaxRead <= u.size /\ sent["msg"] <= MaxBefore
  /\ Send("setup_rd", HeaderLen, u.size)

\* Its caller, the monitor thread, flushes after an event it has sent.
SendFlush ==
  /\ u.pc = "idle" /\ u.flushes < MaxFlush /\ u.flushes < sent["msg"]
  /\ u' = [u EXCEPT !.pc = "flush", !.flushes = @ + 1, !.next = "idle"]
  /\ UNCHANGED <<ring, ctrl, pipes, w, sent, taken, crashes>>

FitsTooMuch == avail + u.msg.len - done <= u.size + Hyst(u.size)

Fits == avail + u.msg.len - done <= u.size

\* ensure_buf_space: the test of the loop, the threshold and the flag behind
\* fences, the second look, and the wait for a token.
EnsureCheck ==
  /\ u.pc = "space"
  /\ u' = [u EXCEPT !.pc = IF Fits THEN "put" ELSE "wake"]
  /\ UNCHANGED <<ring, ctrl, pipes, w, sent, taken, crashes>>

EnsureThreshold ==
  /\ u.pc = "wake"
  /\ wakeDone' = avail - u.size + u.msg.len + Hyst(u.size)
  /\ u' = [u EXCEPT !.pc = "need"]
  /\ UNCHANGED <<ring, avail, needP, done, needC, wakeAvail, pipes, w, sent, taken, crashes>>

EnsureFlag ==
  /\ u.pc = "need"
  /\ needP' = TRUE
  /\ u' = [u EXCEPT !.pc = "again"]
  /\ UNCHANGED <<ring, avail, wakeDone, done, needC, wakeAvail, pipes, w, sent, taken, crashes>>

EnsureNoAgain ==
  /\ u.pc = "again"
  /\ u' = [u EXCEPT !.pc = "wait"]
  /\ UNCHANGED <<ring, ctrl, pipes, w, sent, taken, crashes>>

EnsureAgain ==
  /\ u.pc = "again"
  /\ u' = [u EXCEPT !.pc = IF Fits THEN "put" ELSE "wait"]
  /\ UNCHANGED <<ring, ctrl, pipes, w, sent, taken, crashes>>

EnsureWait ==
  /\ u.pc = "wait"
  /\ GetResponse([u EXCEPT !.pc = "space"])
  /\ UNCHANGED <<ring, ctrl, w, sent, taken, crashes>>

Words(i) == i.pos .. i.pos + i.len - 1

\* Writing over words of something that is still there destroys it.
Put(i) == {k \in ring : Words(k) \cap Words(i) = {}} \cup {i}

\* The position after a message: back to the beginning at the very end.
After(cur, len, size) == IF cur + len = size THEN 0 ELSE cur + len

\* The end of ensure_buf_space: with too little linear space the rest is
\* marked and committed, and the search for space starts over.
PutEat ==
  /\ u.pc = "put" /\ u.size - u.cur < u.msg.len
  /\ ring' = Put(Item(0, "eat", u.cur, u.size - u.cur, 0))
  /\ avail' = avail + (u.size - u.cur)
  /\ u' = [u EXCEPT !.pc = "tell", !.cur = 0, !.next = "space"]
  /\ UNCHANGED <<needP, wakeDone, done, needC, wakeAvail, pipes, w, sent, taken, crashes>>

Write(i) == ring' = Put(i) /\ sent' = [sent EXCEPT ![i.kind] = @ + 1]

\* The message is written and commit_buf_space makes it available.  Data of
\* an event may turn out shorter than the space that was asked for.
PutMessage ==
  /\ u.pc = "put" /\ u.size - u.cur >= u.msg.len /\ u.msg.kind # "resize"
  /\ \E n \in {u.msg.len} \cup (IF u.msg.kind = "msg" THEN Lens ELSE {}) :
       /\ n <= u.msg.len
       /\ Write([u.msg EXCEPT !.pos = u.cur, !.len = n])
       /\ avail' = avail + n
       /\ u' = [u EXCEPT !.pc = "tell", !.cur = After(u.cur, n, u.size), !.msg = None,
                         !.next = CASE u.msg.kind = "msg" -> "idle"
                                    [] u.msg.kind = "done" -> "lastflush"
                                    [] OTHER -> "flush1"]
  /\ UNCHANGED <<needP, wakeDone, done, needC, wakeAvail, pipes, w, taken, crashes>>

\* resize_shm, after the request has been written: the ring grows at its
\* end, and the words added count as used until the consumer has resized.
ResizeShm ==
  /\ u.pc = "put" /\ u.size - u.cur >= u.msg.len /\ u.msg.kind = "resize"
  /\ Write([u.msg EXCEPT !.pos = u.cur])
  /\ avail' = avail + (u.msg.new - u.size)
  /\ u' = [u EXCEPT !.pc = "commit", !.size = u.msg.new]
  /\ UNCHANGED <<needP, wakeDone, done, needC, wakeAvail, pipes, w, taken, crashes>>

\* commit_buf_space of the request to resize.
CommitResize ==
  /\ u.pc = "commit"
  /\ avail' = avail + u.msg.len
  /\ u' = [u EXCEPT !.pc = "tell", !.cur = After(u.cur, u.msg.len, u.size), !.msg = None,
                    !.next = "idle"]
  /\ UNCHANGED <<ring, needP, wakeDone, done, needC, wakeAvail, pipes, w, sent, taken, crashes>>

\* The end of commit_buf_space: behind a fence, is the consumer to be told?
Tell ==
  /\ u.pc = "tell"
  /\ LET wake == needC /\ avail >= wakeAvail
     IN  /\ needC' = (needC /\ ~wake)
         /\ u' = [u EXCEPT !.pc = IF wake THEN "flush" ELSE u.next]
  /\ UNCHANGED <<ring, avail, needP, wakeDone, done, wakeAvail, pipes, w, sent, taken, crashes>>

\* flush: of a commit, of send_flush, the two of send_setup_done, and the
\* one of close.
Flush ==
  /\ \/ u.pc = "flush" /\ WriteCommand(u.next)
     \/ u.pc = "flush1" /\ WriteCommand("flush2")
     \/ u.pc = "flush2" /\ WriteCommand("reverse")
     \/ u.pc = "lastflush" /\ WriteCommand("closing")
  /\ UNCHANGED <<ring, ctrl, w, sent, taken, crashes>>

\* close: wait for the last token, then everything must have been consumed.
CloseWait ==
  /\ u.pc = "closing"
  /\ GetResponse(
       IF Head(rsp) # "DONE" THEN u
       ELSE [u EXCEPT !.pc = IF avail = done THEN "closed" ELSE "unsynced"])
  /\ UNCHANGED <<ring, ctrl, w, sent, taken, crashes>>

----------------------------------------------------------------------------
(* The writer program takes messages out.                                  *)

\* The head of the loop: a token is read only when there is no data.
Top ==
  /\ w.pc = "top"
  /\ w' = [w EXCEPT !.pc = IF done = avail THEN "cmd" ELSE "look"]
  /\ UNCHANGED <<ring, ctrl, pipes, u, sent, taken, crashes>>

Command ==
  /\ w.pc = "cmd"
  /\ ReadCommand("look")
  /\ UNCHANGED <<ring, ctrl, u, sent, taken, crashes>>

\* What is at a position of the ring: nothing, or one message or marker.
At(pos) == {i \in ring : i.pos = pos}

\* One turn of the inner loop: the next word says what is there.
LookEat ==
  /\ w.pc = "look" /\ done < avail
  /\ \E i \in At(w.cur) :
       /\ i.kind = "eat"
       /\ done' = done + (w.size - w.cur)
       /\ ring' = ring \ {i}
  /\ w' = [w EXCEPT !.cur = 0, !.pc = "ptest"]
  /\ UNCHANGED <<avail, needP, wakeDone, needC, wakeAvail, pipes, u, sent, taken, crashes>>

\* The counters differ, but there is no message: fatal when the word does not
\* have the magic.  A word left over from the previous turn around the ring
\* may have it, and would be handled again; the model stops there too.
LookGarbage ==
  /\ w.pc = "look" /\ done # avail
  /\ done > avail \/ At(w.cur) = {}
  /\ w' = [w EXCEPT !.pc = "garbage"]
  /\ UNCHANGED <<ring, ctrl, pipes, u, sent, taken, crashes>>

LookMessage ==
  /\ w.pc = "look" /\ done < avail
  /\ \E i \in At(w.cur) :
       /\ i.kind # "eat"
       /\ w' = [w EXCEPT !.pc = "handle", !.msg = i]
  /\ taken' = taken + 1
  /\ UNCHANGED <<ring, ctrl, pipes, u, sent, crashes>>

GiveBack(i) == ring' = ring \ {i} /\ done' = done + i.len

\* handle_request of a message with data, and its words are given back.
HandleMessage ==
  /\ \/ w.pc = "handle" /\ w.msg.kind = "msg"
     \/ w.pc = "resized"
  /\ w' = [w EXCEPT !.pc = "ptest", !.cur = After(w.cur, w.msg.len, w.size), !.msg = None]
  /\ GiveBack(w.msg)
  /\ UNCHANGED <<avail, needP, wakeDone, needC, wakeAvail, pipes, u, sent, taken, crashes>>

HandleResizeBy ==
  /\ w.pc = "handle" /\ w.msg.kind = "resize"
  /\ w' = [w EXCEPT !.pc = "resized", !.size = @ + w.msg.new]
  /\ done' = done + w.msg.new
  /\ UNCHANGED <<ring, avail, needP, wakeDone, needC, wakeAvail, pipes, u, sent, taken, crashes>>

\* request_resize_shm, and the added words are given back.
HandleResize ==
  /\ w.pc = "handle" /\ w.msg.kind = "resize"
  /\ w' = [w EXCEPT !.pc = "resized", !.size = w.msg.new]
  /\ done' = done + (w.msg.new - w.size)
  /\ UNCHANGED <<ring, avail, needP, wakeDone, needC, wakeAvail, pipes, u, sent, taken, crashes>>


\* The last message: outputs are closed, then the unpacker is told.
HandleDone ==
  /\ w.pc = "handle" /\ w.msg.kind = "done"
  /\ w' = [w EXCEPT !.pc = "last", !.msg = None]
  /\ GiveBack(w.msg)
  /\ UNCHANGED <<avail, needP, wakeDone, needC, wakeAvail, pipes, u, sent, taken, crashes>>

RespondDone ==
  /\ w.pc = "last"
  /\ WriteResponse("DONE", "exit")
  /\ UNCHANGED <<ring, ctrl, u, sent, taken, crashes>>

\* Is the unpacker to be told that there is space again?
ProducerTest ==
  /\ w.pc = "ptest"
  /\ LET wake == needP /\ done >= wakeDone
     IN  /\ needP' = (needP /\ ~wake)
         /\ w' = [w EXCEPT !.pc = IF wake THEN "psend" ELSE "look"]
  /\ UNCHANGED <<ring, avail, wakeDone, done, needC, wakeAvail, pipes, u, sent, taken, crashes>>

RespondWork ==
  /\ w.pc = "psend"
  /\ WriteResponse("WORK", "look")
  /\ UNCHANGED <<ring, ctrl, u, sent, taken, crashes>>

\* Out of messages: ask for a token, threshold first, and look again.
AskThreshold ==
  /\ w.pc = "look" /\ done = avail
  /\ wakeAvail' = done + Hyst(w.size)
  /\ w' = [w EXCEPT !.pc = "ask"]
  /\ UNCHANGED <<ring, avail, needP, wakeDone, done, needC, pipes, u, sent, taken, crashes>>

AskFlag ==
  /\ w.pc = "ask"
  /\ needC' = TRUE
  /\ w' = [w EXCEPT !.pc = "top"]
  /\ UNCHANGED <<ring, avail, needP, wakeDone, done, wakeAvail, pipes, u, sent, taken, crashes>>

----------------------------------------------------------------------------
(* The direction is handed over, and the writer program sends events.  The *)
(* stores of `avail' here, and of `done' by the unpacker, are not fenced   *)
(* from the tests of the flags that follow them: w.av and u.dn are what    *)
(* the storing process sees, avail and done what the other one does.       *)

\* The unpacker in ready_to_read.
ReadyToRead ==
  /\ u.pc = "reverse"
  /\ GetResponse(
       IF Head(rsp) # "WORK_RD" THEN u
       ELSE IF done # 0 THEN [u EXCEPT !.pc = "unsynced"]
       ELSE [u EXCEPT !.pc = "rhead", !.cur = 0, !.rd = TRUE, !.dn = 0])
  /\ UNCHANGED <<ring, ctrl, w, sent, taken, crashes>>

\* EXTERNAL_WRITER_BUF_SETUP_DONE_RD and the start of reader_loop.
HandleSetupDoneRd ==
  /\ w.pc = "handle" /\ w.msg.kind = "setup_rd"
  /\ ring' = ring \ {w.msg}
  /\ IF done + w.msg.len # avail
     THEN /\ w' = [w EXCEPT !.pc = "unsynced"]
          /\ UNCHANGED ctrl
     ELSE /\ avail' = 0 /\ done' = 0
          /\ wakeAvail' = Hyst(w.size) /\ needC' = TRUE
          /\ w' = [w EXCEPT !.pc = "room", !.cur = 0, !.msg = None, !.rd = TRUE]
          /\ UNCHANGED <<needP, wakeDone>>
  /\ UNCHANGED <<pipes, u, sent, taken, crashes>>

DrainAvail ==
  /\ w.rd /\ w.av # avail
  /\ avail' = w.av
  /\ UNCHANGED <<ring, needP, wakeDone, done, needC, wakeAvail, pipes, u, w, sent, taken, crashes>>

Room == w.av + MaxRead - done <= w.size

ReadRoom ==
  /\ w.pc = "room"
  /\ w' = [w EXCEPT !.pc = IF Room THEN "fill" ELSE "full"]
  /\ UNCHANGED <<ring, ctrl, pipes, u, sent, taken, crashes>>

\* Too little linear space for the longest event: the rest is marked, unless
\* there is none.
FillEat ==
  /\ w.pc = "fill" /\ w.size - w.cur < MaxRead
  /\ ring' = IF w.cur < w.size THEN Put(Item(0, "eat", w.cur, w.size - w.cur, 0)) ELSE ring
  /\ w' = [w EXCEPT !.pc = "room", !.cur = 0, !.av = @ + (w.size - w.cur)]
  /\ UNCHANGED <<ctrl, pipes, u, sent, taken, crashes>>

\* ntuple_get_event: an event, or the closing message.
FillEvent ==
  /\ w.pc = "fill" /\ w.size - w.cur >= MaxRead
  /\ \E kind \in {"event", "done"}, n \in ReadLens \cup {HeaderLen} :
       /\ kind = "done" => n = HeaderLen
       /\ kind = "event" => n \in ReadLens /\ sent["event"] < MaxEvents
       /\ Write(Item(Total + 1, kind, w.cur, n, 0))
       /\ w' = [w EXCEPT !.pc = IF kind = "done" THEN "final" ELSE "ctest",
                         !.cur = @ + n, !.av = @ + n]
  /\ UNCHANGED <<ctrl, pipes, u, taken, crashes>>

ConsumerTest ==
  /\ w.pc \in {"ctest", "full"}
  /\ LET wake == needC /\ (w.pc = "full" \/ w.av >= wakeAvail)
         next == IF w.pc = "full" THEN "wake" ELSE "room"
     IN  /\ needC' = (needC /\ ~wake)
         /\ w' = [w EXCEPT !.pc = IF ~wake THEN next ELSE IF w.pc = "full" THEN "csend2" ELSE "csend"]
  /\ UNCHANGED <<ring, avail, needP, wakeDone, done, wakeAvail, pipes, u, sent, taken, crashes>>

RespondWorkRd ==
  /\ \/ w.pc = "csend" /\ WriteResponse("WORK_RD", "room")
     \/ w.pc = "csend2" /\ WriteResponse("WORK_RD", "wake")
     \/ w.pc = "final" /\ WriteResponse("WORK_RD", "exit")
  /\ UNCHANGED <<ring, ctrl, u, sent, taken, crashes>>

\* Out of space: the fences make the stores visible before the flag is set
\* and the space is looked at again.
FullThreshold ==
  /\ w.pc = "wake" /\ avail = w.av
  /\ wakeDone' = w.av - w.size + MaxRead + Hyst(w.size)
  /\ w' = [w EXCEPT !.pc = "need"]
  /\ UNCHANGED <<ring, avail, needP, done, needC, wakeAvail, pipes, u, sent, taken, crashes>>

FullFlag ==
  /\ w.pc = "need"
  /\ needP' = TRUE
  /\ w' = [w EXCEPT !.pc = "again"]
  /\ UNCHANGED <<ring, avail, wakeDone, done, needC, wakeAvail, pipes, u, sent, taken, crashes>>

FullAgain ==
  /\ w.pc = "again"
  /\ w' = [w EXCEPT !.pc = IF Room THEN "room" ELSE "pcmd"]
  /\ UNCHANGED <<ring, ctrl, pipes, u, sent, taken, crashes>>

FullWait ==
  /\ w.pc = "pcmd"
  /\ ReadCommand("room")
  /\ UNCHANGED <<ring, ctrl, u, sent, taken, crashes>>

----------------------------------------------------------------------------
(* The unpacker reads events.                                              *)

DrainDone ==
  /\ u.rd /\ u.dn # done
  /\ done' = u.dn
  /\ UNCHANGED <<ring, avail, needP, wakeDone, needC, wakeAvail, pipes, u, w, sent, taken, crashes>>

Readable == avail - u.dn >= HeaderLen

\* ensure_read_space for a header: the loop, the threshold, the flag, the
\* second look, the token.
ReadCheck ==
  /\ u.pc = "rhead"
  /\ u' = [u EXCEPT !.pc = IF Readable THEN "rlook" ELSE "rwake"]
  /\ UNCHANGED <<ring, ctrl, pipes, w, sent, taken, crashes>>

ReadThreshold ==
  /\ u.pc = "rwake" /\ done = u.dn
  /\ wakeAvail' = u.dn + Hyst(u.size)
  /\ u' = [u EXCEPT !.pc = "rneed"]
  /\ UNCHANGED <<ring, avail, needP, wakeDone, done, needC, pipes, w, sent, taken, crashes>>

ReadFlag ==
  /\ u.pc = "rneed"
  /\ needC' = TRUE
  /\ u' = [u EXCEPT !.pc = "ragain"]
  /\ UNCHANGED <<ring, avail, needP, wakeDone, done, wakeAvail, pipes, w, sent, taken, crashes>>

ReadAgain ==
  /\ u.pc = "ragain"
  /\ u' = [u EXCEPT !.pc = IF Readable THEN "rlook" ELSE "rwait"]
  /\ UNCHANGED <<ring, ctrl, pipes, w, sent, taken, crashes>>

ReadWait ==
  /\ u.pc = "rwait"
  /\ GetResponse([u EXCEPT !.pc = "rhead"])
  /\ UNCHANGED <<ring, ctrl, w, sent, taken, crashes>>

\* The word at the current position.  A message that ended at the end of the
\* ring has left the position there, outside of the mapping.
ReadOutside ==
  /\ u.pc = "rlook" /\ u.cur = u.size
  /\ u' = [u EXCEPT !.pc = "outside"]
  /\ UNCHANGED <<ring, ctrl, pipes, w, sent, taken, crashes>>

\* The marker is written without the magic, which is tested before the
\* marker is looked for: fatal.
ReadEat ==
  /\ u.pc = "rlook" /\ \E i \in At(u.cur) : i.kind = "eat"
  /\ u' = [u EXCEPT !.pc = "badmagic"]
  /\ UNCHANGED <<ring, ctrl, pipes, w, sent, taken, crashes>>

\* get_message and get_event: the closing message ends the input.
ReadMessage ==
  /\ u.pc = "rlook"
  /\ \E i \in At(u.cur) :
       /\ i.kind # "eat"
       /\ u' = [u EXCEPT !.pc = IF i.kind = "event" THEN "rbody" ELSE "closed", !.msg = i]
  /\ taken' = taken + 1
  /\ UNCHANGED <<ring, ctrl, pipes, w, sent, crashes>>

\* message_body_done.
MessageBodyDone ==
  /\ u.pc = "rbody"
  /\ u' = [u EXCEPT !.pc = "rtest", !.dn = @ + u.msg.len, !.cur = @ + u.msg.len, !.msg = None]
  /\ ring' = ring \ {u.msg}
  /\ UNCHANGED <<ctrl, pipes, w, sent, taken, crashes>>

BodyTest ==
  /\ u.pc = "rtest"
  /\ LET wake == needP /\ u.dn >= wakeDone
     IN  /\ needP' = (needP /\ ~wake)
         /\ u' = [u EXCEPT !.pc = IF wake THEN "rflush" ELSE "rhead"]
  /\ UNCHANGED <<ring, avail, wakeDone, done, needC, wakeAvail, pipes, w, sent, taken, crashes>>

BodyFlush ==
  /\ u.pc = "rflush"
  /\ WriteCommand("rhead")
  /\ UNCHANGED <<ring, ctrl, w, sent, taken, crashes>>

----------------------------------------------------------------------------

KillUnpacker ==
  /\ ~uOver /\ crashes < MaxCrash
  /\ u' = [u EXCEPT !.pc = "killed"] /\ crashes' = crashes + 1
  /\ UNCHANGED <<ring, ctrl, pipes, w, sent, taken>>

KillWriter ==
  /\ ~wOver /\ crashes < MaxCrash
  /\ w' = [w EXCEPT !.pc = "killed"] /\ crashes' = crashes + 1
  /\ UNCHANGED <<ring, ctrl, pipes, u, sent, taken>>

uSend == SendMessage \/ SetMaxMessageSize \/ SendFlush \/ Close \/ SendSetupDoneRd

uStep ==
  \/ EnsureCheck \/ EnsureThreshold \/ EnsureFlag \/ EnsureAgain \/ EnsureWait
  \/ PutEat \/ PutMessage \/ ResizeShm \/ CommitResize \/ Tell \/ Flush \/ CloseWait
  \/ ReadyToRead \/ DrainDone \/ ReadCheck \/ ReadThreshold \/ ReadFlag \/ ReadAgain
  \/ ReadWait \/ ReadOutside \/ ReadEat \/ ReadMessage \/ MessageBodyDone
  \/ BodyTest \/ BodyFlush

wStep ==
  \/ Top \/ Command \/ LookEat \/ LookGarbage \/ LookMessage
  \/ HandleMessage \/ HandleResize \/ HandleDone \/ RespondDone \/ ProducerTest
  \/ RespondWork \/ AskThreshold \/ AskFlag \/ HandleSetupDoneRd \/ DrainAvail
  \/ ReadRoom \/ FillEat \/ FillEvent \/ ConsumerTest \/ RespondWorkRd
  \/ FullThreshold \/ FullFlag \/ FullAgain \/ FullWait

Next == uSend \/ uStep \/ wStep \/ KillUnpacker \/ KillWriter

Spec == Init /\ [][Next]_vars

\* Both processes are scheduled, the unpacker goes on to its end, and what a
\* processor has stored becomes visible.
FairSpec ==
  /\ Spec
  /\ WF_vars(uStep) /\ WF_vars(wStep) /\ WF_vars(DrainAvail) /\ WF_vars(DrainDone)
  /\ WF_vars(Close) /\ WF_vars(SendSetupDoneRd)

----------------------------------------------------------------------------
(* Properties.                                                             *)

TypeOK ==
  /\ \A i \in ring : i.kind \in Kinds \cup {"eat"} /\ {i.n, i.pos, i.len, i.new} \subseteq Nat
  /\ {avail, done, wakeAvail} \subseteq Nat /\ wakeDone \in Int
  /\ {needP, needC} \subseteq BOOLEAN
  /\ cmd \in 0 .. CmdCap /\ Len(rsp) <= RspCap
  /\ rsp \in Seq({"WORK", "WORK_RD", "DONE"})
  /\ u.size \in Sizes \cup {Size0} /\ w.size \in Sizes \cup {Size0}
  /\ u.cur \in 0 .. u.size /\ w.cur \in 0 .. w.size
  /\ sent \in [Kinds -> Nat] /\ taken \in 0 .. Total /\ crashes \in 0 .. MaxCrash

\* Messages are taken out in the order they were put in, each once, across
\* the end of the ring, a growing ring and the change of direction; and the
\* message being handled is not overwritten under the hands of handle_request
\* or of the caller of get_message.
TakenInOrder ==
  /\ w.pc \in {"handle", "resized"} => w.msg.n = taken /\ w.msg \in ring
  /\ u.pc = "rbody" => u.msg.n = taken /\ u.msg \in ring

uBlocked ==
  \/ u.pc \in {"wait", "rwait", "closing", "reverse"} /\ rsp = <<>> /\ ~wOver
  \/ u.pc \in {"flush", "flush1", "flush2", "lastflush", "rflush"} /\ cmd = CmdCap /\ ~wOver

wBlocked ==
  \/ w.pc \in {"cmd", "pcmd"} /\ cmd = 0 /\ ~uOver
  \/ w.pc \in {"psend", "csend", "csend2", "final", "last"} /\ Len(rsp) = RspCap /\ ~uOver

\* While the unpacker sends, the two processes never block on their pipes
\* both at the same time, whatever the hysteresis asks for and however the
\* flags are raced for.
NeverBothBlocked == uBlocked /\ wBlocked => w.rd

\* The same after the direction has been handed over (reader_loop: the other
\* side "will not interfere with the control segment further until we have
\* come here").
ReadNeverBlocked == uBlocked /\ wBlocked => ~w.rd

\* The checks that the counters agree, in close, in ready_to_read and at the
\* start of reader_loop, never fail; and a close that succeeds has had every
\* message handled.
EndsInSync ==
  /\ "unsynced" \notin {u.pc, w.pc}
  /\ u.pc = "closed" => taken = Total



\* The writer program finds a message whenever the counters say that there
\* is something (the loop of its main reads a header whenever _done is not
\* _avail).
FindsMessage == w.pc # "garbage"

\* The unpacker, reading events, gets around the end of the ring.
ReadsAround == u.pc \notin {"outside", "badmagic"}

=============================================================================
