----------------------------- MODULE TimeStitch ------------------------------
(***************************************************************************)
(* Time stitching of events (hbook/ext_file_merge.cc).                     *)
(*                                                                         *)
(* Events of several sources arrive and are stored, one store per source.  *)
(* Those with time stamps within a window are merged to one.  When the     *)
(* first event of a collection (multi-event number 0 or 1) arrives, the    *)
(* sorter before has seen to it that no older ones will come, and          *)
(* everything is merged that cannot get more parts.                        *)
(*                                                                         *)
(* Time stamps are unsigned numbers modulo Mod (2^64 in the code).  All    *)
(* events are stored in one cell of a buffer.  What merging does with the  *)
(* data of the events is the subject of module MergeData.                  *)
(*                                                                         *)
(* Plausible mistakes are defined before what they distort: OldestFirst,   *)
(* WithinOpen, FlushOnce, HorizonNow, PlacedReset, SpacedMove.             *)
(***************************************************************************)
EXTENDS Integers, Sequences, FiniteSets, FiniteSetsExt

CONSTANTS
  Sources,          \* source identifiers
  Mod,              \* time stamps are below this
  Window,           \* _config._ts_merge_window
  Stamps,           \* of the events
  FirstAlloc,       \* space of a store, when first needed (0x1000 bytes)
  Broken,           \* whether there are events with broken stamps
  MaxEvents         \* bound

ASSUME StampAssumption ==
  /\ Window \in Nat /\ FirstAlloc \in Nat \ {0} /\ Sources \subseteq Nat
  /\ \A t \in Stamps : t \in Nat /\ t + Window < Mod - 1

VARIABLES
  store,       \* buffer with first and end of what is in use
  out,         \* the merged events, passed on
  log,         \* the events that arrived
  front,       \* latest stamp of the first event of a collection
  current,     \* source of the collection that is arriving
  sane,        \* stamps have been as they should
  done

vars == <<store, out, log, front, current, sane, done>>

Never == Mod - 1         \* (uint64_t) -1

Init ==
  /\ store = [s \in Sources |-> [buf |-> <<>>, first |-> 0, used |-> 0, alloc |-> 0]]
  /\ out = <<>> /\ log = <<>> /\ front = 0 /\ current = 0 /\ sane = TRUE /\ done = FALSE

------------------------------------------------------------------------------
(* ext_merge_sort_until: one merged event, if it is time. *)
Holding(st) == {s \in Sources : st[s].first < st[s].used}
Head1(st, s) == st[s].buf[st[s].first + 1]

(* Mistaken: the first source found has the oldest event. *)
OldestFirst(st) ==
  IF Holding(st) = {} THEN Never ELSE Head1(st, Min(Holding(st))).ts

Oldest(st) == Min({Head1(st, s).ts : s \in Holding(st)} \cup {Never})

(* Mistaken: the end of the window is not part of it, for a second event. *)
WithinOpen(st, s, end) ==
  st[s].first + 1 < st[s].used /\ st[s].buf[st[s].first + 2].ts < end

(* The source has a second event within the window. *)
Within(st, s, end) ==
  st[s].first + 1 < st[s].used /\ st[s].buf[st[s].first + 2].ts <= end

(* The event is taken; the next is marked if it ought to be in the same. *)
Take(b, mark) ==
  [b EXCEPT !.first = @ + 1,
            !.buf = IF mark THEN [@ EXCEPT ![b.first + 2].prev = TRUE] ELSE @]

SortUntil(st, until) ==
  LET oldest == Oldest(st)
      end    == (oldest + Window) % Mod
      incl   == {s \in Holding(st) : Head1(st, s).ts <= end}
  IN  IF oldest >= until THEN [go |-> FALSE, st |-> st, ev |-> <<>>]
      ELSE [go |-> TRUE,
            st |-> [s \in Sources |-> IF s \in incl THEN Take(st[s], Within(st, s, end))
                                      ELSE st[s]],
            ev |-> <<[stamp |-> oldest,
                      parts |-> [s \in incl |-> Head1(st, s).id],
                      next  |-> \E s \in incl : Within(st, s, end),
                      prev  |-> \E s \in incl : Head1(st, s).prev]>>]

(* The loop around it, until nothing is merged or no event is left. *)
Merging(st, until, rounds) ==
  LET upto[k \in 0..rounds] ==
        IF k = 0 THEN [go |-> TRUE, st |-> st, evs |-> <<>>]
        ELSE LET r == upto[k - 1]
             IN  IF ~r.go THEN r
                 ELSE LET m == SortUntil(r.st, until)
                      IN  [go |-> m.go /\ Oldest(m.st) # Never, st |-> m.st,
                           evs |-> r.evs \o m.ev]
  IN  upto[rounds]

(* Mistaken: one merged event for each that arrives. *)
FlushOnce(until) == Merging(store, until, 1)

Flush(until) == Merging(store, until, MaxEvents)

------------------------------------------------------------------------------
(* ext_merge_insert_chunk: everything old enough is merged, and the event  *)
(* added to the store of its source.                                       *)

(* Mistaken: up to the present stamp. *)
HorizonNow(ts) == ts

Horizon(ts) == (ts - Window) % Mod

Doubled(alloc, need) ==
  LET upto[k \in 0..need] == IF k = 0 THEN IF alloc = 0 THEN FirstAlloc ELSE alloc
                             ELSE IF upto[k - 1] < need THEN 2 * upto[k - 1] ELSE upto[k - 1]
  IN  upto[need]


Placed(b) ==
  IF b.first >= b.used THEN [b EXCEPT !.first = 0, !.used = 0] ELSE b

(* Mistaken: with nothing to move, there is space. *)
SpacedMove(b, need) ==
  IF need <= b.alloc \/ b.first = 0 THEN b ELSE [b EXCEPT !.alloc = Doubled(b.alloc, need)]

(* Space for an event: what is stored is moved, or the buffer made larger. *)
Spaced(b, need) ==
  IF need <= b.alloc THEN b
  ELSE IF b.first # 0 /\ b.first * 2 < need
  THEN [b EXCEPT !.buf = [i \in 1..Len(b.buf) |->
                            IF i <= b.used - b.first THEN b.buf[i + b.first] ELSE b.buf[i]],
                 !.used = b.used - b.first, !.first = 0]
  ELSE [b EXCEPT !.alloc = Doubled(b.alloc, need)]

(* The end of what is used is set to what was needed before the move. *)
Stored(b, item) ==
  LET p    == Placed(b)
      need == p.used + 1
      q    == Spaced(p, need)
  IN  [q EXCEPT !.buf = SubSeq(@, 1, q.used) \o <<item>> \o SubSeq(@, q.used + 2, Len(@)),
                !.used = need]

Insert(s, ts, mevent) ==
  /\ ~done /\ Len(log) < MaxEvents
  /\ LET r == IF mevent <= 1 THEN Flush(Horizon(ts))
              ELSE [go |-> FALSE, st |-> store, evs |-> <<>>]
     IN  /\ out' = out \o r.evs
         /\ store' = [r.st EXCEPT ![s] =
                        Stored(@, [ts |-> ts, id |-> Len(log) + 1, prev |-> FALSE])]
  /\ log' = Append(log, [src |-> s, ts |-> ts])
  /\ UNCHANGED done

(* ext_merge_sort_all, at the end. *)
SortAll ==
  /\ ~done
  /\ LET r == Flush(Never) IN out' = out \o r.evs /\ store' = r.st
  /\ done' = TRUE
  /\ UNCHANGED <<log, front, current, sane>>

------------------------------------------------------------------------------
(* The events, as described at the top of the file: time stamps increase   *)
(* for each source, and the first events of collections are in order among *)
(* all sources.  The following events of a collection (multi-event number  *)
(* above 1) come together with its first.                                  *)
Latest(s) == Max({log[i].ts : i \in {j \in 1..Len(log) : log[j].src = s}} \cup {-1})

Collection(s, ts) ==
  /\ ts > Latest(s) /\ ts >= front
  /\ Insert(s, ts, 1)
  /\ front' = ts /\ current' = s
  /\ UNCHANGED sane

Further(s, ts) ==
  /\ ts > Latest(s) /\ s = current
  /\ Insert(s, ts, 2)
  /\ UNCHANGED <<front, current, sane>>

BrokenEvent(s, ts) ==
  /\ Broken /\ sane /\ (ts <= Latest(s) \/ ts < front)
  /\ \E mevent \in 1..2 : Insert(s, ts, mevent)
  /\ sane' = FALSE
  /\ UNCHANGED <<front, current>>

Next == \/ SortAll
        \/ \E s \in Sources, ts \in Stamps :
             Collection(s, ts) \/ Further(s, ts) \/ BrokenEvent(s, ts)

Spec == Init /\ [][Next]_vars

------------------------------------------------------------------------------
Ids == 1..Len(log)

Merged == [stamp : Nat, parts : UNION {[S -> Ids] : S \in SUBSET Sources},
           next : BOOLEAN, prev : BOOLEAN]

(* Type invariant: a merged event always has parts, and a store stays      *)
(* within its memory.                                                      *)
TypeOK ==
  /\ \A s \in Sources :
       /\ store[s].first <= store[s].used /\ store[s].used <= store[s].alloc
       /\ store[s].buf \in Seq([ts : Stamps, id : Ids, prev : BOOLEAN])
       /\ Len(store[s].buf) <= store[s].alloc
  /\ \A i \in 1..Len(out) : out[i] \in Merged /\ out[i].parts # <<>>
  /\ log \in Seq([src : Sources, ts : Stamps])
  /\ front \in Nat /\ current \in Sources \cup {0} /\ sane \in BOOLEAN /\ done \in BOOLEAN

(* Each event is merged once, those of a source in the order they came,    *)
(* and until then is in the store: through moves and enlargements of the   *)
(* stores nothing is lost or doubled, also with broken stamps.  All are    *)
(* merged in the end.                                                      *)
EachOnce ==
  \A s \in Sources :
    LET b     == store[s]
        came  == {i \in Ids : log[i].src = s}
        sent  == {i \in 1..Len(out) : s \in DOMAIN out[i].parts}
        kept  == {b.buf[i].id : i \in (b.first + 1)..b.used}
    IN  /\ b.used <= Len(b.buf)
        /\ came = {out[i].parts[s] : i \in sent} \cup kept
        /\ Cardinality(sent) + b.used - b.first = Cardinality(came)
        /\ \A i, j \in sent : i < j => out[i].parts[s] < out[j].parts[s]
        /\ \A i, j \in (b.first + 1)..b.used : i < j => b.buf[i].id < b.buf[j].id
        /\ done => kept = {}


(* With good time stamps, a merged event has everything within the window  *)
(* of its oldest part, whenever it arrives, but for further events of a    *)
(* source it already has a part of.                                        *)
MergeComplete ==
  sane => \A i \in 1..Len(out) : \A k \in Ids :
    LET e == out[i]
    IN  /\ log[k].ts \in e.stamp..(e.stamp + Window) =>
             log[k].src \in DOMAIN e.parts \/ \E j \in 1..(i - 1) :
                 log[k].src \in DOMAIN out[j].parts /\ out[j].parts[log[k].src] = k
        /\ \A s \in DOMAIN e.parts : log[e.parts[s]].ts \in e.stamp..(e.stamp + Window)

(* With good time stamps, merged events come out in order. *)
OutputOrdered ==
  sane => \A i, j \in 1..Len(out) : i < j => out[i].stamp <= out[j].stamp

(* With good time stamps, a merged event is marked exactly if another      *)
(* event of one of its sources is within the window too and was left out,  *)
(* and if one of its parts was left out of an earlier one.                 *)
LeftOut(e, k) ==
  /\ log[k].src \in DOMAIN e.parts /\ e.parts[log[k].src] < k
  /\ log[k].ts <= e.stamp + Window

MarkedRight ==
  sane => \A i \in 1..Len(out) :
    /\ out[i].next = \E k \in Ids : LeftOut(out[i], k)
    /\ out[i].prev = \E j \in 1..(i - 1) : \E s \in DOMAIN out[i].parts :
                        LeftOut(out[j], out[i].parts[s])

(* With good time stamps, nothing stays in a store for which, with the     *)
(* latest collection, the time has come.                                   *)
NothingHeldBack ==
  sane => \A s \in Holding(store) : Head1(store, s).ts + Window >= front

(* With good time stamps time stitching makes of the events what a look at *)
(* all of them at once would make, and as soon as it can.                  *)
StitchedRight == MergeComplete /\ OutputOrdered /\ MarkedRight /\ NothingHeldBack
==============================================================================
