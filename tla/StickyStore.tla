----------------------------- MODULE StickyStore -----------------------------
(***************************************************************************)
(* The store of sticky events (file_input/lmd_sticky_store.cc) that every  *)
(* buffered LMD output keeps, to replay the values in force at the start   *)
(* of a new file or to a new client.                                       *)
(*                                                                         *)
(* Three arrays: the event data, copied as it came; the meta-data, one     *)
(* entry per event and one per sub-event of it; and a hash table with open *)
(* addressing from sub-event identifiers to the meta entry of the last     *)
(* value.  A new value kills the old one in place, and dead space is       *)
(* counted; when an array is full and more than half of it is dead it is   *)
(* compacted, otherwise it is enlarged.                                    *)
(*                                                                         *)
(* Data is counted in units: an event header, a time stamp sub-event and a *)
(* sub-event header are one unit each, a value v has v units of payload.   *)
(* A unit of data is a cell, which says whose data it holds.  Event and    *)
(* sub-event entries of the meta-data have the same size in the code (24   *)
(* bytes), so an offset into the meta-data is a number of entries.  The    *)
(* hash function is any function, chosen in Init.                          *)
(*                                                                         *)
(* Plausible mistakes, used to see that the properties can fail, are       *)
(* defined before the definition they distort: CompactDataStale,           *)
(* CompactMetaStale, SecureDataShort, SecureHashFull, KillTwice and        *)
(* AddSubKept.                                                             *)
(***************************************************************************)
EXTENDS Integers, Sequences, FiniteSets, SequencesExt

CONSTANTS Ids,          \* sub-event identifiers, a set of positive numbers
          Vals,         \* values: the payload length
          Hashes,       \* what the hash function may give, before it is
                        \* reduced to the size of the table
          DataMin, MetaMin, HashMin,    \* the smallest allocations
          MaxSubs,      \* most sub-events of one event
          MaxInserts,   \* bound: events offered to the store
          MaxOffered    \* bound: sub-events, time stamps included, in them

ASSUME IdsAssumption == Ids \subseteq Nat \ {0} /\ Vals \subseteq Nat \ {0}
ASSUME MinAssumption == /\ DataMin \in Nat \ {0}
                        /\ MetaMin \in Nat \ {0}
                        /\ HashMin \in Nat \ {0}

Revoke == 0
None   == -1

SubEvent == [id : Ids, val : Vals \cup {Revoke}]
Subs     == UNION {[1..n -> SubEvent] : n \in 0..MaxSubs}
Event    == [tstamp : BOOLEAN, subs : Subs]

SubLen(s)  == 1 + s.val
HeadLen(e) == IF e.tstamp THEN 2 ELSE 1

Cell     == [id : Ids \cup {0}, val : Vals \cup {Revoke}]
HeadCell == [id |-> 0, val |-> 0]       \* a cell of an event header

Cells(x, n) == [i \in 1..n |-> x]

(* The data of an event as it is copied into the store. *)
DataOf(e) ==
  Cells(HeadCell, HeadLen(e))
    \o FlattenSeq([i \in DOMAIN e.subs |-> Cells(e.subs[i], SubLen(e.subs[i]))])

(* Entries of the meta-data.  off = -1 marks a sub-event that was replaced. *)
EvMeta(off, len, n)  == [ev |-> 0, off |-> off, len |-> len, num |-> n, live |-> n]
SubMeta(ev, off, len) == [ev |-> ev, off |-> off, len |-> len, num |-> 0, live |-> 0]

IsEv(m) == m.ev = 0
Keeps(m) == IF IsEv(m) THEN m.live > 0 ELSE m.off # -1

VARIABLES store,        \* the three arrays, their sizes and counters
          hashOf,       \* the hash function, sticky_subevent_hash
          discard,      \* the output drops revokes (discard_revoke)
          input,        \* the sub-events most recently stored
          inserts,      \* events offered so far
          offered       \* sub-events in them

vars == <<store, hashOf, discard, input, inserts, offered>>

Size(s)  == Cardinality(DOMAIN s.hash)
DataAt(s, m) == SubSeq(s.data, m.off + 1, m.off + m.len)
IdAt(s, slot) == s.data[s.meta[slot].off + 1].id

(* Doubling from the present or the smallest size until it suffices. *)
Enlarged(alloc, least, need) ==
  LET from == Max({alloc, least})
  IN  Min({n \in {from * 2^k : k \in 0..need} : n >= need})

------------------------------------------------------------------------------
(* The hash table: entry i of the probe sequence of an identifier, and the *)
(* first one whose slot satisfies a condition (Size(s) when none does: the *)
(* code would then search for ever).  A slot is 0 when it never was used,  *)
(* -1 when its sub-event was replaced, else the offset of a sub-event.     *)
Probe(s, id, i) == (hashOf[id] + i) % Size(s)

First(s, id, Test(_)) ==
  Min({i \in 0..(Size(s) - 1) : Test(s.hash[Probe(s, id, i)])} \cup {Size(s)})

(* Where an identifier is found, or known to be absent. *)
Find(s, id) ==
  First(s, id, LAMBDA slot : \/ slot = 0
                             \/ /\ slot # -1
                                /\ s.meta[slot + 1].off # -1
                                /\ IdAt(s, slot + 1) = id)

(* The entry point into the table for a new value of id: an empty slot, or *)
(* one that was given up.                                                  *)
Place(s, id, offset) ==
  LET i == First(s, id, LAMBDA slot : slot \in {0, -1})
  IN  [s EXCEPT !.hash[Probe(s, id, i)] = offset]

(* insert_hash and populate_hash *)
InsertHash(s, k) ==
  IF IsEv(s.meta[k]) \/ ~Keeps(s.meta[k]) THEN s
  ELSE [Place(s, IdAt(s, k), k - 1) EXCEPT !.used = @ + 1]

Populate(s, size) ==
  LET upto[k \in 0..Len(s.meta)] ==
        IF k = 0 THEN [s EXCEPT !.hash = [i \in 0..(size - 1) |-> 0], !.used = 0]
        ELSE LET t == upto[k - 1] IN InsertHash(t, k)
  IN  upto[Len(s.meta)]

------------------------------------------------------------------------------
(* Compaction walks the meta-data and moves what is live to the front: the *)
(* entries kept, in order, and the data of them.                           *)
Kept(s) == SelectSeq(s.meta, Keeps)

KeptData(s) == FlattenSeq([i \in DOMAIN Kept(s) |-> DataAt(s, Kept(s)[i])])

(* The new place of entry k is the number of entries kept up to it, and    *)
(* that of its data the length of the data kept before it.                 *)
NewPlace(s, k) == Cardinality({j \in 1..k : Keeps(s.meta[j])})

NewOffset(s, k) ==
  MapThenSumSet(LAMBDA j : s.meta[j].len, {j \in 1..(k - 1) : Keeps(s.meta[j])})

(* Mistaken: the heads of the events are moved, their new offsets are not  *)
(* recorded.                                                               *)
CompactDataStale(s) ==
  [s EXCEPT !.data = KeptData(s), !.dataRevoked = 0,
            !.meta = [k \in DOMAIN s.meta |->
                        IF Keeps(s.meta[k]) /\ ~IsEv(s.meta[k])
                        THEN [s.meta[k] EXCEPT !.off = NewOffset(s, k)]
                        ELSE s.meta[k]]]

CompactData(s) ==
  [s EXCEPT !.data = KeptData(s), !.dataRevoked = 0,
            !.meta = [k \in DOMAIN s.meta |->
                        IF Keeps(s.meta[k])
                        THEN [s.meta[k] EXCEPT !.off = NewOffset(s, k)]
                        ELSE s.meta[k]]]

(* Mistaken: the sub-events keep the place their event had. *)
CompactMetaStale(s) ==
  [s EXCEPT !.metaRevoked = 0,
            !.meta = [i \in DOMAIN Kept(s) |->
                        IF IsEv(Kept(s)[i])
                        THEN [Kept(s)[i] EXCEPT !.num = Kept(s)[i].live]
                        ELSE Kept(s)[i]]]

CompactMeta(s) ==
  [s EXCEPT !.metaRevoked = 0,
            !.meta = [i \in DOMAIN Kept(s) |->
                        LET m == Kept(s)[i]
                        IN  IF IsEv(m) THEN [m EXCEPT !.num = m.live]
                            ELSE [m EXCEPT !.ev = NewPlace(s, m.ev)]]]

------------------------------------------------------------------------------
(* insert, in the order of the code.  First the space for the data, *)
(* (mistaken: the event to come is left out when the array is enlarged) *)
SecureDataShort(s, len) ==
  IF Len(s.data) + len <= s.dataAlloc THEN s
  ELSE LET c == IF s.dataRevoked > Len(s.data) \div 2 THEN CompactData(s) ELSE s
       IN  [c EXCEPT !.dataAlloc = Enlarged(@, DataMin, Len(c.data))]

SecureData(s, len) ==
  IF Len(s.data) + len <= s.dataAlloc THEN s
  ELSE LET c == IF s.dataRevoked > Len(s.data) \div 2 THEN CompactData(s) ELSE s
       IN  [c EXCEPT !.dataAlloc = Enlarged(@, DataMin, Len(c.data) + len)]

(* and the copy of it; *)
CopyData(s, e) ==
  LET c == SecureData(s, Len(DataOf(e))) IN [c EXCEPT !.data = @ \o DataOf(e)]

(* then the space for its meta-data and its hash entries. *)
MetaFull(s, n) == Len(s.meta) + 1 + n > s.metaAlloc
MetaDue(s, n)  == MetaFull(s, n) /\ s.metaRevoked > Len(s.meta) \div 2

SecureMeta(s, n) ==
  LET c == IF MetaDue(s, n) THEN CompactMeta(s) ELSE s
  IN  IF MetaFull(s, n)
      THEN [c EXCEPT !.metaAlloc = Enlarged(@, MetaMin, Len(c.meta) + 1 + n)]
      ELSE c

(* Mistaken: the table may be filled completely. *)
SecureHashFull(s, n, moved) ==
  IF s.used + n > Size(s)
  THEN Populate(s, Enlarged(Size(s), HashMin, s.used + n))
  ELSE IF moved THEN Populate(s, Size(s)) ELSE s

(* It is made anew when it is enlarged, or the meta-data has moved. *)
SecureHash(s, n, moved) ==
  IF s.used + n > Size(s) \div 2
  THEN Populate(s, Enlarged(Size(s), HashMin, 2 * (s.used + n)))
  ELSE IF moved THEN Populate(s, Size(s)) ELSE s

(* Mistaken: an event that has lost its last sub-event is counted as dead  *)
(* when its entry is made, and again with its last sub-event.              *)
KillTwice(s, slot) ==
  LET m == s.meta[s.hash[slot] + 1]
      e == s.meta[m.ev]
  IN  [s EXCEPT !.hash[slot] = -1,
                !.meta[s.hash[slot] + 1].off = -1,
                !.meta[m.ev].live = @ - 1,
                !.dataRevoked = @ + m.len + e.len,
                !.metaRevoked = @ + 2]

(* The previous value of an identifier is dead, and its event too if that  *)
(* was its last live sub-event.                                            *)
Kill(s, slot) ==
  LET m == s.meta[s.hash[slot] + 1]
      e == s.meta[m.ev]
      last == e.live = 1
  IN  [s EXCEPT !.hash[slot] = -1,
                !.meta[s.hash[slot] + 1].off = -1,
                !.meta[m.ev].live = @ - 1,
                !.dataRevoked = @ + m.len + IF last THEN e.len ELSE 0,
                !.metaRevoked = @ + IF last THEN 2 ELSE 1]

Dropped(sub) == discard /\ sub.val = Revoke

(* Mistaken: a discarded revoke does not look for the value it ends. *)
AddSubKept(acc, sub) ==
  LET ev   == acc.ev
      s1   == IF Dropped(sub)
              THEN [acc.s EXCEPT !.meta[ev].num = @ - 1, !.meta[ev].live = @ - 1]
              ELSE [acc.s EXCEPT !.meta = Append(@, SubMeta(ev, acc.off, SubLen(sub)))]
      at   == Probe(s1, sub.id, Find(s1, sub.id))
      s2   == IF s1.hash[at] = 0 THEN [s1 EXCEPT !.used = @ + 1]
                                 ELSE Kill(s1, at)
      s3   == IF Dropped(sub) THEN s1 ELSE Place(s2, sub.id, Len(s1.meta) - 1)
  IN  [acc EXCEPT !.s = s3, !.off = @ + SubLen(sub)]

(* One sub-event of the event whose entry is acc.ev, its data at acc.off. *)
AddSub(acc, sub) ==
  LET ev   == acc.ev
      s1   == IF Dropped(sub)
              THEN [acc.s EXCEPT !.meta[ev].num = @ - 1, !.meta[ev].live = @ - 1]
              ELSE [acc.s EXCEPT !.meta = Append(@, SubMeta(ev, acc.off, SubLen(sub)))]
      at   == Probe(s1, sub.id, Find(s1, sub.id))
      s2   == IF s1.hash[at] = 0 THEN [s1 EXCEPT !.used = @ + 1]
                                 ELSE Kill(s1, at)
      s3   == IF Dropped(sub) THEN s2 ELSE Place(s2, sub.id, Len(s1.meta) - 1)
  IN  [acc EXCEPT !.s = s3, !.off = @ + SubLen(sub)]

Inserted(s, e) ==
  LET n    == Len(e.subs)
      s1   == CopyData(s, e)
      off  == Len(s1.data) - Len(DataOf(e))
      s2   == SecureMeta(s1, n)
      s3   == SecureHash(s2, n, MetaDue(s1, n))
      s4   == [s3 EXCEPT !.meta = Append(@, EvMeta(off, HeadLen(e), n))]
      upto[k \in 0..n] ==
        IF k = 0 THEN [s |-> s4, ev |-> Len(s4.meta), off |-> off + HeadLen(e)]
        ELSE LET t == upto[k - 1] IN AddSub(t, e.subs[k])
  IN  upto[n].s

------------------------------------------------------------------------------
Init == /\ store = [data |-> <<>>, dataAlloc |-> 0, dataRevoked |-> 0,
                    meta |-> <<>>, metaAlloc |-> 0, metaRevoked |-> 0,
                    hash |-> [i \in {} |-> 0], used |-> 0]
        /\ hashOf \in [Ids -> Hashes]
        /\ discard \in BOOLEAN
        /\ input = <<>>
        /\ inserts = 0
        /\ offered = 0

(* The bounds on what is offered. *)
Offer(e) == /\ inserts < MaxInserts
            /\ inserts' = inserts + 1
            /\ offered' = offered + Len(e.subs) + HeadLen(e) - 1
            /\ offered' <= MaxOffered

Insert(e) == /\ Offer(e)
             /\ store' = Inserted(store, e)
             /\ input' = e.subs
             /\ UNCHANGED <<discard, hashOf>>

(* A malformed event is found out after its data was copied: the error     *)
(* leaves the data behind, with nothing in the meta-data to name it.  One  *)
(* malformed event stands for all, as nothing looks at its data again.     *)
Malformed == [tstamp |-> FALSE,
              subs |-> <<[id |-> Min(Ids), val |-> Min(Vals)]>>]

InsertBad == /\ Offer(Malformed)
             /\ store' = CopyData(store, Malformed)
             /\ input' = <<>>
             /\ UNCHANGED <<discard, hashOf>>

Next == InsertBad \/ \E e \in Event : Insert(e)

Spec == Init /\ [][Next]_vars

------------------------------------------------------------------------------
Live(s) == {k \in 1..Len(s.meta) : ~IsEv(s.meta[k]) /\ Keeps(s.meta[k])}

(* What write_events emits: of every event with live sub-events its head   *)
(* and those sub-events, in the order of the meta-data.                    *)
WriteEvents(s) == [i \in DOMAIN Kept(s) |-> DataAt(s, Kept(s)[i])]

(* The values a replay gives an identifier. *)
Replayed(out, id) == {k \in DOMAIN out : out[k][1].id = id}

InForce ==
  LET out == WriteEvents(store)
      Of(id) == Replayed(out, id)
  IN  [id \in Ids |-> IF Of(id) = {} THEN None
                      ELSE out[CHOOSE k \in Of(id) : TRUE][1].val]

------------------------------------------------------------------------------
TypeOK ==
  /\ store.data \in Seq(Cell)
  /\ Len(store.data) <= store.dataAlloc
  /\ Len(store.meta) <= store.metaAlloc
  /\ DOMAIN store.hash = 0..(Size(store) - 1)
  /\ \A i \in DOMAIN store.hash : store.hash[i] \in -1..(Len(store.meta) - 1)
  /\ discard \in BOOLEAN
  /\ inserts \in 0..MaxInserts

(* A replay emits whole items: every item is the undamaged data of one     *)
(* event head or one sub-event, however often the arrays were compacted,   *)
(* enlarged or left with the data of a malformed event (compact_data,      *)
(* compact_meta, write_events); and no identifier is replayed twice.       *)
ReplayIntact ==
  LET out == WriteEvents(store)
  IN  /\ \A item \in Range(out) :
           /\ item[1].id = 0 => item \in {Cells(HeadCell, 1), Cells(HeadCell, 2)}
           /\ item[1].id # 0 => item = Cells(item[1], SubLen(item[1]))
      /\ \A id \in Ids : Cardinality(Replayed(out, id)) <= 1

(* What the code asserts in verify_meta and while it compacts: the live    *)
(* counts are those of the entries that follow, every live entry names     *)
(* data inside the array and its own event, and entries come in the order  *)
(* of their data, so that moving them to the front overwrites nothing that *)
(* is still to be moved.                                                   *)
MetaSound ==
  LET m == store.meta
      SubsOf(e) == {k \in Live(store) : m[k].ev = e}
  IN  /\ \A k \in 1..Len(m) :
           /\ IsEv(m[k]) => /\ m[k].live = Cardinality(SubsOf(k))
                            /\ \A j \in k+1..k+m[k].num : ~IsEv(m[j])
                            /\ k + m[k].num < Len(m) => IsEv(m[k + m[k].num + 1])
           /\ k \in Live(store) => k - m[k].ev \in 1..m[m[k].ev].num
           /\ Keeps(m[k]) => m[k].off + m[k].len <= Len(store.data)
      /\ \A j, k \in 1..Len(m) :
           j < k /\ Keeps(m[j]) /\ Keeps(m[k]) => m[j].off + m[j].len <= m[k].off

(* The table finds exactly the live sub-events, each under its identifier, *)
(* and is never more than half used, so every search of it ends.           *)
HashFinds ==
  /\ \A k \in Live(store) :
       store.hash[Probe(store, IdAt(store, k), Find(store, IdAt(store, k)))] = k - 1
  /\ Cardinality({i \in DOMAIN store.hash : store.hash[i] # 0}) <= store.used
  /\ store.used <= Size(store) \div 2

(* What is counted as dead is never more than compaction can give back, so *)
(* a compaction that is due at least halves what the array holds.          *)
RevokedIsDead ==
  /\ store.dataRevoked + Len(CompactData(store).data) <= Len(store.data)
  /\ store.metaRevoked + Len(CompactMeta(store).meta) <= Len(store.meta)

(* The three arrays of the store agree with each other after every insert, *)
(* so that compacting and searching them does what it should.              *)
StoreSound == TypeOK /\ MetaSound /\ HashFinds /\ RevokedIsDead

(* The table does not outgrow the identifiers in use: the file's header    *)
(* comment promises not to "eat infinite amounts of memory".  A discarded  *)
(* revoke counts a slot it does not take, and a slot given up is counted   *)
(* again when it is taken, so that an output that discards revokes breaks  *)
(* this with a long enough sequence of values and revokes.                 *)
HashBounded == Size(store) <= Max({HashMin, 4 * (Cardinality(Ids) + MaxSubs)})

Map == INSTANCE StickyMap WITH last <- InForce

(* The store implements the map from identifiers to their last values:     *)
(* every insert, with all the moving, enlarging and rehashing it may do,   *)
(* changes the values a replay would give exactly as the sub-events of     *)
(* that event say, and a malformed event changes none.                     *)
ImplementsMap == Map!Spec
==============================================================================
