------------------------------ MODULE MergeData ------------------------------
(***************************************************************************)
(* What time stitching does with the data of the events it merges:         *)
(* ext_merge_do_merge in hbook/ext_file_merge.cc.                          *)
(*                                                                         *)
(* The data of a source is a list of words, which is read from front to    *)
(* back: a plain item, an array (length and items), and a multi-array: the *)
(* list of indices, each with the number of items up to and including it,  *)
(* and then the items themselves.  Items of arrays are distinct numbers.   *)
(*                                                                         *)
(* Plausible mistakes are defined before what they distort: ItemLast,      *)
(* LeastLast, UsesAll, RestFirst.                                          *)
(***************************************************************************)
EXTENDS Integers, Sequences, FiniteSets, FiniteSetsExt

CONSTANTS
  Sources,           \* 1..n, in the order they are included
  ArrLens, ArrMax,   \* lengths of the arrays, and space for the merged
  Indices, Counts,   \* of the multi-arrays
  DataMax            \* space for the merged

ASSUME DataAssumption ==
  /\ Sources \subseteq Nat \ {0} /\ ArrMax \in Nat /\ DataMax \in Nat
  /\ Indices \subseteq Nat /\ Counts \subseteq Nat

VARIABLES
  src,        \* has a plain item, length of the array, items per index of the multi-array
  words,      \* these as the words of the message
  at,         \* words read
  pc, flags, item, array,
  heap,       \* _maii_items: next index of each source
  index,      \* merged indices, with the end of their items
  copies,     \* _maci_items: what is to be copied
  skips,      \* what is to be passed over
  data        \* the merged items

vars == <<src, words, at, pc, flags, item, array, heap, index, copies, skips, data>>

Sum(f, S) == LET upto[k \in 0..Max(Indices)] ==
                   IF k = 0 THEN 0 ELSE upto[k - 1] + (IF k \in S THEN f[k] ELSE 0)
             IN  upto[Max(Indices)]

(* The words of a source: its indices come in order, each with the number  *)
(* of items up to its last.                                                *)
PlainItem(s) == 100 * s
ArrayItem(s, i) == 100 * s + i
DataItem(s, i) == 100 * s + 50 + i

Ordered(S) == LET f[k \in 0..Cardinality(S)] ==
                    IF k = 0 THEN <<>>
                    ELSE Append(f[k - 1], Min(S \ {f[k - 1][i] : i \in 1..(k - 1)}))
              IN  f[Cardinality(S)]

Words(s, in) ==
  LET inds == Ordered(DOMAIN in.counts)
      n    == Sum(in.counts, DOMAIN in.counts)
  IN  <<IF in.has THEN PlainItem(s) ELSE 0, in.len>> \o [i \in 1..in.len |-> ArrayItem(s, i)] \o <<Len(inds)>>
      \o [i \in 1..(2 * Len(inds)) |->
            IF i % 2 = 1 THEN inds[(i + 1) \div 2]
            ELSE Sum(in.counts, {inds[j] : j \in 1..(i \div 2)})]
      \o <<n>> \o [i \in 1..n |-> DataItem(s, i)]

Inputs == [has : BOOLEAN, len : ArrLens, counts : UNION {[S -> Counts] : S \in SUBSET Indices}]

Init ==
  /\ src \in [Sources -> Inputs]
  /\ words = [s \in Sources |-> Words(s, src[s])]
  /\ at = [s \in Sources |-> 0] /\ pc = "item" /\ flags = {} /\ item = 0 /\ array = <<>>
  /\ heap = {} /\ index = <<>> /\ copies = <<>> /\ skips = <<>> /\ data = <<>>

Read(s, n) == words[s][at[s] + n]

------------------------------------------------------------------------------
(* ext_merge_item: the first source that has a value; one more is flagged. *)
Valued == {s \in Sources : Read(s, 1) # 0}

(* Mistaken: the value of the last source. *)
ItemLast == IF Valued = {} THEN 0 ELSE Read(Max(Valued), 1)

ItemValue == IF Valued = {} THEN 0 ELSE Read(Min(Valued), 1)

MergeItem ==
  /\ pc = "item"
  /\ item' = ItemValue
  /\ flags' = IF Cardinality(Valued) > 1 THEN {"multiple"} ELSE {}
  /\ at' = [s \in Sources |-> at[s] + 1]
  /\ pc' = "array"
  /\ UNCHANGED <<src, words, array, heap, index, copies, skips, data>>

(* ext_merge_array: the items of all sources one after the other, as many  *)
(* as fit; a source is read to its end nevertheless.                       *)
ArrayRead == [s \in Sources |-> at[s] + 1 + Read(s, 1)]

MergeArray ==
  /\ pc = "array"
  /\ LET upto[k \in 0..Max(Sources)] ==
           IF k = 0 THEN [got |-> <<>>, over |-> FALSE]
           ELSE IF k \notin Sources THEN upto[k - 1]
           ELSE LET r   == upto[k - 1]
                    n   == Read(k, 1)
                    use == IF Len(r.got) + n > ArrMax THEN ArrMax - Len(r.got) ELSE n
                IN  [got |-> r.got \o [i \in 1..use |-> Read(k, 1 + i)],
                     over |-> r.over \/ use < n]
         m == upto[Max(Sources)]
     IN  /\ array' = m.got
         /\ flags' = IF m.over THEN flags \cup {"overflow"} ELSE flags
  /\ at' = ArrayRead
  /\ pc' = "first"
  /\ UNCHANGED <<src, words, item, heap, index, copies, skips, data>>

------------------------------------------------------------------------------
(* ext_merge_multi_array.  The first index of each source that has any.    *)
MultiFirst ==
  /\ pc = "first"
  /\ LET with == {s \in Sources : Read(s, 1) > 0}
     IN  /\ heap' = {[s |-> s, index |-> Read(s, 2), items |-> Read(s, 3),
                      endnum |-> Read(s, 3), left |-> Read(s, 1) - 1] : s \in with}
         /\ at' = [s \in Sources |-> at[s] + (IF s \in with THEN 3 ELSE 1)]
  /\ pc' = "pick"
  /\ UNCHANGED <<src, words, flags, item, array, index, copies, skips, data>>

(* Mistaken: of the same index, the last source. *)
LeastLast(h) == \A g \in heap : h.index < g.index \/ (h.index = g.index /\ h.s >= g.s)

(* The top of the heap: the smallest index, and of these the first source. *)
Least(h) == \A g \in heap : h.index < g.index \/ (h.index = g.index /\ h.s <= g.s)

End == IF index = <<>> THEN 0 ELSE index[Len(index)].end

(* Mistaken: as if there were space for all. *)
UsesAll(items) == items

Uses(items) == IF End + items > DataMax THEN DataMax - End ELSE items

Extended(i, use) ==
  IF index # <<>> /\ index[Len(index)].index = i
  THEN [index EXCEPT ![Len(index)].end = @ + use]
  ELSE Append(index, [index |-> i, end |-> End + use])

Following(h) ==
  [h EXCEPT !.index = Read(h.s, 1), !.items = Read(h.s, 2) - h.endnum,
            !.endnum = Read(h.s, 2), !.left = @ - 1]

(* Its items are used, and the source's next index is read; but once they  *)
(* do not fit, all that remains is to be passed over.                      *)
Pick(h) ==
  /\ pc = "pick" /\ h \in heap /\ Least(h)
  /\ LET use == Uses(h.items)
     IN  /\ index' = Extended(h.index, use)
         /\ copies' = Append(copies, [s |-> h.s, items |-> use])
         /\ \/ /\ use < h.items
               /\ heap' = (heap \ {h}) \cup {[h EXCEPT !.items = @ - use]}
               /\ flags' = flags \cup {"mindex"}
               /\ pc' = "over"
               /\ UNCHANGED at
            \/ /\ use = h.items /\ h.left = 0
               /\ heap' = heap \ {h}
               /\ UNCHANGED <<flags, pc, at>>
            \/ /\ use = h.items /\ h.left > 0
               /\ heap' = (heap \ {h}) \cup {Following(h)}
               /\ at' = [at EXCEPT ![h.s] = @ + 2]
               /\ UNCHANGED <<flags, pc>>
  /\ UNCHANGED <<src, words, item, array, skips, data>>

Picked ==
  /\ pc = "pick" /\ heap = {} /\ pc' = "over"
  /\ UNCHANGED <<src, words, at, flags, item, array, heap, index, copies, skips, data>>

(* Mistaken: the indices that do not fit are not counted. *)
RestFirst(h) == h.items

(* All the items a source has left: from the number up to its last. *)
Rest(h) ==
  h.items + (IF h.left = 0 THEN 0 ELSE Read(h.s, 2 * h.left) - h.endnum)

Overflow(h) ==
  /\ pc = "over" /\ h \in heap /\ Least(h)
  /\ skips' = Append(skips, [s |-> h.s, items |-> Rest(h)])
  /\ at' = [at EXCEPT ![h.s] = @ + 2 * h.left]
  /\ heap' = heap \ {h}
  /\ UNCHANGED <<src, words, pc, flags, item, array, index, copies, data>>

(* The numbers of items are passed over, and the items copied. *)
Taken(list, s, k) ==
  LET upto[i \in 0..Len(list)] ==
        IF i = 0 THEN 0 ELSE upto[i - 1] + (IF list[i].s = s THEN list[i].items ELSE 0)
  IN  upto[k]

Copy ==
  /\ pc = "over" /\ heap = {}
  /\ LET upto[k \in 0..Len(copies)] ==
           IF k = 0 THEN <<>>
           ELSE upto[k - 1] \o [i \in 1..copies[k].items |->
                                 Read(copies[k].s, 1 + Taken(copies, copies[k].s, k - 1) + i)]
     IN  data' = upto[Len(copies)]
  /\ at' = [s \in Sources |-> at[s] + 1 + Taken(copies, s, Len(copies))
                                         + Taken(skips, s, Len(skips))]
  /\ pc' = "end"
  /\ UNCHANGED <<src, words, flags, item, array, heap, index, copies, skips>>

Next == \/ MergeItem \/ MergeArray \/ MultiFirst \/ Picked \/ Copy
        \/ \E h \in heap : Pick(h) \/ Overflow(h)

Spec == Init /\ [][Next]_vars

------------------------------------------------------------------------------
(* Type invariant: nothing is read beyond the end of a source, and what is *)
(* made fits where it is put: the merged data, and the lists of what to    *)
(* copy and to pass over, for which one more than all indices is reserved. *)
AllIndices == Sum([i \in Indices |-> Cardinality({s \in Sources : i \in DOMAIN src[s].counts})],
                  Indices)

TypeOK ==
  /\ src \in [Sources -> Inputs] /\ item \in {0} \cup {PlainItem(s) : s \in Sources}
  /\ pc \in {"item", "array", "first", "pick", "over", "end"}
  /\ flags \subseteq {"multiple", "overflow", "mindex"}
  /\ \A s \in Sources : at[s] \in 0..Len(words[s])
  /\ Len(array) <= ArrMax /\ Len(data) <= DataMax /\ Len(index) <= Cardinality(Indices)
  /\ Len(copies) + Len(skips) <= AllIndices + 1
  /\ \A h \in heap : h.items \in Nat /\ h.left \in Nat

(* All sources are read exactly to their end: the check in do_merge for    *)
(* which the program would give up.                                        *)
UsedFully == pc = "end" => \A s \in Sources : at[s] = Len(words[s])

(* The merged data against what they should be, defined by comparison of   *)
(* all with all: the place of an item of a multi-array is the number of    *)
(* items with a smaller index, or of the same from an earlier source, or   *)
(* before it in its own.  What is beyond the space is left out, the rest   *)
(* is all there; a flag is set exactly if something was left out.          *)
Entries == {<<i, s, k>> \in Indices \X Sources \X (1..Max(Counts)) :
              i \in DOMAIN src[s].counts /\ k <= src[s].counts[i]}

Before(x, y) == \/ x[1] < y[1]
                \/ (x[1] = y[1] /\ x[2] < y[2])
                \/ (x[1] = y[1] /\ x[2] = y[2] /\ x[3] < y[3])

ItemOf(e) == DataItem(e[2], e[3] + Sum(src[e[2]].counts,
                                       {i \in DOMAIN src[e[2]].counts : i < e[1]}))

MultiRight ==
  pc = "end" =>
    /\ Len(data) = Min({DataMax, Cardinality(Entries)})
    /\ \A e \in Entries :
         LET place == 1 + Cardinality({x \in Entries : Before(x, e)})
         IN  place <= DataMax =>
               /\ data[place] = ItemOf(e)
               /\ \E j \in 1..Len(index) :
                    /\ index[j].index = e[1] /\ place <= index[j].end
                    /\ j > 1 => place > index[j - 1].end
    /\ End = Len(data)
    /\ \A j \in 2..Len(index) : index[j - 1].index < index[j].index
    /\ ("mindex" \in flags) = (Cardinality(Entries) > DataMax)

(* Plain items and arrays: a value comes from the first source that has    *)
(* one, the items of an array are those of all sources in their order, as  *)
(* far as there is space; what was left out is flagged.                    *)
PlainRight ==
  pc = "end" =>
    LET have  == {s \in Sources : src[s].has}
        all   == {<<s, i>> \in Sources \X (1..Max(ArrLens)) : i <= src[s].len}
        place(e) == 1 + Cardinality({x \in all : x[1] < e[1] \/ (x[1] = e[1] /\ x[2] < e[2])})
    IN  /\ item = IF have = {} THEN 0 ELSE PlainItem(Min(have))
        /\ ("multiple" \in flags) = (Cardinality(have) > 1)
        /\ Len(array) = Min({ArrMax, Cardinality(all)})
        /\ \A e \in all : place(e) <= ArrMax => array[place(e)] = ArrayItem(e[1], e[2])
        /\ ("overflow" \in flags) = (Cardinality(all) > ArrMax)

(* ext_merge_do_merge makes of the data of its sources what the definition *)
(* by comparison says, reads all of it, and stays within its memory.       *)
DataRight == TypeOK /\ UsedFully /\ MultiRight /\ PlainRight
==============================================================================
