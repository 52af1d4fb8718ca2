------------------------------ MODULE StickyMap ------------------------------
(***************************************************************************)
(* What the store of sticky events promises its output: after any number   *)
(* of sticky events, every sub-event identifier has the value it was last  *)
(* given, or none when its last sub-event was a revoke that the output     *)
(* asked to be discarded.  The store (StickyStore) is shown to implement   *)
(* this map.                                                               *)
(***************************************************************************)
EXTENDS Integers, Sequences, SequencesExt

CONSTANTS Ids,          \* sub-event identifiers
          Vals,         \* values, each its own payload length
          Subs          \* the sequences of sub-events an event may hold

Revoke == 0             \* a sub-event that ends the validity of its identifier
None   == -1            \* the identifier has no value

VARIABLES last,         \* last[id]: the value in force
          input,        \* the sub-events most recently stored
          discard       \* revokes are dropped, not stored

(* The effect of one sub-event. *)
Update(m, s) ==
  [m EXCEPT ![s.id] = IF s.val = Revoke /\ discard THEN None ELSE s.val]

Init == /\ last = [id \in Ids |-> None]
        /\ input = <<>>
        /\ discard \in BOOLEAN

Insert(subs) == /\ input' = subs
                /\ last' = FoldLeft(Update, last, subs)
                /\ UNCHANGED discard

(* An event that is refused midway changes no value. *)
Refuse == input' = <<>> /\ UNCHANGED <<last, discard>>

Next == Refuse \/ \E subs \in Subs : Insert(subs)

Spec == Init /\ [][Next]_<<last, input, discard>>
==============================================================================
