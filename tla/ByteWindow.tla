----------------------------- MODULE ByteWindow -----------------------------
(***************************************************************************)
(* What an input buffer promises to the code that reads events from it: a  *)
(* stream of bytes passes through a window of Capacity bytes.  A byte is   *)
(* stored once, in order; it can be handed out only after it was stored,   *)
(* and its place can be reused only after the user has released it.        *)
(* PipeBuffer is shown to implement this module.                           *)
(***************************************************************************)
EXTENDS Integers

CONSTANTS
  Capacity,  \* size of the window
  Preload,   \* bytes present from the start
  Length     \* length of the whole stream

VARIABLES
  stored,    \* bytes stored so far
  mapped,    \* bytes handed out so far
  freed      \* bytes released so far

window == <<stored, mapped, freed>>

WInit == stored = Preload /\ mapped = 0 /\ freed = 0

Store == /\ stored' \in (stored + 1)..Length
         /\ stored' <= freed + Capacity
         /\ UNCHANGED <<mapped, freed>>

Map == /\ mapped' \in (mapped + 1)..stored
       /\ UNCHANGED <<stored, freed>>

Free == /\ freed' \in (freed + 1)..mapped
        /\ UNCHANGED <<stored, mapped>>

WNext == Store \/ Map \/ Free

WSpec == WInit /\ [][WNext]_window
=============================================================================
