----------------------------- MODULE EventMerge ------------------------------
(***************************************************************************)
(* Merging of the events of several input files (eventloop/mainfcn.cc and  *)
(* event_loop.cc, built with USE_MERGING).                                 *)
(*                                                                         *)
(* At most Concurrent files are open.  From each of them one event is read *)
(* and kept in a priority queue; the first of these is output, and the     *)
(* next one read from its file.  A file that ends, or is given up, makes   *)
(* room for the next.                                                      *)
(*                                                                         *)
(* An event is its number in the order of time, each of which is in one    *)
(* file.  The number of an event in the data is this modulo Mod (2^32);    *)
(* the time stamp is the number itself.                                    *)
(*                                                                         *)
(* Plausible mistakes are defined before what they distort: AgainByInput,  *)
(* CanOpenMore, OpenGoesOn, ReadFailsOpen, ReturnsGivenUp, LastFirst,      *)
(* SomeFetched.                                                            *)
(***************************************************************************)
EXTENDS Integers, Sequences, FiniteSets, SequencesExt

CONSTANTS
  Files,            \* number of input files
  Concurrent,       \* _merge_concurrent_files
  Options,          \* sets of options to look at: "eventno" or else by time
                    \* stamp, "broken", "fatal", "allow", "downscale"
  Kinds,            \* kinds of events: "normal", "sticky", "unstamped", "faulty"
  Mod,              \* event numbers are below this
  Margin,           \* a wrap is from the last to the first Margin numbers
  Downscale,        \* _downscale, with that option
  ErrorLimit,       \* errors before a file, or all, are given up
  EventLimit,       \* _max_events
  MaxNumber         \* bound: events in all files

ASSUME MergeAssumption ==
  /\ Files \in Nat /\ Concurrent \in Nat \ {0}
  /\ Mod \in Nat \ {0} /\ Margin \in 1..Mod /\ MaxNumber \in Nat
  /\ Downscale \in Nat /\ ErrorLimit \in Nat \ {0} /\ EventLimit \in Nat \ {0}
  /\ Options \subseteq SUBSET {"eventno", "broken", "fatal", "allow", "downscale"}
  /\ Kinds \subseteq {"normal", "sticky", "unstamped", "faulty"}

VARIABLES
  opts,        \* the one of Options in use
  pc,          \* "open", "fetch", "closing", "ended", "crash"
  input,       \* next of the files to open
  sources,     \* _sources
  need,        \* _sources_need_event
  queue,       \* _sources_next_event
  no,          \* _event->_unpack.event_no of each file
  stamp,       \* _timestamp of each file
  errors,      \* errors_file
  skipped,     \* downscale_counter
  prev,        \* *prev_event_merge_order, -1 for NULL
  why,         \* what ended the loop
  read,        \* events read from each file
  held,        \* the event of each file in the queue
  good,        \* events unpacked without error
  odd,         \* those that do not have the key of their own to sort by
  taken,       \* events output
  before       \* for each file, the events output when it was opened

reading == <<input, sources, read, before>>
current == <<no, stamp, held, good, odd>>
order == <<prev, taken>>
vars == <<opts, pc, queue, need, errors, skipped, why, reading, current, order>>

File == 1..Files
Broken == "broken" \in opts
Fatal == "fatal" \in opts
ByNumber == "eventno" \in opts

-----------------------------------------------------------------------------
(* The ways out of the event loop. *)

\* goto no_more_files
NoMoreFiles(reason) == pc' = "closing" /\ why' = reason /\ UNCHANGED errors

\* Mistaken: the files that are open are forgotten when there is none to open.
AgainByInput(n, open) ==
  IF n <= Files
  THEN pc' = "open" /\ errors' = (IF Broken THEN 0 ELSE errors) /\ UNCHANGED why
  ELSE NoMoreFiles("end")

\* goto no_more_events: around, as long as files are open or to be opened.
Again(n, open) ==
  IF n <= Files \/ open # {}
  THEN pc' = "open" /\ errors' = (IF Broken THEN 0 ELSE errors) /\ UNCHANGED why
  ELSE NoMoreFiles("end")

\* An error of a file that ends the reading of it, or of all.
AfterIOError(n, open) == IF Fatal THEN NoMoreFiles("fatal") ELSE Again(n, open)

(***************************************************************************)
(* close_source deletes the source, also when closing fails, and then      *)
(* throws.  At the end of a file it is called within the try block whose   *)
(* handler closes the source again.  In a handler nothing catches the      *)
(* error, and the program is terminated.                                   *)
(***************************************************************************)
CloseFails == pc' = "crash" /\ UNCHANGED <<why, errors>>

-----------------------------------------------------------------------------
(* Opening. *)

\* Mistaken: only the number of open files is looked at.
CanOpenMore == Cardinality(sources) < Concurrent

CanOpen == input <= Files /\ Cardinality(sources) < Concurrent

Opened ==
  /\ pc = "open" /\ CanOpen
  /\ input' = input + 1
  /\ sources' = sources \cup {input}
  /\ need' = Append(need, input)
  /\ before' = [before EXCEPT ![input] = taken]
  /\ UNCHANGED <<opts, pc, queue, errors, skipped, why, read, current, order>>

\* Mistaken: on to the events, although no file may be open.
OpenGoesOn ==
  /\ pc = "open" /\ CanOpen
  /\ input' = input + 1
  /\ pc' = "fetch" /\ UNCHANGED <<errors, why>>
  /\ UNCHANGED <<opts, queue, need, skipped, sources, read, before, current, order>>

OpenFails ==
  /\ pc = "open" /\ CanOpen
  /\ input' = input + 1
  /\ AfterIOError(input', sources)
  /\ UNCHANGED <<opts, queue, need, skipped, sources, read, before, current, order>>

OpenDone ==
  /\ pc = "open" /\ ~CanOpen
  /\ pc' = "fetch"
  /\ UNCHANGED <<opts, queue, need, errors, skipped, why, reading, current, order>>

-----------------------------------------------------------------------------
(* Getting an event, from the file last added to those that need one. *)

NeedOthers == SubSeq(need, 1, Len(need) - 1)

\* What may come next in a file.
Later(f) == {n \in 1..MaxNumber : /\ \A g \in File : n \notin read[g]
                                 /\ \A k \in read[f] : k < n}

Closed(f) ==
  /\ sources' = sources \ {f} /\ need' = NeedOthers
  /\ UNCHANGED <<queue, current>>

\* get_event returns false.
FileEnds(f) ==
  /\ Closed(f)
  /\ Again(input, sources') \/ CloseFails
  /\ UNCHANGED <<skipped, read>>

\* Mistaken: the file stays open.
ReadFailsOpen(f) ==
  /\ need' = NeedOthers /\ UNCHANGED <<queue, current, sources>>
  /\ AfterIOError(input, sources') \/ CloseFails
  /\ UNCHANGED <<skipped, read>>

\* get_event throws.
ReadFails(f) ==
  /\ Closed(f)
  /\ AfterIOError(input, sources') \/ CloseFails
  /\ UNCHANGED <<skipped, read>>

Skips == "downscale" \in opts /\ skipped + 1 < Downscale

Skip ==
  /\ Skips
  /\ skipped' = skipped + 1
  /\ UNCHANGED <<pc, queue, need, errors, why, sources, current>>

\* pre2_unpack_event: a sticky event has a structure of its own, and the event
\* number of the event before stays.
Numbered(f, n, kind) ==
  no' = IF kind = "sticky" THEN no ELSE [no EXCEPT ![f] = n % Mod]

\* The event is unpacked and put in the queue.
Unpacked(f, n, kind) ==
  /\ kind # "faulty"
  /\ Numbered(f, n, kind)
  /\ stamp' = [stamp EXCEPT ![f] = IF kind = "unstamped" THEN 0 ELSE n]
  /\ held' = [held EXCEPT ![f] = n]
  /\ good' = good \cup {n}
  /\ odd' = IF kind = (IF ByNumber THEN "sticky" ELSE "unstamped")
            THEN odd \cup {n} ELSE odd
  /\ need' = NeedOthers
  /\ queue' = queue \cup {f}
  /\ UNCHANGED <<pc, errors, why, sources>>

\* handle_event could not write, or the bad event could not be written.
NotWritten ==
  /\ NoMoreFiles("output")
  /\ UNCHANGED <<queue, need, sources, current>>

\* Mistaken: the file that was closed is asked for an event.
ReturnsGivenUp(f) ==
  /\ sources' = sources \ {f} /\ UNCHANGED <<queue, need, current>>
  /\ Again(input, sources') \/ CloseFails

\* Too many errors: the next file.
GivenUp(f) ==
  /\ Closed(f)
  /\ Again(input, sources') \/ CloseFails

\* Unpacking throws.
Faulty(f) ==
  IF "allow" \in opts \/ errors + 1 < ErrorLimit
  THEN /\ errors' = errors + 1
       /\ UNCHANGED <<pc, queue, need, why, sources, current>>
  ELSE IF Broken THEN GivenUp(f)
  ELSE NoMoreFiles("errors") /\ UNCHANGED <<queue, need, sources, current>>

Event(f) ==
  \E n \in Later(f), kind \in Kinds :
     /\ read' = [read EXCEPT ![f] = @ \cup {n}]
     /\ \/ Skip
        \/ /\ ~Skips /\ skipped' = 0
           /\ \/ Unpacked(f, n, kind)
              \/ kind = "faulty" /\ Faulty(f)
              \/ NotWritten

Fetch ==
  /\ pc = "fetch" /\ need # <<>>
  /\ LET f == Last(need) IN FileEnds(f) \/ ReadFails(f) \/ Event(f)
  /\ UNCHANGED <<opts, input, before, order>>

-----------------------------------------------------------------------------
(* Taking the first event. *)

Key(f) == IF ByNumber THEN no[f] ELSE stamp[f]

\* Mistaken: the comparison of the queue the other way around.
LastFirst == {f \in queue : \A g \in queue : Key(g) <= Key(f)}

\* What _sources_next_event.top may be.
First == {f \in queue : \A g \in queue : Key(f) <= Key(g)}

\* do_check_merge_event_after
Wraps(k) == k < Margin /\ prev >= Mod - Margin
After(k) == \/ prev = -1 \/ ~ByNumber
            \/ k > prev \/ (k < prev /\ Wraps(k))


AllFetched == need = <<>>

OutOfOrder(f) ==
  /\ queue' = queue \ {f}
  /\ NoMoreFiles("order")
  /\ UNCHANGED <<need, order>>

\* The event is written to the outputs, or one of them fails.
WriteOut(f) ==
  \/ NoMoreFiles("output") /\ UNCHANGED taken
  \/ /\ taken' = taken \cup {held[f]}
     /\ IF Cardinality(taken') >= EventLimit
        THEN NoMoreFiles("limit")
        ELSE UNCHANGED <<pc, errors, why>>

\* do_record_merge_event_info; the file needs a new event.
Take(f) ==
  /\ prev' = Key(f)
  /\ queue' = queue \ {f}
  /\ need' = Append(need, f)
  /\ WriteOut(f)

\* The assertions for an empty queue are left out, see SomethingToTake.
TakeFirst ==
  /\ pc = "fetch" /\ AllFetched
  /\ IF queue = {}
     THEN Again(input, sources) /\ UNCHANGED <<queue, need, order>>
     ELSE \E f \in First : IF After(Key(f)) THEN Take(f) ELSE OutOfOrder(f)
  /\ UNCHANGED <<opts, skipped, reading, current>>

\* no_more_files: close_sources, which tries all of them.
CloseSources ==
  /\ pc = "closing"
  /\ pc' = "ended" /\ sources' = {}
  /\ UNCHANGED <<opts, queue, need, errors, skipped, why, input, read, before,
                 current, order>>

Stopped == pc \in {"ended", "crash"} /\ UNCHANGED vars

Init ==
  /\ opts \in Options
  /\ pc = (IF Files > 0 THEN "open" ELSE "closing")
  /\ input = 1 /\ sources = {} /\ need = <<>> /\ queue = {}
  /\ no = [f \in File |-> 0] /\ stamp = [f \in File |-> 0]
  /\ errors = 0 /\ skipped = 0 /\ prev = -1 /\ why = "none"
  /\ read = [f \in File |-> {}] /\ held = [f \in File |-> 0]
  /\ good = {} /\ odd = {} /\ taken = {} /\ before = [f \in File |-> {}]

Step == Opened \/ OpenFails \/ OpenDone \/ Fetch \/ TakeFirst
        \/ CloseSources
Next == Step \/ Stopped
Spec == Init /\ [][Next]_vars

\* The loop goes on by itself: reading an event ends, in success or not.
FairSpec == Spec /\ WF_vars(Step)

-----------------------------------------------------------------------------
Number == 1..MaxNumber
Looping == pc \in {"open", "fetch"}

TypeOK ==
  /\ pc \in {"open", "fetch", "closing", "ended", "crash"}
  /\ input \in 1..(Files + 1) /\ sources \subseteq File /\ need \in Seq(File)
  /\ queue \subseteq File /\ no \in [File -> 0..(Mod - 1)]
  /\ stamp \in [File -> Nat] /\ errors \in Nat /\ skipped \in Nat
  /\ prev \in Int /\ good \subseteq Number /\ taken \subseteq Number
  /\ \A f \in File : read[f] \subseteq Number /\ before[f] \subseteq Number

\* A file that is open waits for an event or has one in the queue, not both and
\* not twice, and no file that was closed, and deleted, does; no more than
\* _merge_concurrent_files are open (open_source, close_source, the loop).
SourcesPlaced ==
  Looping =>
    /\ ToSet(need) \cup queue = sources /\ ToSet(need) \cap queue = {}
    /\ Len(need) = Cardinality(ToSet(need))
    /\ Cardinality(sources) <= Concurrent

\* Every event that was unpacked without error was output, or is in the queue;
\* at the end of the input none is left there, whatever files were given up.
NoneLost ==
  /\ Looping => good = taken \cup {held[f] : f \in queue}
  /\ why = "end" => good = taken

\* When every file was asked there is an event to take: the branch for an empty
\* queue, with its assertions that there are no more files either, is not
\* reached.
SomethingToTake == pc = "fetch" /\ need = <<>> => queue # {}

\* Neither a file nor an event is forgotten between the lists of the sources,
\* however files end, fail, or are given up.
NothingForgotten == TypeOK /\ SourcesPlaced /\ NoneLost /\ SomethingToTake

\* An event is output after all events of earlier time that are in files which
\* were open together with its own: none that was output since its file was
\* opened is later.
MergedInOrder ==
  [][\A f \in File :
       held[f] \in (taken' \ taken) \ odd =>
         \A k \in (taken \ before[f]) \ odd : k < held[f]]_vars


\* However files fail to open or to be read, the loop comes to its end.
MergeEnds == <>(pc \in {"ended", "crash"})

\* No error while closing a file makes the program close it twice, or end at
\* once: "we catch to do all the closing!"
ClosedOnce == pc # "crash"
=============================================================================
