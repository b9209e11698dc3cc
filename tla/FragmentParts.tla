---------------------------- MODULE FragmentParts ----------------------------
(***************************************************************************)
(* Fragmented_Message (Network/net_fragmented_message.cpp): the receiver's *)
(* record of the parts of a fragmented message that are still missing.     *)
(*                                                                         *)
(* part_vect_ is a vector of half-open byte ranges.  remove_from_part_vect *)
(* walks it with an iterator and cuts the range of the fragment that just  *)
(* arrived out of it; one step of this specification is one turn of that   *)
(* loop, so the loop invariant is an invariant of the specification.  The  *)
(* payload itself is abstracted: only which bytes are covered matters.     *)
(***************************************************************************)
EXTENDS Naturals, Sequences, SequencesExt

CONSTANTS FullSize,        \* full_size of the message
          FragmentSizes,   \* the values max_fragment_size_ may have
          NoPart           \* "no part has been asked for"

ASSUME FullSizeAssumption == FullSize \in Nat \ {0}
ASSUME FragmentSizesAssumption == FragmentSizes \subseteq Nat \ {0}
ASSUME NoPartAssumption == NoPart \notin [first : Nat, len : Nat]

VARIABLES part_vect,       \* part_vect_: sequence of [first, second)
          it,              \* the loop's iterator, an index of part_vect
          new_part_start,  \* the arguments of remove_from_part_vect, which
          new_part_end,    \* the loop changes
          in_loop,         \* remove_from_part_vect is running
          asked            \* the last answer of get_next_part

vars == <<part_vect, it, new_part_start, new_part_end, in_loop, asked>>

Part == [first : 0 .. FullSize, second : 0 .. FullSize]

Init ==
    /\ part_vect = <<[first |-> 0, second |-> FullSize]>>
    /\ it = 1
    /\ new_part_start = 0
    /\ new_part_end = 0
    /\ in_loop = FALSE
    /\ asked = NoPart

-----------------------------------------------------------------------------
(* add_data(pos, data, len): calls remove_from_part_vect(pos, pos + len).  *)
(* internal_process_message only calls it with data (len > 0), and a       *)
(* sender never sends bytes beyond full_size.                              *)
add_data(pos, len) ==
    /\ ~in_loop
    /\ new_part_start' = pos
    /\ new_part_end' = pos + len
    /\ it' = 1
    /\ in_loop' = TRUE
    /\ asked' = NoPart
    /\ UNCHANGED part_vect

(* What a turn of the loop may do to the iterator and the loop's guard.    *)
Break == in_loop' = FALSE
Continue == in_loop' = TRUE

CurrentPart == part_vect[it]

(* The loop's exit: the iterator is past the last part.                    *)
AtEnd ==
    /\ in_loop /\ it > Len(part_vect)
    /\ Break
    /\ UNCHANGED <<part_vect, it, new_part_start, new_part_end, asked>>

(* new_part_end <= it->first: the rest of the list is untouched.           *)
BeforeCurrent ==
    /\ in_loop /\ it <= Len(part_vect)
    /\ new_part_end <= CurrentPart.first
    /\ Break
    /\ UNCHANGED <<part_vect, it, new_part_start, new_part_end, asked>>

(* Mutant of AfterCurrent: the iterator is not advanced.                   *)
AfterCurrent_NeverAdvances ==
    /\ in_loop /\ it <= Len(part_vect)
    /\ new_part_end > CurrentPart.first
    /\ new_part_start > CurrentPart.second
    /\ Continue
    /\ UNCHANGED <<part_vect, it, new_part_start, new_part_end, asked>>

(* new_part_start > it->second: skip the part.                             *)
AfterCurrent ==
    /\ in_loop /\ it <= Len(part_vect)
    /\ new_part_end > CurrentPart.first
    /\ new_part_start > CurrentPart.second
    /\ it' = it + 1
    /\ Continue
    /\ UNCHANGED <<part_vect, new_part_start, new_part_end, asked>>

Overlaps ==
    /\ in_loop /\ it <= Len(part_vect)
    /\ new_part_end > CurrentPart.first
    /\ new_part_start <= CurrentPart.second

(* The new part starts at or before the current one and reaches beyond it: *)
(* erase the current part and go on with what lies behind it.              *)
CoversAndPasses ==
    /\ Overlaps
    /\ new_part_start <= CurrentPart.first
    /\ new_part_end > CurrentPart.second
    /\ new_part_start' = CurrentPart.second
    /\ part_vect' = RemoveAt(part_vect, it)
    /\ Continue
    /\ UNCHANGED <<it, new_part_end, asked>>

(* Mutant of CutsFront: a part that is used up stays in the list.          *)
CutsFront_KeepsEmpty ==
    /\ Overlaps
    /\ new_part_start <= CurrentPart.first
    /\ new_part_end <= CurrentPart.second
    /\ part_vect' = ReplaceAt(part_vect, it,
                       [CurrentPart EXCEPT !.first = new_part_end])
    /\ Break
    /\ UNCHANGED <<it, new_part_start, new_part_end, asked>>

(* The new part starts at or before the current one and ends in it: cut    *)
(* the front off, and erase the part when nothing of it is left.           *)
CutsFront ==
    /\ Overlaps
    /\ new_part_start <= CurrentPart.first
    /\ new_part_end <= CurrentPart.second
    /\ part_vect' = IF new_part_end = CurrentPart.second
                      THEN RemoveAt(part_vect, it)
                      ELSE ReplaceAt(part_vect, it,
                             [CurrentPart EXCEPT !.first = new_part_end])
    /\ Break
    /\ UNCHANGED <<it, new_part_start, new_part_end, asked>>

HeadOf(part) == [part EXCEPT !.second = new_part_start]

(* The new part starts inside the current one and reaches beyond it: cut   *)
(* the tail off and go on behind it.                                       *)
CutsTail ==
    /\ Overlaps
    /\ new_part_start > CurrentPart.first
    /\ new_part_end > CurrentPart.second
    /\ part_vect' = ReplaceAt(part_vect, it, HeadOf(CurrentPart))
    /\ new_part_start' = CurrentPart.second
    /\ it' = it + 1
    /\ Continue
    /\ UNCHANGED <<new_part_end, asked>>

(* Mutant of Splits: what lies behind the new part is forgotten.           *)
Splits_ForgetsTail ==
    /\ Overlaps
    /\ new_part_start > CurrentPart.first
    /\ new_part_end <= CurrentPart.second
    /\ part_vect' = ReplaceAt(part_vect, it, HeadOf(CurrentPart))
    /\ Break
    /\ UNCHANGED <<it, new_part_start, new_part_end, asked>>

(* The new part lies inside the current one: split it, unless nothing is   *)
(* left behind the new part.                                               *)
Splits ==
    /\ Overlaps
    /\ new_part_start > CurrentPart.first
    /\ new_part_end <= CurrentPart.second
    /\ LET cut == ReplaceAt(part_vect, it, HeadOf(CurrentPart))
       IN part_vect' = IF new_part_end < CurrentPart.second
                         THEN InsertAt(cut, it + 1,
                                [first |-> new_part_end,
                                 second |-> CurrentPart.second])
                         ELSE cut
    /\ Break
    /\ UNCHANGED <<it, new_part_start, new_part_end, asked>>

(* One turn of the loop of remove_from_part_vect.                          *)
LoopTurn ==
    \/ AtEnd \/ BeforeCurrent \/ AfterCurrent
    \/ CoversAndPasses \/ CutsFront \/ CutsTail \/ Splits

-----------------------------------------------------------------------------
is_parts_empty == part_vect = <<>>

(* Mutant of get_next_part: a full fragment is asked for, however short    *)
(* the missing part is.                                                    *)
get_next_part_Unclamped(size) ==
    /\ ~in_loop /\ ~is_parts_empty
    /\ asked' = [first |-> part_vect[1].first, len |-> size]
    /\ UNCHANGED <<part_vect, it, new_part_start, new_part_end, in_loop>>

(* get_next_part() with max_fragment_size_ = size, as the receiver calls   *)
(* it: only while parts are missing.                                       *)
get_next_part(size) ==
    /\ ~in_loop /\ ~is_parts_empty
    /\ LET part == part_vect[1]
           whole == part.second - part.first
       IN asked' = [first |-> part.first,
                    len |-> IF whole > size THEN size ELSE whole]
    /\ UNCHANGED <<part_vect, it, new_part_start, new_part_end, in_loop>>

Next ==
    \/ \E pos \in 0 .. FullSize - 1 :
         \E len \in 1 .. FullSize - pos : add_data(pos, len)
    \/ \E size \in FragmentSizes : get_next_part(size)
    \/ LoopTurn

(* The loop runs to its end on the caller's thread.                        *)
Spec == Init /\ [][Next]_vars /\ WF_vars(LoopTurn)

-----------------------------------------------------------------------------
(* The bytes the parts of v cover.                                         *)
Covered(v) ==
    {b \in 0 .. FullSize - 1 :
        \E i \in 1 .. Len(v) : v[i].first <= b /\ b < v[i].second}

Asked == [first : 0 .. FullSize, len : 1 .. FullSize] \cup {NoPart}

TypeOK ==
    /\ part_vect \in Seq(Part)
    /\ it \in 1 .. Len(part_vect) + 1
    /\ new_part_start \in 0 .. FullSize
    /\ new_part_end \in 0 .. FullSize
    /\ in_loop \in BOOLEAN
    /\ asked \in Asked

(* The parts of v are not empty, in ascending order, and never touch.      *)
Ordered(v) ==
    /\ \A i \in 1 .. Len(v) : v[i].first < v[i].second
    /\ \A i, j \in 1 .. Len(v) : i < j => v[i].second < v[j].first

(* No split, cut or erase of remove_from_part_vect ever leaves an empty    *)
(* part or two parts out of order or touching, not even between two turns  *)
(* of the loop.                                                            *)
PartsOrdered == Ordered(part_vect)

(* Everything the iterator has passed lies before the rest of the new part,*)
(* so breaking out of the loop early never forgets an overlap.             *)
PassedBefore ==
    in_loop => /\ new_part_start < new_part_end
               /\ \A i \in 1 .. it - 1 : part_vect[i].second <= new_part_start

(* The part asked for is one that is still missing, and it is never empty: *)
(* otherwise the sender would answer a query with bytes the receiver has,  *)
(* and the transfer could go on for ever without progress.                 *)
AskedIsMissing ==
    asked # NoPart =>
       /\ asked.len > 0
       /\ asked.first .. asked.first + asked.len - 1 \subseteq Covered(part_vect)

(* The inductive invariant; a question is forgotten when data arrives.     *)
Inv ==
    /\ TypeOK /\ PartsOrdered /\ PassedBefore /\ AskedIsMissing
    /\ in_loop => asked = NoPart

(* The bytes still missing once the running loop is done: what the loop    *)
(* has yet to cut out is [new_part_start, new_part_end).                   *)
missing ==
    IF in_loop
      THEN Covered(part_vect) \ (new_part_start .. new_part_end - 1)
      ELSE Covered(part_vect)

(* remove_from_part_vect is exact interval subtraction: a fragment removes *)
(* precisely its bytes from the missing ones, whatever the order, overlap  *)
(* or duplication of the fragments that arrive, and no turn of the loop    *)
(* changes what will be missing in the end.                                *)
Abstract == INSTANCE MissingBytes WITH busy <- in_loop
ExactSubtraction == Abstract!Spec

(* Every call of add_data returns, although half of the loop's branches    *)
(* erase under the iterator instead of advancing it.                       *)
LoopEnds == in_loop ~> ~in_loop
=============================================================================
