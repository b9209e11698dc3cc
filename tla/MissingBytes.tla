---------------------------- MODULE MissingBytes ----------------------------
(***************************************************************************)
(* What Fragmented_Message promises to Protocol: it knows exactly which    *)
(* bytes of the message have not arrived yet, and the part it asks for     *)
(* next is a non-empty run of them that starts at the lowest one.  A call  *)
(* of add_data takes effect when it begins and changes nothing after that. *)
(***************************************************************************)
EXTENDS Naturals

CONSTANTS FullSize,        \* full_size of the message
          FragmentSizes,   \* the values max_fragment_size_ may have
          NoPart           \* "no part has been asked for"

VARIABLES missing,         \* the bytes that have not arrived
          asked,           \* the part asked for last, or NoPart
          busy             \* a call of add_data is running

Bytes == 0 .. FullSize - 1

Init == missing = Bytes /\ asked = NoPart /\ busy = FALSE

(* A fragment arrives: its bytes are no longer missing, and nothing else   *)
(* changes.                                                                *)
Add(pos, len) ==
    /\ ~busy /\ busy' = TRUE
    /\ missing' = missing \ (pos .. pos + len - 1)
    /\ asked' = NoPart

(* The call returns.                                                       *)
Return == busy /\ busy' = FALSE /\ UNCHANGED <<missing, asked>>

(* The next part is asked for: as much of the lowest missing run as fits   *)
(* one fragment.                                                           *)
Ask(size) ==
    /\ ~busy /\ missing # {}
    /\ \E pos \in missing, len \in 1 .. size :
        /\ \A b \in missing : pos <= b
        /\ pos .. pos + len - 1 \subseteq missing
        /\ len < size => pos + len \notin missing
        /\ asked' = [first |-> pos, len |-> len]
    /\ UNCHANGED <<missing, busy>>

Next ==
    \/ \E pos \in Bytes : \E len \in 1 .. FullSize - pos : Add(pos, len)
    \/ \E size \in FragmentSizes : Ask(size)
    \/ Return

Spec == Init /\ [][Next]_<<missing, asked, busy>>
=============================================================================
