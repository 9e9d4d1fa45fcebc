---------------------------- MODULE PrefixWriter -----------------------------
(***************************************************************************)
(* What a writer of a placeholder promises: at every moment the part that  *)
(* is written is a prefix, it only grows, and after the end it is left     *)
(* alone.  NcaWriteSink (crypto/ncz.h) asks for "sequential, ascending"    *)
(* writes.                                                                 *)
(***************************************************************************)
EXTENDS Naturals

VARIABLES upTo,    \* offsets 0 .. upTo-1 are written
          ended

vars == <<upTo, ended>>

Init == upTo = 0 /\ ended = FALSE

Append == ~ended /\ upTo' \in Nat /\ upTo' > upTo /\ UNCHANGED ended

End == ~ended /\ ended' = TRUE /\ UNCHANGED upTo

Next == Append \/ End

Spec == Init /\ [][Next]_vars
=============================================================================
