------------------------------- MODULE MCApp ---------------------------------
(* App with lines that fit the log buffer, just so and not. *)
EXTENDS App
MCLineLens == {2, 3, 5}
=============================================================================
