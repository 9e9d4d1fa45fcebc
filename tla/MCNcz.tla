------------------------------- MODULE MCNcz ---------------------------------
(* Small section tables for Ncz: one section and several, plain and         *)
(* encrypted, ending on a block and inside one; bodies that are shorter     *)
(* than the table says, as long, and longer.                                *)
EXTENDS Ncz

Sec(off, n, ctr) == [offset |-> off, size |-> n, ctr |-> ctr]
MCTables ==
  { <<Sec(3, 7, TRUE)>>,
    <<Sec(3, 3, FALSE), Sec(6, 6, TRUE)>>,
    <<Sec(3, 6, TRUE), Sec(9, 3, FALSE), Sec(12, 5, TRUE)>> }
MCBodies == 0..16
=============================================================================
