--------------------------------- MODULE Log ---------------------------------
(***************************************************************************)
(* The SD log (log/log.cpp): a line is formatted into a buffer of Buf      *)
(* bytes, a newline is put behind it, and it is appended to the file,      *)
(* which is opened and closed for every line.  init truncates the file.    *)
(* The file is a sequence of what each line left in it.                    *)
(***************************************************************************)
EXTENDS Integers, Sequences, FiniteSets, FiniteSetsExt

CONSTANT Buf    \* sizeof buf in line()

ASSUME BufAssumption == Buf \in Nat /\ Buf > 3

VARIABLES logFile

(* vsnprintf(buf, sizeof buf - 2, ...) of a text of n characters: at most   *)
(* Buf - 3 of them and the NUL.                                            *)
Printed(n) ==
  LET end == Min({n, Buf - 3})
  IN [k \in 0..Buf - 1 |-> IF k < end THEN "text" ELSE IF k = end THEN "nul" ELSE "stale"]

(* line: the newline goes to len, which is what vsnprintf returned, or the *)
(* limit where that is more.                                               *)
LimitTooLow == Buf - 4
Limit == Buf - 2
Terminated(n) ==
  LET len == Min({n, Limit})
  IN [Printed(n) EXCEPT ![len] = "newline", ![len + 1] = "nul"]

(* fputs: everything before the first NUL. *)
Emitted(n) ==
  LET buf == Terminated(n)
      put == {k \in DOMAIN buf : \A j \in 0..k : buf[j] # "nul"}
  IN [text |-> Cardinality({k \in put : buf[k] = "text"}),
      newline |-> \E k \in put : buf[k] = "newline",
      stale |-> \E k \in put : buf[k] = "stale"]

(* emit: a line that had n characters is appended, or the file cannot be   *)
(* opened and the line is lost.  by says who wrote it, which the file does *)
(* not: it is there for the properties only.                               *)
Entry(by, n) ==
  [by |-> by, long |-> n, text |-> Emitted(n).text, newline |-> Emitted(n).newline,
   stale |-> Emitted(n).stale]
LogLine(by, n) == logFile' = Append(logFile, Entry(by, n))

(* init. *)
LogInit(by, n) == logFile' = <<Entry(by, n)>>

(* A line that fits the buffer is in the file whole and ends in a newline; *)
(* a longer one is there up to the limit; nothing uninitialized is put.    *)
LinesWhole ==
  \A k \in DOMAIN logFile :
    LET l == logFile[k]
    IN /\ ~l.stale
       /\ l.long <= Buf - 3 => l.text = l.long /\ l.newline
       /\ l.text >= Min({l.long, Buf - 3})

(* log/log.h:19 promises a "printf-style line".  A text of Buf - 2          *)
(* characters or more leaves its NUL in front of the newline, which is not *)
(* put: the next line goes on in the same one.                             *)
EveryLineEnds == \A k \in DOMAIN logFile : logFile[k].newline
=============================================================================
