------------------------------- MODULE Keyset --------------------------------
(***************************************************************************)
(* prod.keys as Keyset::parse (crypto/keyset.cpp) takes it: line by line,  *)
(* each key decoded straight into the set, whether its line is whole or    *)
(* not.  A key is told apart only by whether it is the console's: "zero"   *)
(* when no line gave it, "wrong" when it has other bytes.                  *)
(***************************************************************************)
EXTENDS Integers, Sequences

CONSTANTS MaxGen,      \* MAX_GEN: key generations kept
          KeyFiles,    \* the prod.keys the card may hold: sequences of lines
          NoKeyset     \* no keys: the null pointer

KeyTables == {"application", "ocean", "system"}
KeyStates == {"zero", "right", "wrong"}

(* A line with a name and a value.  "other" are titlekek and master_key,   *)
(* which nothing looks at but the count, "unknown" is any other name, and  *)
(* a line is cut when its value has too few hexadecimal digits.            *)
Lines == [name : KeyTables \cup {"header_key", "other", "unknown"}, gen : Nat,
          value : KeyStates \ {"zero"}, cut : BOOLEAN]

ASSUME MaxGenAssumption == MaxGen \in Nat
ASSUME KeyFilesAssumption == KeyFiles \subseteq Seq(Lines)

(* A new Keyset. *)
EmptyKeyset == [header |-> "zero", hasHeader |-> FALSE, count |-> 0,
                kak |-> [t \in KeyTables, g \in 0..MaxGen - 1 |-> "zero"]]

(* hexDecode into a key that holds old: a cut line overwrites a part of it. *)
HexDecode(old, l) == IF l.cut /\ l.value # old THEN "wrong" ELSE l.value

(* Names of a generation that is not kept are no names of keys. *)
IsKeyLine(l) == l.name = "header_key" \/ (l.name # "unknown" /\ l.gen < MaxGen)

(* One line.  Only a whole one is counted, and only a whole header_key     *)
(* sets has_header_key, which nothing sets back.                           *)
ReadLine(ks, l) ==
  [header    |-> IF l.name = "header_key" THEN HexDecode(ks.header, l) ELSE ks.header,
   hasHeader |-> ks.hasHeader \/ (l.name = "header_key" /\ ~l.cut),
   count     |-> IF IsKeyLine(l) /\ ~l.cut THEN ks.count + 1 ELSE ks.count,
   kak       |-> IF IsKeyLine(l) /\ l.name \in KeyTables
                 THEN [ks.kak EXCEPT ![<<l.name, l.gen>>] = HexDecode(@, l)] ELSE ks.kak]

Parse(file) ==
  LET after[n \in 0..Len(file)] ==
        IF n = 0 THEN EmptyKeyset ELSE ReadLine(after[n - 1], file[n])
  IN after[Len(file)]

(* What every caller asks of load before it uses the keys. *)
Usable(ks) == ks.count > 0 /\ ks.hasHeader

(* The keys an operation may have at hand. *)
Keysets == {ks \in {Parse(f) : f \in KeyFiles} : Usable(ks)} \cup {NoKeyset}

=============================================================================
