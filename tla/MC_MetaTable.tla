---------------------------- MODULE MC_MetaTable ----------------------------
(***************************************************************************)
(* Instantiates MetaTable for TLC and maps it onto the two abstract views *)
(* of a table: the numeric array (MetaArray) and the map (MetaMap).       *)
(***************************************************************************)
EXTENDS MetaTable, TLC

CONSTANTS vN1, vN2, vS, vB, vT   \* payloads of the values scripts store
CONSTANTS st1, st2, k1          \* Lua states and a string key

Num   == {[type |-> "number", d |-> vN1], [type |-> "number", d |-> vN2]}
Str   == {[type |-> "string", d |-> vS]}
Bool  == {[type |-> "boolean", d |-> vB]}
Table == {[type |-> "table", d |-> vT]}

NumStr          == Num \cup Str
NumStrTable     == Num \cup Str \cup Table
NumStrBool      == Num \cup Str \cup Bool

\* The array a script sees: the values in key order (ipairs order).
ArrayView ==
  LET sorted == SortSeq(cells, LAMBDA x, y : x.key < y.key)
  IN  [i \in 1 .. Len(sorted) |-> Content(sorted[i])]

\* The map a script sees: each key with the value t[k] returns.
MapView == [k \in KeySet |-> Lookup(k)]

Array == INSTANCE MetaArray WITH arr <- ArrayView
Map   == INSTANCE MetaMap WITH map <- MapView

\* The table, used as a numeric array, behaves as a deque: every
\* push/pop/shift/unshift is the abstract operation on the values in key
\* order, and pop/unshift return the last/first of them.
ArraySpec == Array!Spec

\* The table, used with t[k] = v, t[k] = nil and t[k], behaves as a map:
\* a delete removes exactly the key given, and a read returns the value
\* last stored under it.
MapSpec == Map!Spec
=============================================================================
