------------------------------ MODULE MetaArray ------------------------------
(***************************************************************************)
(* What a metatable used as a numeric array promises its scripts (spec    *)
(* 4.4): a deque of values.  push appends, pop takes the last value,      *)
(* shift prepends, unshift takes the first.  out[s] is the value the last *)
(* removal returned to state s.                                           *)
(***************************************************************************)
EXTENDS Sequences, SequencesExt

CONSTANTS States, Inputs, Nil

VARIABLES arr, out

Init == arr = <<>> /\ out = [s \in States |-> Nil]

Push(v)    == arr' = Append(arr, v) /\ UNCHANGED out
Shift(v)   == arr' = <<v>> \o arr /\ UNCHANGED out
Pop(s)     == /\ arr # <<>>
              /\ out' = [out EXCEPT ![s] = Last(arr)]
              /\ arr' = Front(arr)
Unshift(s) == /\ arr # <<>>
              /\ out' = [out EXCEPT ![s] = Head(arr)]
              /\ arr' = Tail(arr)

Next == \E s \in States :
          \/ Pop(s) \/ Unshift(s)
          \/ \E v \in Inputs : Push(v) \/ Shift(v)

Spec == Init /\ [][Next]_<<arr, out>>
=============================================================================
