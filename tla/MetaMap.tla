------------------------------ MODULE MetaMap ------------------------------
(***************************************************************************)
(* What a metatable used as an associative table promises (spec 4.2,      *)
(* 4.3): a finite map from keys to values.  t[k] = v sets, t[k] = nil     *)
(* removes, t[k] reads into out[s].                                       *)
(***************************************************************************)
EXTENDS Functions

CONSTANTS States, Keys, Inputs, Nil

VARIABLES map, out

Init == map = [k \in {} |-> Nil] /\ out = [s \in States |-> Nil]

Set(k, v) == map' = [x \in DOMAIN map \cup {k} |-> IF x = k THEN v ELSE map[x]]
             /\ UNCHANGED out
Delete(k) == k \in DOMAIN map
             /\ map' = Restrict(map, DOMAIN map \ {k})
             /\ UNCHANGED out
Get(s, k) == out' = [out EXCEPT ![s] = IF k \in DOMAIN map THEN map[k] ELSE Nil]
             /\ UNCHANGED map

Next == \E s \in States, k \in Keys :
          \/ Get(s, k) \/ Delete(k)
          \/ \E v \in Inputs : Set(k, v)

Spec == Init /\ [][Next]_<<map, out>>
=============================================================================
