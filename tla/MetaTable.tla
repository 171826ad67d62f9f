------------------------------ MODULE MetaTable ------------------------------
(***************************************************************************)
(* The dynamic table engine plua_metatable_* of                           *)
(* src/libs/pilight/lua_c/lua.c: one table (struct plua_metatable_t)       *)
(* shared by several Lua interpreter states.                              *)
(*                                                                         *)
(* Every handler takes node->lock on entry and releases it on return, so   *)
(* each handler is one atomic action.  What interleaves between handlers  *)
(* is the scripts' calls: a len() followed by a pop(), and the next()     *)
(* steps of a pairs() loop, each a separate call.                          *)
(*                                                                         *)
(* node->table is the sequence `cells`; position p is slot p-1.  A cell    *)
(* keeps its key (an integer, or a string key as a model value), the tag  *)
(* of its value, an abstract payload d and, for a string or nested table, *)
(* the heap block `a` holding it (0 for numbers and booleans).  Nested    *)
(* tables are opaque blocks here; their sharing is the concern of the     *)
(* reference-count model.                                                  *)
(***************************************************************************)
EXTENDS Integers, Sequences, SequencesExt, FiniteSets

CONSTANTS
  States,    \* Lua states lua_state[i]; state->idx selects node->iter[]
  NumKeys,   \* numeric keys the scripts index with
  StrKeys,   \* string keys the scripts index with (model values)
  Inputs,    \* values the scripts store: records [type, d]
  Ops,       \* the table methods the scripts call
  CheckLen,  \* scripts call pop()/unshift() only after len() returned > 0
  MaxCells,  \* bound on node->nrvar
  MaxAlloc,  \* heap blocks available for strings and nested tables
  KeyBound,  \* bound on |key| that push/pop/shift/unshift renumbering reaches
  Nil        \* lua_pushnil: no value

VARIABLES
  cells,     \* node->table[0 .. nrvar-1]
  freed,     \* heap blocks released with FREE or plua_metatable_free
  gc,        \* gc[s]: blocks registered with plua_gc_reg on state s
  locked,    \* positions whose cell mutex a returned handler left locked
  hung,      \* a handler blocked forever on a leaked cell mutex
  fault,     \* a handler read node->table past nrvar
  out,       \* out[s]: value the last pop/unshift/index returned to s
  known,     \* known[s]: the length s last read with len()
  iter,      \* node->iter[state->idx]
  iterating, \* s is inside a pairs()/ipairs() loop
  start,     \* history: keys present when s's loop began
  seen       \* history: keys s's loop has returned

tableVars == <<cells, freed, gc, locked, hung, fault>>
iterVars  == <<iter, iterating, start, seen>>
vars      == <<tableVars, out, known, iterVars>>

Keys      == NumKeys \cup StrKeys
IsNum(k)  == k \in Int
Pos       == 1 .. Len(cells)
KeySet    == {cells[i].key : i \in Pos}
ContentKey(c) == c.key
Content(c) == [type |-> c.type, d |-> c.d]

(***************************************************************************)
(* Heap blocks.  STRDUP, plua_metatable_init and plua_metatable_clone take *)
(* a block no live pointer refers to.                                     *)
(***************************************************************************)
Allocates(v) == v.type \in {"string", "table"}
InUse        == {cells[i].a : i \in Pos} \cup UNION {gc[s] : s \in States}
FreeBlocks   == (1 .. MaxAlloc) \ InUse
CanAlloc(v)  == Allocates(v) => FreeBlocks # {}
BlockFor(v)  == IF Allocates(v) THEN Min(FreeBlocks) ELSE 0
NewCell(k, v, a) == [key |-> k, type |-> v.type, d |-> v.d, a |-> a]

\* Model bound: the renumbering of an array step keeps keys within KeyBound.
KeysBounded == \A i \in DOMAIN cells' :
                 IsNum(cells'[i].key) => cells'[i].key \in -KeyBound .. KeyBound

\* The handler's scan takes the mutex of each of the first n cells.
Blocks(n) == locked \cap 1 .. n # {}

(***************************************************************************)
(* Array helpers of push/pop/shift/unshift.                               *)
(***************************************************************************)
\* Any string key makes these methods raise "only works on numeric arrays".
NumericOnly == \A i \in Pos : IsNum(cells[i].key)

\* push: int max = 0; if(key > max) max = key;
MaxKey == Max({0} \cup KeySet)

\* pop: the scan keeps the last slot with key >= max; slot 0 if none.
PopIdx == IF MaxKey \in KeySet
          THEN Max({i \in Pos : cells[i].key = MaxKey}) ELSE 1

\* unshift: the last slot with key 1; minidx stays 0 when none has it.
UnshiftIdx == IF 1 \in KeySet THEN Max({i \in Pos : cells[i].key = 1}) ELSE 1

(***************************************************************************)
(* The loop `for(i=idx;i<nrvar-1;i++)` shared by pop, unshift and the nil *)
(* branch of parse_set, then nrvar--: slot i takes the key of slot i+1    *)
(* (less dec when numeric) and its value, except a boolean value, for     *)
(* which the switch has no case, so slot i keeps its own.                 *)
(***************************************************************************)
CloseGapNoString(cs, p, dec) ==
  [j \in 1 .. Len(cs) - 1 |->
     IF j < p THEN cs[j]
     ELSE LET nx == cs[j + 1]
              v  == IF nx.type \in {"boolean", "string"} THEN cs[j] ELSE nx
          IN  [v EXCEPT !.key = IF IsNum(nx.key) THEN nx.key - dec ELSE nx.key]]
CloseGapNoDec(cs, p, dec) ==
  [j \in 1 .. Len(cs) - 1 |->
     IF j < p THEN cs[j]
     ELSE LET nx == cs[j + 1]
              v  == IF nx.type = "boolean" THEN cs[j] ELSE nx
          IN  [v EXCEPT !.key = nx.key]]
CloseGapDecAlways(cs, p, dec) ==
  [j \in 1 .. Len(cs) - 1 |->
     IF j < p THEN cs[j]
     ELSE LET nx == cs[j + 1]
              v  == IF nx.type = "boolean" THEN cs[j] ELSE nx
          IN  [v EXCEPT !.key = IF IsNum(nx.key) THEN nx.key - 1 ELSE nx.key]]
CloseGapSkip(cs, p, dec) ==
  [j \in 1 .. Len(cs) - 1 |->
     IF j <= p THEN cs[j]
     ELSE LET nx == cs[j + 1]
              v  == IF nx.type = "boolean" THEN cs[j] ELSE nx
          IN  [v EXCEPT !.key = IF IsNum(nx.key) THEN nx.key - dec ELSE nx.key]]
CloseGap(cs, p, dec) ==
  [j \in 1 .. Len(cs) - 1 |->
     IF j < p THEN cs[j]
     ELSE LET nx == cs[j + 1]
              v  == IF nx.type = "boolean" THEN cs[j] ELSE nx
          IN  [v EXCEPT !.key = IF IsNum(nx.key) THEN nx.key - dec ELSE nx.key]]

\* The scan of index and parse_set stops at the first matching cell.
MatchStrless(k) == {i \in Pos : IsNum(k) /\ cells[i].key = k}
Match(k)    == {i \in Pos : cells[i].key = k}
Extent(k)   == IF Match(k) # {} THEN Min(Match(k)) ELSE Len(cells)
Lookup(k)   == IF Match(k) # {} THEN Content(cells[Min(Match(k))]) ELSE Nil

(***************************************************************************)
(* Initial state: plua_metatable_init, an empty table; no script has a    *)
(* loop open or a value on its stack.                                     *)
(***************************************************************************)
Init ==
  /\ cells = <<>>
  /\ freed = {}
  /\ gc = [s \in States |-> {}]
  /\ locked = {}
  /\ hung = FALSE
  /\ fault = FALSE
  /\ out = [s \in States |-> Nil]
  /\ known = [s \in States |-> 0]
  /\ iter = [s \in States |-> 0]
  /\ iterating = [s \in States |-> FALSE]
  /\ start = [s \in States |-> {}]
  /\ seen = [s \in States |-> {}]

(***************************************************************************)
(* plua_metatable_len: nrvar, read under node->lock.                      *)
(***************************************************************************)
Length(s) ==
  /\ "len" \in Ops
  /\ known' = [known EXCEPT ![s] = Len(cells)]
  /\ UNCHANGED <<tableVars, out, iterVars>>

(***************************************************************************)
(* plua_metatable_push: append a cell keyed max+1.  The new slot's mutex  *)
(* is initialised afresh.                                                 *)
(***************************************************************************)
Push(s, v) ==
  /\ "push" \in Ops
  /\ NumericOnly
  /\ Len(cells) < MaxCells
  /\ CanAlloc(v)
  /\ ~Blocks(Len(cells))
  /\ LET a == BlockFor(v) IN
       /\ cells' = Append(cells, NewCell(MaxKey + 1, v, a))
       /\ KeysBounded
       /\ freed' = freed \ {a}
  /\ locked' = locked \ {Len(cells) + 1}
  /\ UNCHANGED <<gc, hung, fault, out, known, iterVars>>

(***************************************************************************)
(* The common tail of pop and unshift: the value of slot p goes on the    *)
(* stack (a string is copied by lua_pushstring, then FREEd; a nested      *)
(* table is handed to the state by push_plua_metatable and plua_gc_reg),  *)
(* then the gap is closed with keys renumbered by -1.                     *)
(***************************************************************************)
ExtractRegAny(s, p) ==
  LET c == cells[p] IN
  /\ out' = [out EXCEPT ![s] = Content(c)]
  /\ known' = [known EXCEPT ![s] = 0]
  /\ freed' = IF c.type = "string" THEN freed \cup {c.a} ELSE freed
  /\ gc' = [gc EXCEPT ![s] = @ \cup {c.a}]
  /\ cells' = CloseGap(cells, p, 1)
  /\ KeysBounded
  /\ UNCHANGED <<locked, hung, fault, iterVars>>
Extract(s, p) ==
  LET c == cells[p] IN
  /\ out' = [out EXCEPT ![s] = Content(c)]
  /\ known' = [known EXCEPT ![s] = 0]
  /\ freed' = IF c.type = "string" THEN freed \cup {c.a} ELSE freed
  /\ gc' = IF c.type = "table" THEN [gc EXCEPT ![s] = @ \cup {c.a}] ELSE gc
  /\ cells' = CloseGap(cells, p, 1)
  /\ KeysBounded
  /\ UNCHANGED <<locked, hung, fault, iterVars>>

\* A script that checks len() first calls pop()/unshift() only after a
\* positive answer, and checks again before the next call.
MayRemove(s) == CheckLen => known[s] > 0

(***************************************************************************)
(* plua_metatable_pop: remove the cell with the largest key.              *)
(***************************************************************************)
Pop(s) ==
  /\ "pop" \in Ops
  /\ MayRemove(s)
  /\ NumericOnly
  /\ Len(cells) > 0
  /\ ~Blocks(Len(cells))
  /\ Extract(s, PopIdx)

(***************************************************************************)
(* plua_metatable_unshift: remove the cell keyed 1 (slot 0 if none).      *)
(***************************************************************************)
Unshift(s) ==
  /\ "unshift" \in Ops
  /\ MayRemove(s)
  /\ NumericOnly
  /\ Len(cells) > 0
  /\ ~Blocks(Len(cells))
  /\ Extract(s, UnshiftIdx)

(***************************************************************************)
(* pop and unshift on an empty table: maxidx/minidx stay 0 and the        *)
(* handler reads node->table[0], past nrvar, then sets nrvar to -1.       *)
(***************************************************************************)
RemoveEmpty(s) ==
  /\ {"pop", "unshift"} \cap Ops # {}
  /\ MayRemove(s)
  /\ Len(cells) = 0
  /\ fault' = TRUE
  /\ UNCHANGED <<cells, freed, gc, locked, hung, out, known, iterVars>>

(***************************************************************************)
(* plua_metatable_shift: every key + 1, then a cell keyed 1 is appended   *)
(* at the end of node->table.                                             *)
(***************************************************************************)
Shift(s, v) ==
  /\ "shift" \in Ops
  /\ NumericOnly
  /\ Len(cells) < MaxCells
  /\ CanAlloc(v)
  /\ ~Blocks(Len(cells))
  /\ LET a == BlockFor(v) IN
       /\ cells' = Append([i \in Pos |-> [cells[i] EXCEPT !.key = @ + 1]],
                          NewCell(1, v, a))
       /\ KeysBounded
       /\ freed' = freed \ {a}
  /\ locked' = locked \ {Len(cells) + 1}
  /\ UNCHANGED <<gc, hung, fault, out, known, iterVars>>
(***************************************************************************)
(* plua_metatable_parse_set (t[k] = v, __newindex), by its branches.      *)
(* A string or table value is copied into a fresh block; nested tables   *)
(* built from a Lua table or cloned from a metatable alike.              *)
(***************************************************************************)
\* k matches a cell and v is not nil: free the old payload, store v.
SetExisting(s, k, v) ==
  /\ "set" \in Ops
  /\ Match(k) # {}
  /\ CanAlloc(v)
  /\ LET p == Min(Match(k))
         c == cells[p]
         a == BlockFor(v)
     IN  /\ ~Blocks(p)
         /\ cells' = [cells EXCEPT ![p] = NewCell(c.key, v, a)]
         /\ freed' = (IF Allocates(c) THEN freed \cup {c.a} ELSE freed) \ {a}
  /\ UNCHANGED <<gc, locked, hung, fault, out, known, iterVars>>

\* No cell matches and v is not nil: append a cell keyed k.
SetNew(s, k, v) ==
  /\ "set" \in Ops
  /\ Match(k) = {}
  /\ Len(cells) < MaxCells
  /\ CanAlloc(v)
  /\ ~Blocks(Len(cells))
  /\ LET a == BlockFor(v) IN
       /\ cells' = Append(cells, NewCell(k, v, a))
       /\ freed' = freed \ {a}
  /\ locked' = locked \ {Len(cells) + 1}
  /\ UNCHANGED <<gc, hung, fault, out, known, iterVars>>

\* t[k] = nil on a cell whose value is not a table: free the key and the
\* string, close the gap; keys keep their numbers (no renumbering).
Delete(s, k) ==
  /\ "delete" \in Ops
  /\ Match(k) # {}
  /\ LET p == Min(Match(k))
         c == cells[p]
     IN  /\ c.type # "table"
         /\ ~Blocks(Len(cells))
         /\ cells' = CloseGap(cells, p, 0)
         /\ freed' = IF c.type = "string" THEN freed \cup {c.a} ELSE freed
  /\ UNCHANGED <<gc, locked, hung, fault, out, known, iterVars>>

\* t[k] = nil on a cell holding a nested table: the table is freed but the
\* branch neither closes the gap nor unlocks the cell's mutex; nrvar-- then
\* drops the last cell.
DeleteTable(s, k) ==
  /\ "delete" \in Ops
  /\ Match(k) # {}
  /\ LET p == Min(Match(k))
         c == cells[p]
     IN  /\ c.type = "table"
         /\ ~Blocks(p)
         /\ cells' = Front(cells)
         /\ freed' = freed \cup {c.a}
         /\ locked' = locked \cup {p}
  /\ UNCHANGED <<gc, hung, fault, out, known, iterVars>>

(***************************************************************************)
(* plua_metatable_index (t[k], __index): the value of the first cell      *)
(* matching k, or nil.  A nested table is returned through                *)
(* push_plua_metatable, whose reference is dropped again when the state   *)
(* is cleared; the net count is left to the reference-count model.        *)
(***************************************************************************)
Index(s, k) ==
  /\ "index" \in Ops
  /\ ~Blocks(Extent(k))
  /\ out' = [out EXCEPT ![s] = Lookup(k)]
  /\ UNCHANGED <<tableVars, known, iterVars>>

(***************************************************************************)
(* plua_metatable_pairs / _ipairs: node->iter[state->idx] = 0.            *)
(***************************************************************************)
Pairs(s) ==
  /\ "pairs" \in Ops
  /\ ~iterating[s]
  /\ iter' = [iter EXCEPT ![s] = 0]
  /\ iterating' = [iterating EXCEPT ![s] = TRUE]
  /\ start' = [start EXCEPT ![s] = KeySet]
  /\ seen' = [seen EXCEPT ![s] = {}]
  /\ UNCHANGED <<tableVars, out, known>>

(***************************************************************************)
(* plua_metatable_next: iter = node->iter[idx]++; the pair of slot iter   *)
(* if iter < nrvar, nil (end of loop) otherwise.                          *)
(***************************************************************************)
NextPair(s) ==
  /\ iterating[s]
  /\ iter[s] < Len(cells)
  /\ iter[s] + 1 \notin locked
  /\ iter' = [iter EXCEPT ![s] = @ + 1]
  /\ seen' = [seen EXCEPT ![s] = @ \cup {cells[iter[s] + 1].key}]
  /\ UNCHANGED <<tableVars, out, known, iterating, start>>

NextEnd(s) ==
  /\ iterating[s]
  /\ iter[s] >= Len(cells)
  /\ iter' = [iter EXCEPT ![s] = @ + 1]
  /\ iterating' = [iterating EXCEPT ![s] = FALSE]
  /\ UNCHANGED <<tableVars, out, known, start, seen>>

(***************************************************************************)
(* _plua_clear_state: the state's gc callbacks run; for a table popped    *)
(* off this one (push_plua_metatable posted the semaphore once, two       *)
(* plua_metatable_unref were registered) the second unref frees it.       *)
(***************************************************************************)
ClearState(s) ==
  /\ gc[s] # {}
  /\ freed' = freed \cup gc[s]
  /\ gc' = [gc EXCEPT ![s] = {}]
  /\ UNCHANGED <<cells, locked, hung, fault, out, known, iterVars>>

(***************************************************************************)
(* The next handler whose scan reaches a leaked cell mutex blocks in      *)
(* uv_mutex_lock while holding node->lock: the table is dead.             *)
(***************************************************************************)
Hang(s) ==
  /\ locked \cap Pos # {}
  /\ hung' = TRUE
  /\ UNCHANGED <<cells, freed, gc, locked, fault, out, known, iterVars>>

Next ==
  /\ ~hung
  /\ ~fault
  /\ \E s \in States :
       \/ Length(s) \/ Pop(s) \/ Unshift(s) \/ RemoveEmpty(s)
       \/ Pairs(s) \/ NextPair(s) \/ NextEnd(s) \/ ClearState(s) \/ Hang(s)
       \/ \E v \in Inputs : Push(s, v) \/ Shift(s, v)
       \/ \E k \in Keys :
            \/ Index(s, k) \/ Delete(s, k) \/ DeleteTable(s, k)
            \/ \E v \in Inputs : SetExisting(s, k, v) \/ SetNew(s, k, v)

Spec == Init /\ [][Next]_vars

-----------------------------------------------------------------------------
(***************************************************************************)
(* JSON conversion: plua_metatable_to_json and plua_json_to_table.  Pure  *)
(* functions of the cells; a nested table value stays opaque (its own     *)
(* conversion is this one, one level down).  A JSON object is the         *)
(* sequence of its members <<name, value>> as json_append_member appends *)
(* them; a JSON array the sequence of its elements.                       *)
(***************************************************************************)
\* The string holding the decimal digits of the number x.
DecStr(x) == [dec |-> x]

RECURSIVE Digits(_)
Digits(n) == IF n < 10 THEN 1 ELSE 1 + Digits(n \div 10)

\* snprintf("%g", (float)key): six significant digits, the exact tie
\* rounded to even; the number the string denotes.  Keys are integers
\* below 2^24, so the float cast is exact.
FmtG(n) ==
  LET a == IF n < 0 THEN -n ELSE n
      q == 10 ^ (Digits(a) - 6)
      m == a \div q
      up == 2 * (a % q) > q \/ (2 * (a % q) = q /\ m % 2 = 1)
      r == IF Digits(a) <= 6 THEN a ELSE (m + (IF up THEN 1 ELSE 0)) * q
  IN  IF n < 0 THEN -r ELSE r

\* mkobject: any string key makes the whole table an object.
MkObject(cs) == \E i \in DOMAIN cs : ~IsNum(cs[i].key)

\* The member name of a cell of an object: the %g string of a number key.
MemberName(k) == IF IsNum(k) THEN DecStr(FmtG(k)) ELSE k

\* plua_metatable_to_json: members in cell order for an object, values in
\* cell order (keys dropped) for an array.
ToJson(cs) ==
  IF MkObject(cs)
  THEN [tag |-> "object",
        items |-> [i \in DOMAIN cs |-> <<MemberName(cs[i].key), Content(cs[i])>>]]
  ELSE [tag |-> "array",
        items |-> [i \in DOMAIN cs |-> <<i, Content(cs[i])>>]]

\* A boolean member: the switch pushes no value and lua_settable(L, -3)
\* takes the key as value and a slot below the new table as the table.
BadStack == "lua_settable without a value"

HasBool(j) == \E i \in DOMAIN j.items : j.items[i][2].type = "boolean"

\* plua__json_to_table on a tree without booleans: lua_pushstring(key) for
\* a member, lua_pushnumber(++i) for an element, then lua_settable; a
\* later equal key overwrites.
JsonToLuaFromZero(j) ==
  FoldLeft(LAMBDA f, it : (it[1] :> it[2]) @@ f, [x \in {} |-> Nil],
           [i \in DOMAIN j.items |->
              <<IF j.tag = "object" THEN j.items[i][1] ELSE i - 1, j.items[i][2]>>])
JsonToLua(j) ==
  FoldLeft(LAMBDA f, it : (it[1] :> it[2]) @@ f, [x \in {} |-> Nil],
           [i \in DOMAIN j.items |->
              <<IF j.tag = "object" THEN j.items[i][1] ELSE i, j.items[i][2]>>])

\* plua_json_to_table into a fresh table: lua_next over the Lua table and
\* plua_metatable_parse_set of each pair; the cells are its key/value pairs.
JsonToTable(j) ==
  IF HasBool(j) THEN BadStack
  ELSE LET t == JsonToLua(j) IN {<<k, t[k]>> : k \in DOMAIN t}

-----------------------------------------------------------------------------
(***************************************************************************)
(* Properties                                                             *)
(***************************************************************************)
Cell == [key : Keys \cup (-KeyBound .. KeyBound), type : {"number", "string", "boolean", "table"},
         d : {i.d : i \in Inputs}, a : 0 .. MaxAlloc]

TypeOK ==
  /\ cells \in Seq(Cell) /\ Len(cells) <= MaxCells
  /\ freed \subseteq 1 .. MaxAlloc
  /\ gc \in [States -> SUBSET (1 .. MaxAlloc)]
  /\ locked \subseteq 1 .. MaxCells
  /\ hung \in BOOLEAN /\ fault \in BOOLEAN
  /\ out \in [States -> Inputs \cup {Nil}]
  /\ known \in [States -> 0 .. MaxCells]
  /\ iter \in [States -> 0 .. MaxCells + 1]
  /\ iterating \in [States -> BOOLEAN]

\* No two cells of node->table carry equal keys (spec 3, "uniqueness"):
\* the linear scans of index and parse_set only ever see the first one.
KeysUnique ==
  \A i, j \in Pos : i # j => cells[i].key # cells[j].key

\* No cell still points at a string or nested table that a free, an unref
\* or a gc callback has released: a later read would be a use-after-free.
NoDangling ==
  \A i \in Pos : cells[i].a \notin freed

\* A table used only as a numeric array keeps the keys 1 .. nrvar after
\* any sequence of push/pop/shift/unshift (spec 3 and 8.2).
ArrayContiguous ==
  NumericOnly => KeySet = 1 .. Len(cells)

\* pop and unshift never read node->table past nrvar: on an empty table
\* they return nil (spec 4.4).
NoEmptyRead == ~fault

\* Every pairs() loop returns each key that was present when it began and
\* is still present when it ends (spec 8.8: each consumer observes the full
\* cell sequence, whatever the other states do).
IterationComplete ==
  [][\A s \in States :
       (iterating[s] /\ ~iterating'[s]) => (start[s] \cap KeySet) \subseteq seen[s]
    ]_vars

\* A table without boolean values comes back from plua_json_to_table
\* (plua_metatable_to_json(t)) with the same key/value pairs (spec 8.6);
\* the one change spec 4.6 allows is that a numeric key of a table with a
\* string key returns as the string of its decimal digits.
JsonRoundTrip ==
  LET readBack(k) == IF MkObject(cells) /\ IsNum(k) THEN DecStr(k) ELSE k IN
  (\A i \in Pos : cells[i].type # "boolean") =>
    JsonToTable(ToJson(cells)) = {<<readBack(cells[i].key), Content(cells[i])>> : i \in Pos}
=============================================================================
