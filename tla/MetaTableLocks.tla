--------------------------- MODULE MetaTableLocks ---------------------------
(***************************************************************************)
(* The order in which the metatable code of src/libs/pilight/lua_c/lua.c  *)
(* takes the node->lock mutexes of nested metatables, with Threads        *)
(* running Lua states that hold handles to the same tables.               *)
(*                                                                         *)
(* Every method takes node->lock of the table it is called on.  Two        *)
(* functions walk a nesting while they hold it: plua_metatable_clone      *)
(* locks its source, then clones each nested table in cell order, and     *)
(* plua_metatable_free locks the table and, when uv_sem_trywait finds the *)
(* semaphore at 0, frees each nested table the same way.                  *)
(* plua_metatable_parse_set runs both under the lock of the table it      *)
(* writes to: it frees the table a key held, and for a value that is a    *)
(* metatable handle it clones the handle's table into the cell.           *)
(*                                                                         *)
(* Only lock order is modelled.  Cells are locked only under their        *)
(* table's node->lock, so they add no order of their own; the table a     *)
(* clone writes to is allocated by the clone and no other thread can      *)
(* reach it before the clone returns.  The nesting of Tables is a         *)
(* snapshot (Cells); the copies clone makes are fresh tables outside it.  *)
(***************************************************************************)
EXTENDS Naturals, Sequences, FiniteSets
LOCAL INSTANCE SequencesExt
LOCAL INSTANCE Graphs

CONSTANTS
  Threads,    \* threads running a Lua state
  Tables,     \* metatables the scripts hold handles to
  Cells,      \* per table: the nested tables of its cells, in cell order
  Assign,     \* pairs <<t, v>>: scripts run t[k] = h with h a handle of v
  None

\* A nesting is a forest: no table is nested in itself.
RECURSIVE Nested(_)
Nested(t) == UNION {{Cells[t][i]} \cup Nested(Cells[t][i]) : i \in DOMAIN Cells[t]}

ASSUME /\ \A t \in Tables : t \notin Nested(t)
       /\ Assign \subseteq Tables \X Tables

VARIABLES
  owner,   \* per table: the thread holding its node->lock, or None
  prog     \* per thread: the lock and unlock calls its current call has left

vars == <<owner, prog>>

Lock(t) == [op |-> "lock", t |-> t]
Unlock(t) == [op |-> "unlock", t |-> t]

(***************************************************************************)
(* plua_metatable_clone(&a, &dst): lock dst (new), lock a, clone every     *)
(* nested table of a into dst's cell, unlock dst, unlock a.                *)
(***************************************************************************)
RECURSIVE CloneSeq(_)
CloneSeq(a) ==
  <<Lock(a)>>
  \o FlattenSeq([i \in DOMAIN Cells[a] |-> CloneSeq(Cells[a][i])])
  \o <<Unlock(a)>>

(***************************************************************************)
(* plua_metatable_free(t): lock t; when trywait finds the semaphore at 0   *)
(* (t \in last) free every nested table in cell order and destroy t;       *)
(* otherwise just unlock.                                                  *)
(***************************************************************************)
RECURSIVE FreeSeq(_, _)
FreeSeq(t, last) ==
  <<Lock(t)>>
  \o (IF t \in last
        THEN FlattenSeq([i \in DOMAIN Cells[t] |-> FreeSeq(Cells[t][i], last)])
        ELSE <<>>)
  \o <<Unlock(t)>>

Init ==
  /\ owner = [t \in Tables |-> None]
  /\ prog = [w \in Threads |-> <<>>]

Idle(w) == prog[w] = <<>>

Call(w, seq) ==
  /\ Idle(w)
  /\ prog' = [prog EXCEPT ![w] = seq]
  /\ UNCHANGED owner

-----------------------------------------------------------------------------
(***************************************************************************)
(* The calls a script makes.                                               *)
(***************************************************************************)

\* len, push, pop, shift, unshift, __index, next: node->lock alone.
Method(w, t) == Call(w, <<Lock(t), Unlock(t)>>)

\* t[k] = number, string, boolean or nil where the cell holds table c:
\* plua_metatable_free(c) under t's lock.
SetOverwrite(w, t, i) ==
  \E last \in SUBSET Tables :
    Call(w, <<Lock(t)>> \o FreeSeq(Cells[t][i], last) \o <<Unlock(t)>>)

\* t[k] = h, h a metatable handle (its __call gives the table v): under
\* t's lock free the table the cell held (if any), then clone v into it.
SetTable(w, t, v) ==
  /\ <<t, v>> \in Assign
  /\ \/ Call(w, <<Lock(t)>> \o CloneSeq(v) \o <<Unlock(t)>>)
     \/ \E i \in DOMAIN Cells[t], last \in SUBSET Tables :
          Call(w, <<Lock(t)>> \o FreeSeq(Cells[t][i], last) \o CloneSeq(v)
                  \o <<Unlock(t)>>)

\* _plua_clear_state running plua_metatable_unref(t).
Unref(w, t) == \E last \in SUBSET Tables : Call(w, FreeSeq(t, last))

\* h.__metatable(): plua_metatable_clone of h's table into a new one.
Metatable(w, t) == Call(w, CloneSeq(t))

-----------------------------------------------------------------------------
(***************************************************************************)
(* uv_mutex_lock blocks while another thread holds the mutex; on a mutex  *)
(* the thread holds itself it never returns (a release build blocks, a    *)
(* build with error-checking mutexes aborts in uv_mutex_lock).            *)
(***************************************************************************)
Acquire(w) ==
  /\ prog[w] # <<>> /\ Head(prog[w]).op = "lock"
  /\ owner[Head(prog[w]).t] = None
  /\ owner' = [owner EXCEPT ![Head(prog[w]).t] = w]
  /\ prog' = [prog EXCEPT ![w] = Tail(@)]

Release(w) ==
  /\ prog[w] # <<>> /\ Head(prog[w]).op = "unlock"
  /\ owner' = [owner EXCEPT ![Head(prog[w]).t] = None]
  /\ prog' = [prog EXCEPT ![w] = Tail(@)]

Thread(w) ==
  \/ Acquire(w) \/ Release(w)
  \/ \E t \in Tables :
       \/ Method(w, t) \/ Unref(w, t) \/ Metatable(w, t)
       \/ \E i \in DOMAIN Cells[t] : SetOverwrite(w, t, i)
       \/ \E v \in Tables : SetTable(w, t, v)

Next == \E w \in Threads : Thread(w)

Spec == Init /\ [][Next]_vars

-----------------------------------------------------------------------------
\* Thread w waits in uv_mutex_lock for the thread holding the mutex.
WaitsFor == {<<w, owner[Head(prog[w]).t]>> :
               w \in {x \in Threads : prog[x] # <<>> /\ Head(prog[x]).op = "lock"
                                      /\ owner[Head(prog[x]).t] # None}}

\* No set of threads waits on each other's node->lock (no thread waits on
\* a lock it holds itself): the nested locking of parse_set, clone and
\* free never deadlocks.
NoLockCycle == ~HasCycle([node |-> Threads, edge |-> WaitsFor])

=============================================================================
