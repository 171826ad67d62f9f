# TLA+ models of pilight's Lua layer and GPIO switch

This directory holds TLA+ models of the parts of the pilight sources under
`src/` that hold shared, concurrently used state. Each module is translated from
the C code, and `PROJECT.json` maps every definition to the lines it models.

## The system

The sources under `src/` are pilight's Lua glue layer and a few of its users:

| Part | Files | State | Concurrency |
|---|---|---|---|
| Metatable engine | `lua_c/lua.c` (`plua_metatable_*`) | `struct plua_metatable_t`: a `table` array of cells (key, value, per-cell mutex), `nrvar`, a per-state cursor `iter[NRLUASTATES]`, a reference semaphore `ref`, a table mutex `lock` | Shared between all Lua states (`NRLUASTATES` interpreters, each used by one thread at a time). Every method takes `node->lock` for its whole body |
| State pool and gc registry | `lua_c/lua.c` (`plua_get_free_state`, `plua_gc_reg`, `_plua_clear_state`) | `lua_state[]`, `sem_used_states`, each state's `gc.list` of callbacks | A thread takes a free state, and clearing the state runs its gc callbacks (this is how popped nested tables are released) |
| JSON conversion | `lua_c/lua.c` (`plua_metatable_to_json`, `plua_json_to_table`) | none (pure functions of a table) | called under the table's lock |
| Module loading, coverage, error handler | `lua_c/lua.c` | module list, coverage files | setup time |
| Mail binding | `lua_c/network/mail.c` | one `struct lua_mail_t` per object | send callback from libuv |
| GPIO switch | `protocols/GPIO/gpio_switch.c` | `threads` counter, shared `message` | one polling thread per device, plus `threadGC` |
| Config settings/registry, device wrappers, event operators/functions, SSL | `config/*.c`, `lua_c/config/**`, `events/*.c`, `core/ssl.c` | little or none of their own | forward to the above |

How they interact: a Lua script running in one state gets a metatable through
`push_plua_metatable` (which posts the reference semaphore and registers
`plua_metatable_unref` with the state's gc list). Scripts in other states can
hold the same table. Values that leave a table (a popped nested table, for
example) are handed to the popping state's gc list, and they are released when
that state is cleared.

## Hard behaviours (see `hazards` in PROJECT.json)

- The three gap-closing loops (pop l.476, unshift l.575, nil-assignment l.1394)
  copy number, string and table values but not booleans.
- pop/unshift on an empty table read `table[0]`. A script's `len()` check
  before `pop()` is stale as soon as another state pops.
- shift appends its key-1 cell at the end of the array, while pop/unshift
  renumber by position.
- Assigning nil to a key whose value is a table frees the table but leaves the
  cell and its locked mutex in place.
- `next()` walks a bare index, so a removal during `pairs()` skips a cell.
- `plua_metatable_free` decides with `uv_sem_trywait` whether it is the last
  reference; pop/unshift post once but register two releases.
- `plua_get_free_state` waits on `sem_used_states` when every state is taken,
  and only `_plua_clear_state` posts it: a caller that returns without
  clearing its state starves everyone after it.
- The mail binding releases the old userdata table in `setData`, frees the
  mail at once when `send` fails, and frees its table in the send callback.
- GPIO: `threads++`/`threads--` and `gpio_switch->message` are shared by all
  device threads without a lock.
- `parse_set` holds the written table's `node->lock` while it clones a
  metatable value, and clone locks the value's table and every table nested
  in it.

## Modules

- **`MetaTable.tla`** models one shared `plua_metatable_t` used by the Lua
  states `States`.
  - `cells` is `node->table[0..nrvar-1]`. Each cell is a record with `key`,
    `type`, the value `d` and `a`, the heap block that holds a string value or a
    nested table (0 for numbers and booleans).
  - `freed` is the set of released blocks. `gc[s]` holds blocks registered with
    state `s` through `plua_gc_reg`.
  - `locked` holds the positions of cell mutexes left locked. `hung` records
    that a state blocked on one while holding `node->lock`, and `fault` records
    a read past `nrvar`.
  - `out[s]` and `known[s]` are the script's last result and its last `len()`.
  - `iter[s]` is `node->iter[idx]`. `iterating`, `start` and `seen` are history
    variables of a `pairs()` loop.
  - Because `node->lock` is held across the whole method, each method is one
    atomic action: `Length`; `Push`, `Pop`, `Unshift`, `Shift` (Pop and
    Unshift share `Extract`; `RemoveEmpty` is the read of `table[0]` on an
    empty table); `SetExisting`, `SetNew`, `Delete`, `DeleteTable` (the
    branches of `plua_metatable_parse_set`); `Index`; `Pairs`, `NextPair`,
    `NextEnd`; `ClearState` (the gc callbacks of `_plua_clear_state`); `Hang`
    (a scan reaching a cell mutex left locked).
  - JSON: `ToJson` is `plua_metatable_to_json` (an object when any key is a
    string, numeric keys written as member names with `%g`, which `FmtG`
    models: six significant digits, ties to even; an array otherwise, whose
    elements are written in cell order and so renumbered 1..n), and
    `JsonToTable` is `plua_json_to_table` (`JsonToLua`: members keep their
    names, array elements get keys 1..n; `BadStack` stands for the stack
    corruption of a boolean, which has no case in `plua__json_to_table`).
    Nested tables are opaque values.
  - `CloseGap` is the gap-closing loop, written once with the key decrement
    as a parameter (1 in pop/unshift, 0 in delete).
- **`MetaArray.tla`** is the abstract promise of the array methods: a
  sequence with push/shift at the ends and pop/unshift taking from them.
- **`MetaMap.tla`** is the abstract promise of `t[k]`, `t[k]=v` and
  `t[k]=nil`: a finite function.
- **`MC_MetaTable.tla`** provides model values, input sets, and the refinement
  mappings `ArrayView` (the values ordered by key) and `MapView` (key to the
  first matching cell's value, as `__index` reads it), instancing the two
  abstract specs as `ArraySpec` and `MapSpec`.
- **`LuaStates.tla`** composes the state pool, the gc registry, metatable
  reference counting and the mail binding, with `Workers` threads sharing
  `NRLUASTATES` states.
  - Pool: `pc[w]` walks `plua_get_free_state` (`Begin`, `TryLock`,
    `TryLockBusy`, `ScanEnd`, `SemWait`) and `_plua_clear_state` (`ClearGc`,
    `Unlock`, `Post`, in the code's order). `owner[i]` is the state's mutex,
    `sem` is `sem_used_states` (0 at `plua_init`).
  - Registry: `gcRef[i][t]` counts `plua_metatable_unref` callbacks of table
    `t` on state `i`, `gcMail[i]` the `plua_network_mail_gc` callbacks.
    `reach[i]` is what the running script can name.
  - Tables: `count[t]` is the value of the `ref` semaphore, `tstate[t]`
    unborn/live/freed, `inParent` whether the table is a cell of a parent
    table. `Release(r)` applies `r[t]` calls of `plua_metatable_free` (trywait,
    free at `EAGAIN`); `fault` records a release of a table already freed.
  - Script operations, each bounded by `MaxOps` per script: `SetNew`,
    `SetOverwrite`, `SetReplace` (parse_set storing, replacing or dropping a
    nested table), `Index`, `Iterate`, `Pop`, `Unshift`, `Metatable`
    (`__metatable` cloning into a new table).
  - Mail: `MailNew`, the ten setters (`SetField`; only the fields `send`
    tests and that a run lists in `Checked` are recorded), `GetData`,
    `SetData`, `SendOk`, `SendFail`, `BeginCallback` (the send callback takes
    a state and runs the script) and `FreeMail`.
  - `PrecedenceNil` is `event_operator_precedence` returning on a nil global.
  - `Idle` is the daemon with no work left, so a thread stuck in the pool
    shows as a liveness failure, not as a deadlock.
- **`GpioSwitch.tla`** models `gpio_switch.c`: `InitDev`/`InitFail`, the
  polling thread with `threads++` and `threads--` split into load and store
  (`IncRead`/`IncWrite`, `DecRead`/`DecWrite`), `createMessage` statement by
  statement (`Make`, `Fill`, `Bcast`, `Del`, `Clr`), `Poll`/`Exit`, the
  hardware `Toggle`, and `threadGC` (`Stop`, `Spin`, `Free`).
- **`MetaTableLocks.tla`** models only the order of `node->lock`
  acquisitions. `Cells` gives the nesting of `Tables` (a constant snapshot),
  `owner[t]` the holder of a table's lock, `prog[w]` the lock and unlock calls
  left in thread `w`'s current call. `CloneSeq` and `FreeSeq` are
  `plua_metatable_clone` and `plua_metatable_free` as RECURSIVE operators
  producing those calls in the code's order (free recurses only for the tables
  whose trywait finds 0, chosen by the call). The script calls are `Method`
  (any method that takes only `node->lock`), `SetOverwrite` and `SetTable`
  (the branches of `parse_set` that free or clone nested tables), `Unref` and
  `Metatable`; `Acquire` and `Release` execute the calls. Cell locks are
  always taken under their table's lock and the clone's destination is
  unreachable until the clone returns, so neither can add a lock order.
  `Assign` lists which handles scripts store in which tables.
- **`MC_LuaStates.tla`**, **`MC_GpioSwitch.tla`**, **`MC_MetaTableLocks.tla`**
  declare the model values (`MC_MetaTableLocks`: `x` holds `c` nested, `y`
  holds scalars, and `AllPairs` lets any handle be stored anywhere).

## Runs

| run | module | expect | what it checks |
|---|---|---|---|
| array_deque | MC_MetaTable | pass | With numbers and strings, push/pop/unshift refine `MetaArray` and keys stay 1..n (`ArrayContiguous`); every table reached converts to JSON and back unchanged (`JsonRoundTrip`). Scripts check `len()` first |
| array_memory | MC_MetaTable | pass | With shift and nested tables too, no cell points at a freed block (`NoDangling`); `TypeOK` |
| assoc_map | MC_MetaTable | pass | Two states using set/delete/index refine `MetaMap` |
| assoc_nested | MC_MetaTable | pass | With nested tables (including the broken nil branch), keys stay unique |
| nested_delete | MC_MetaTable | violation | nil on a table value leaves the freed table in its cell (`NoDangling`) |
| json_roundtrip | MC_MetaTable | violation | push then shift leaves cells `[2, 1]`; the JSON array is written in cell order and reads back with the values swapped (`JsonRoundTrip`) |
| gpio_single | MC_GpioSwitch | pass | One device: threadGC's spin ends whether shutdown comes before or after the thread starts (`ShutdownCompletes`) |
| gpio_message_race | MC_GpioSwitch | violation | Two threads in `createMessage` broadcast or delete each other's object (`MessageIntegrity`) |
| gpio_shutdown_hang | MC_GpioSwitch | violation | A lost `threads--` leaves `threads` at 1 and threadGC spins forever (`ShutdownCompletes`) |
| luastates | MC_LuaStates | pass | `RefBalanced`: every live table's semaphore is one below the releases still pending for it (gc callbacks, parent cell, mails), a freed table has none pending, and no release hits a freed table. `PoolProgress`: every thread scanning for a state gets one. `MailReleased`: every mail allocated is freed (gc, failed send, or the callback after it gets a state) |
| clone_deadlock | MC_MetaTableLocks | violation | `NoLockCycle`: `x.k = x` relocks `x`; with self-stores excluded, `x.k = y` in one state and `y.k = x` in another wait for each other |
| pool_leak | MC_LuaStates | violation | With one state, an operator-precedence lookup of a nil global keeps the state locked and the next thread waits forever (`PoolProgress`) |

No run checks `IterationComplete` (what a `pairs()` loop must see). The
cursor skips a cell only when one is removed in front of it, and every
removal that does that during a loop, `t[k] = nil` in this or another state,
is the bug below ("Delete during `pairs()`"). Unshift also moves cells
under the cursor, but it renumbers the keys, so a check by key cannot tell
a skipped value from a seen one; a passing run would show nothing. `Pairs`, `NextPair` and `NextEnd` still run in
array_deque.

The passing MetaTable runs avoid the known bugs by choosing inputs: no
booleans in array_deque/assoc_map, and no shift in array_deque. Deadlock
checking is off only where the model can really stop: array_memory,
assoc_nested and nested_delete can reach `hung` (a scan blocked forever on a
leaked cell mutex) or `fault`.

Bugs found by TLC whose traces are kept here rather than as runs:

- Shift duplicate keys (lua.c:725, `KeysUnique`): shift, pop, shift gives
  two cells keyed 1, because shift appends its key-1 cell at the end of the
  array and pop renumbers by position.
- Boolean gap (lua.c:479): push, push(boolean), unshift: the boolean cell is
  not moved down and `ArraySpec` fails.
- Empty read (lua.c:454, `NoEmptyRead`): two states both see `len() = 1` and
  both pop; the second reads `table[0]` of an empty table.
- Boolean dangling string (lua.c:1398): deleting a string key in front of a
  boolean cell frees the string and leaves its block in the boolean's cell.
- Delete during `pairs()` (lua.c:1053): `t[k] = nil` for the current key moves
  the next cell under the cursor, and `next` skips it.
- GPIO early free (gpio_switch.c:188, `FreeAfterThreads` in
  `GpioSwitch.tla`): initDev, shutdown, `threads == 0` seen before the
  thread's `threads++`, nodes freed while the thread is still to run. It is
  violated after 35 states with one device, so it cannot join gpio_single.
- JSON key collision (lua.c:2661, `JsonRoundTrip`): in a table with a string
  key, numeric keys 1000001 and 1000000 are both written as `1e+06`, and the
  second member overwrites the first on import.
- JSON boolean import (lua.c:2620): a boolean member has no case in
  `plua__json_to_table`, so `lua_settable` runs without a value.
- Mail self-alias (mail.c:70): with `AllowSelfAlias = TRUE`,
  `setData(getData())` skips `plua_metatable_free` because the table is the
  one already stored, then posts `ref` again (mail.c:71-79). The count is then
  one above the releases still to come, so the table is never freed:
  `RefBalanced` fails after `MailNew` and `SetData`.

### Bounds

- MetaTable: `MaxCells` (3) cells, `MaxAlloc` heap blocks, `KeyBound` on
  renumbered keys. Every bug above needs at most two cells and two states, and
  the passing runs cover every method on tables of up to three cells.
- LuaStates: 2 workers, 2 states, 2 tables, 1 mail, 1 script per worker
  (`Jobs`), 3 operations per script (`MaxOps`), semaphore at most 2
  (`MaxShare`), one nil precedence lookup (`NilLookups`). Two workers over two
  states reach the trylock contention. The semaphore wait is reached only
  after a `PrecedenceNil` leak keeps one state locked and the other is held,
  which is enough for a post-before-unlock swap or a lost post to break
  `PoolProgress`; three operations are enough to share,
  pop and release a nested table within one script. `Checked` = {host,
  callback} keeps one required field that is and one that may be missing.
  luastates reaches 94,392 states in about a minute and a half.
- MetaTableLocks: 2 threads, 3 tables with one nested in another. That is
  enough for a thread to store a table in itself, in a table nested in it,
  and for two threads to store two tables in each other.
- GpioSwitch: 1–2 devices, `MaxChanges` = 2 pin changes; both races need two
  threads and one change each.

### Fairness

- MetaTable, MetaTableLocks: safety only. A script has no progress guarantee
  in the code, and a lock cycle is a state (`NoLockCycle`), not a liveness
  failure.
- GpioSwitch: weak fairness of every device thread and of threadGC's `Free`
  (they are OS threads that keep running while they can). `Stop` (shutdown)
  and `Toggle` (the hardware) are not fair.
- LuaStates: weak fairness of each worker. Scripts are bounded (`Jobs`,
  `MaxOps`), which stands for the scripts terminating; a thread then always
  reaches `plua_clear_state`. `Idle` lets the daemon sit with no work.

### Abstractions

- A mail's fields are a set of names, not strings; only the required ones in
  `Checked` are tracked.
- `Usable` lets scripts use a mail only before it is sent; a use after a
  failed send (mail.c:601), a use racing the callback (mail.c:610) and a resend
  from the callback (mail.c:591) are listed as hazards without a property.
- Clone in `LuaStates.Metatable` makes a fresh table; its recursive locking is
  `MetaTableLocks`.

## Findings

- lua.c:1355: `parse_set` clones a metatable value under the written
  table's lock: self-stores and crossed stores deadlock (clone_deadlock).
- lua.c:1387: nil on a nested table leaves a freed table and a locked mutex
  (nested_delete).
- gpio_switch.c:46: the shared `message` pointer races (gpio_message_race).
- gpio_switch.c:96: unsynchronised `threads--` hangs threadGC
  (gpio_shutdown_hang).
- lua.c:2690: `plua_metatable_to_json` writes an array's elements in cell
  order, not by key, so after shift (whose key-1 cell sits at the end) the
  JSON array and the table read back from it have the values swapped
  (json_roundtrip). Spec 8.6 says the conversion round-trips.
- operator.c:249: `event_operator_precedence` leaks a locked state on a nil
  global, unlike its sibling functions (pool_leak).

## Not modelled

- The project is held to twelve runs, six passing and six violations. The
  traces above without a run of their own, and the two below, were found in
  scratch runs of these modules and are kept as hazards.
- `plua_gc` shutdown (lua.c:2806) and fractional numeric keys (lua.c:1287).
- JSON: value formatting (`%.*f` with the stored decimals), nested tables
  (opaque values here), and import into a table that already has cells.
- `plua_get_module` (lua.c:266) takes the first module of any type whose name
  matches, so `operator.x` can select a function module named `x`; it only
  sets `state->module`, which the error messages and the coverage read.
- `plua_check_stack` (lua.c:2446): the `PLUA_T*` bit values are in headers
  that are not in the repository.
- `ipairs()` (lua.c:1139) is `pairs()` with a different first key that
  `next` ignores, so it is the `Pairs` action.
- Nested `pairs()` loops in one state (lua.c:1115).
- Getters (mail getters, config getters) change no state.
- Device wrappers (`lua_c/config/device.c`, `devices/switch.c`): per-call
  objects of one state, used by one thread. Their one hazard is sequential:
  switch `send()` frees `dev->data` without clearing it (switch.c:74), so a
  later `setState` or `send` works on freed memory.
- Event functions' argument lists (function.c): leaks on two error paths
  (function.c:89), sequential and outside the pool.
- Config settings and registry (`config/*.c`): call a storage module in the
  current state; they only switch `state->module`, which some error paths
  forget to restore (settings.c:96), affecting error messages only.
- The mail callback's abort when its function is missing (mail.c:510): the
  process ends.
- Module loading, coverage and the error handler are file I/O with no shared
  state. SSL initialisation is a one-shot library call.
