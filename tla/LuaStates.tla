------------------------------ MODULE LuaStates ------------------------------
(***************************************************************************)
(* The Lua state pool of src/libs/pilight/lua_c/lua.c, the gc registry of *)
(* each state, the try-wait reference count of shared metatables, and     *)
(* the mail object of lua_c/network/mail.c that owns one of them.         *)
(*                                                                         *)
(* A worker (any pilight thread that runs Lua: an event action, a timer,  *)
(* the libuv loop running a mail callback) takes a state with             *)
(* plua_get_free_state, runs a script in it, and gives it back with       *)
(* _plua_clear_state, which first runs the callbacks the script          *)
(* registered with plua_gc_reg.  Handing a metatable to a script         *)
(* (push_plua_metatable) posts its `ref` semaphore and registers         *)
(* plua_metatable_unref, and plua_metatable_free frees the table only     *)
(* when uv_sem_trywait finds the semaphore at 0.                          *)
(*                                                                         *)
(* Metatable methods run under node->lock, so each script operation is    *)
(* one step.  The contents of a table are abstracted away (MetaTable.tla  *)
(* models them): a table is its reference count and whether it is alive. *)
(* The shared table the script works on is the long-lived table whose     *)
(* nested tables are `inParent`.                                          *)
(***************************************************************************)
EXTENDS Integers, FiniteSets
LOCAL INSTANCE FiniteSetsExt

CONSTANTS
  Workers,         \* threads that run Lua scripts or mail callbacks
  NRLUASTATES,     \* size of the state pool
  Tables,          \* metatables that can be allocated
  Mails,           \* lua_mail_t objects that can be allocated
  Jobs,            \* script runs per worker
  MaxOps,          \* operations per script run (scripts terminate)
  MaxShare,        \* bound on a table's semaphore value
  AllowSelfAlias,  \* may a script pass a mail its own table (setUserdata)?
  Checked,         \* the fields whose test in mail.send the model tracks
  NilLookups,      \* precedence calls for an operator whose global is nil
  None

Slots == 1..NRLUASTATES

\* The fields plua_network_mail_send requires, and setSSL's optional one.
Fields == {"subject", "from", "to", "message", "host", "user", "password",
           "port", "ssl", "callback"}
Required == Fields \ {"ssl"}

ASSUME Checked \subseteq Required

VARIABLES
  \* the pool
  pc,        \* per worker: "idle", "scan", "wait", "hold", "unlock", "post", "free"
  idx,       \* per worker: the state plua_get_free_state tries next
  slot,      \* per worker: the state it holds (0: none)
  job,       \* per worker: the mail whose callback it runs, or None
  jobs,      \* per worker: script runs left
  ops,       \* per worker: operations done in this run
  owner,     \* per state: the worker holding lua_state[i].lock, or None
  sem,       \* sem_used_states
  leaks,     \* event_operator_precedence calls that found operator.<name> nil
  \* the gc registry and what the running script can reach
  gcRef,     \* per state, per table: registered plua_metatable_unref calls
  gcMail,    \* per state: mails with plua_network_mail_gc registered
  reach,     \* per state: the tables and mails the running script holds
  \* metatables
  count,     \* per table: the value of its `ref` semaphore
  tstate,    \* per table: "unborn", "live" or "freed"
  inParent,  \* tables held by a cell of the shared table
  fault,     \* a release reached a freed table
  \* mail objects
  mstate,    \* per mail: "unborn", "live", "sent", "delivering", "freed"
  mtable,    \* per mail: mail->table
  mfields,   \* per mail: the fields set so far
  creator    \* per mail: the state of mail->L

poolVars == <<pc, idx, slot, job, jobs, ops, owner, sem, leaks>>
gcVars == <<gcRef, gcMail, reach>>
tableVars == <<count, tstate, inParent, fault>>
mailVars == <<mstate, mtable, mfields, creator>>
vars == <<poolVars, gcVars, tableVars, mailVars>>

NoRefs == [t \in Tables |-> 0]

(***************************************************************************)
(* plua_init: sem_used_states starts at 0, every state unlocked with an    *)
(* empty gc list.                                                          *)
(***************************************************************************)
Init ==
  /\ pc = [w \in Workers |-> "idle"]
  /\ idx = [w \in Workers |-> 1]
  /\ slot = [w \in Workers |-> 0]
  /\ job = [w \in Workers |-> None]
  /\ jobs = [w \in Workers |-> Jobs]
  /\ ops = [w \in Workers |-> 0]
  /\ owner = [i \in Slots |-> None]
  /\ sem = 0
  /\ leaks = 0
  /\ gcRef = [i \in Slots |-> NoRefs]
  /\ gcMail = [i \in Slots |-> {}]
  /\ reach = [i \in Slots |-> {}]
  /\ count = NoRefs
  /\ tstate = [t \in Tables |-> "unborn"]
  /\ inParent = {}
  /\ fault = FALSE
  /\ mstate = [m \in Mails |-> "unborn"]
  /\ mtable = [m \in Mails |-> None]
  /\ mfields = [m \in Mails |-> {}]
  /\ creator = [m \in Mails |-> 0]

-----------------------------------------------------------------------------
(***************************************************************************)
(* plua_metatable_free (with plua_metatable_unref) applied r[t] times to  *)
(* each table t: each call either takes one off the semaphore or, when    *)
(* trywait finds it at 0, frees the table.  A call after that works on    *)
(* freed memory.                                                           *)
(***************************************************************************)
RelCount(r) == [t \in Tables |-> IF r[t] <= count[t] THEN count[t] - r[t] ELSE 0]
RelState(r) == [t \in Tables |-> IF r[t] > count[t] THEN "freed" ELSE tstate[t]]
RelFault(r) ==
  fault \/ \E t \in Tables : r[t] > 0 /\ (tstate[t] # "live" \/ r[t] > count[t] + 1)

Release(r) ==
  /\ count' = RelCount(r)
  /\ tstate' = RelState(r)
  /\ fault' = RelFault(r)

One(t) == [x \in Tables |-> IF x = t THEN 1 ELSE 0]

\* plua_gc_reg(L, table, plua_metatable_unref), n times.
Reg(i, t, n) == gcRef' = [gcRef EXCEPT ![i][t] = @ + n]

\* push_plua_metatable: uv_sem_post(ref), then
\* register the matching unref with the state.
Share(i, t) ==
  /\ count[t] < MaxShare
  /\ count' = [count EXCEPT ![t] = @ + 1]
  /\ Reg(i, t, 1)

\* push__plua_metatable(L, mail): the same for the table behind a
\* plua_interface_t, read as mail->table when it is pushed.
ShareData(i, m) == Share(i, mtable[m])

\* plua_metatable_call: the raw pointer a script gets from a handle's
\* __call: a metatable it holds, or the current table of a mail it holds.
Handles(i) == (reach[i] \cap Tables) \cup {mtable[m] : m \in reach[i] \cap Mails}

\* plua_metatable_clone into a NULL destination: a new table, count 0.
CloneTo(t) ==
  /\ tstate[t] = "unborn"
  /\ tstate' = [tstate EXCEPT ![t] = "live"]

\* plua_network_mail_gc on the mails ms: free the strings, release
\* data->table (counted by the caller) and FREE(data).
MailGc(ms) == mstate' = [m \in Mails |-> IF m \in ms THEN "freed" ELSE mstate[m]]

-----------------------------------------------------------------------------
(***************************************************************************)
(* plua_get_free_state: trylock every state in order, return the first    *)
(* one taken; when none is free, uv_sem_wait and scan again.               *)
(***************************************************************************)
Begin(w) ==
  /\ pc[w] = "idle" /\ jobs[w] > 0
  /\ pc' = [pc EXCEPT ![w] = "scan"]
  /\ idx' = [idx EXCEPT ![w] = 1]
  /\ jobs' = [jobs EXCEPT ![w] = @ - 1]
  /\ ops' = [ops EXCEPT ![w] = 0]
  /\ UNCHANGED <<slot, job, owner, sem, leaks, gcVars, tableVars, mailVars>>

TryLock(w) ==
  /\ pc[w] = "scan" /\ idx[w] \in Slots
  /\ owner[idx[w]] = None
  /\ owner' = [owner EXCEPT ![idx[w]] = w]
  /\ slot' = [slot EXCEPT ![w] = idx[w]]
  /\ pc' = [pc EXCEPT ![w] = "hold"]
  \* the callback pushes the mail object (plua_network_mail_object)
  /\ reach' = [reach EXCEPT ![idx[w]] = IF job[w] = None THEN {} ELSE {job[w]}]
  /\ UNCHANGED <<idx, job, jobs, ops, sem, leaks, gcRef, gcMail, tableVars, mailVars>>

TryLockBusy(w) ==
  /\ pc[w] = "scan" /\ idx[w] \in Slots
  /\ owner[idx[w]] # None
  /\ idx' = [idx EXCEPT ![w] = @ + 1]
  /\ UNCHANGED <<pc, slot, job, jobs, ops, owner, sem, leaks, gcVars, tableVars, mailVars>>

ScanEnd(w) ==
  /\ pc[w] = "scan" /\ idx[w] = NRLUASTATES + 1
  /\ pc' = [pc EXCEPT ![w] = "wait"]
  /\ UNCHANGED <<idx, slot, job, jobs, ops, owner, sem, leaks, gcVars, tableVars, mailVars>>

SemWait(w) ==
  /\ pc[w] = "wait" /\ sem > 0
  /\ sem' = sem - 1
  /\ pc' = [pc EXCEPT ![w] = "scan"]
  /\ idx' = [idx EXCEPT ![w] = 1]
  /\ UNCHANGED <<slot, job, jobs, ops, owner, leaks, gcVars, tableVars, mailVars>>

(***************************************************************************)
(* _plua_clear_state: under gc.lock run every registered callback (each   *)
(* unref releases its table once, each mail gc frees the mail and        *)
(* releases its table), empty the list; then unlock the state, then post  *)
(* sem_used_states.                                                        *)
(***************************************************************************)
ClearGcNoMail(w) ==
  LET i == slot[w]
  IN /\ pc[w] = "hold"
     /\ Release(gcRef[i])
     /\ gcRef' = [gcRef EXCEPT ![i] = NoRefs]
     /\ reach' = [reach EXCEPT ![i] = {}]
     /\ pc' = [pc EXCEPT ![w] = "unlock"]
     /\ UNCHANGED <<idx, slot, job, jobs, ops, owner, sem, leaks, inParent, gcMail,
                    mailVars>>
ClearGc(w) ==
  LET i == slot[w]
      r == [t \in Tables |->
              gcRef[i][t] + Cardinality({m \in gcMail[i] : mtable[m] = t})]
  IN /\ pc[w] = "hold"
     /\ Release(r)
     /\ MailGc(gcMail[i])
     /\ gcRef' = [gcRef EXCEPT ![i] = NoRefs]
     /\ gcMail' = [gcMail EXCEPT ![i] = {}]
     /\ reach' = [reach EXCEPT ![i] = {}]
     /\ pc' = [pc EXCEPT ![w] = "unlock"]
     /\ UNCHANGED <<idx, slot, job, jobs, ops, owner, sem, leaks, inParent,
                    mtable, mfields, creator>>

Unlock(w) ==
  /\ pc[w] = "unlock"
  /\ owner' = [owner EXCEPT ![slot[w]] = None]
  /\ pc' = [pc EXCEPT ![w] = "post"]
  /\ UNCHANGED <<idx, slot, job, jobs, ops, sem, leaks, gcVars, tableVars, mailVars>>

PostNoSignal(w) ==
  /\ pc[w] = "post"
  /\ pc' = [pc EXCEPT ![w] = IF job[w] = None THEN "idle" ELSE "free"]
  /\ slot' = [slot EXCEPT ![w] = 0]
  /\ UNCHANGED <<idx, job, jobs, ops, owner, sem, leaks, gcVars, tableVars, mailVars>>
Post(w) ==
  /\ pc[w] = "post"
  /\ sem' = sem + 1
  /\ pc' = [pc EXCEPT ![w] = IF job[w] = None THEN "idle" ELSE "free"]
  /\ slot' = [slot EXCEPT ![w] = 0]
  /\ UNCHANGED <<idx, job, jobs, ops, owner, leaks, gcVars, tableVars, mailVars>>

(***************************************************************************)
(* events/operator.c, event_operator_precedence: when the global          *)
(* operator.<name> is nil it returns -1 without plua_clear_state, so the  *)
(* state stays locked (associativity and callback clear it on the same    *)
(* path, which is ClearGc).                                                *)
(***************************************************************************)
PrecedenceNil(w) ==
  /\ pc[w] = "hold" /\ job[w] = None /\ ops[w] = 0
  /\ leaks < NilLookups
  /\ leaks' = leaks + 1
  /\ pc' = [pc EXCEPT ![w] = "idle"]
  /\ slot' = [slot EXCEPT ![w] = 0]
  /\ UNCHANGED <<idx, job, jobs, ops, owner, sem, gcVars, tableVars, mailVars>>

-----------------------------------------------------------------------------
(***************************************************************************)
(* Script operations on the shared table, in the state slot[w].           *)
(***************************************************************************)
Op(w) ==
  /\ pc[w] = "hold" /\ ops[w] < MaxOps
  /\ ops' = [ops EXCEPT ![w] = @ + 1]

\* t[k] = {...} or t[k] = handle on a new key: plua_metatable_init, or a
\* clone of the handle's table, into the new cell.
SetNew(w, t) ==
  /\ Op(w)
  /\ CloneTo(t)
  /\ inParent' = inParent \cup {t}
  /\ UNCHANGED <<idx, slot, job, jobs, owner, sem, leaks, pc, gcVars, count, fault, mailVars>>

\* t[k] = number, string or boolean on a key that holds table u:
\* plua_metatable_free(u), then the new value.
SetOverwrite(w, u) ==
  /\ Op(w)
  /\ u \in inParent
  /\ Release(One(u))
  /\ inParent' = inParent \ {u}
  /\ UNCHANGED <<idx, slot, job, jobs, owner, sem, leaks, pc, gcVars, mailVars>>

\* t[k] = {...} or t[k] = handle on a key that holds table u: free u, then
\* a new table (init or clone) in its place.
SetReplace(w, u, t) ==
  /\ Op(w)
  /\ u \in inParent /\ tstate[t] = "unborn"
  /\ count' = RelCount(One(u))
  /\ tstate' = [RelState(One(u)) EXCEPT ![t] = "live"]
  /\ fault' = RelFault(One(u))
  /\ inParent' = (inParent \ {u}) \cup {t}
  /\ UNCHANGED <<idx, slot, job, jobs, owner, sem, leaks, pc, gcVars, mailVars>>

\* t[k] where the cell holds table u: push_plua_metatable(u).
Index(w, u) ==
  /\ Op(w)
  /\ u \in inParent
  /\ Share(slot[w], u)
  /\ reach' = [reach EXCEPT ![slot[w]] = @ \cup {u}]
  /\ UNCHANGED <<idx, slot, job, jobs, owner, sem, leaks, pc, gcMail, tstate, inParent,
                 fault, mailVars>>

\* next() reaching a cell that holds table u pushes it the same way.
Iterate(w, u) == Index(w, u)

PopOnce(w, u) ==
  /\ Op(w)
  /\ u \in inParent /\ count[u] < MaxShare
  /\ count' = [count EXCEPT ![u] = @ + 1]
  /\ Reg(slot[w], u, 1)
  /\ inParent' = inParent \ {u}
  /\ reach' = [reach EXCEPT ![slot[w]] = @ \cup {u}]
  /\ UNCHANGED <<idx, slot, job, jobs, owner, sem, leaks, pc, gcMail, tstate, fault, mailVars>>
\* pop() whose last value is table u: push_plua_metatable(u) and a second
\* plua_gc_reg(u, unref) for the reference the cell gave up.
Pop(w, u) ==
  /\ Op(w)
  /\ u \in inParent /\ count[u] < MaxShare
  /\ count' = [count EXCEPT ![u] = @ + 1]
  /\ Reg(slot[w], u, 2)
  /\ inParent' = inParent \ {u}
  /\ reach' = [reach EXCEPT ![slot[w]] = @ \cup {u}]
  /\ UNCHANGED <<idx, slot, job, jobs, owner, sem, leaks, pc, gcMail, tstate, fault, mailVars>>

\* unshift() whose first value is a table does the same.
Unshift(w, u) == Pop(w, u)

\* h.__metatable(): clone the table h points at, register an unref of the
\* clone, and hand the clone's pointer to the script.
Metatable(w, p, t) ==
  /\ Op(w)
  /\ p \in Handles(slot[w])
  /\ CloneTo(t)
  /\ Reg(slot[w], t, 1)
  /\ reach' = [reach EXCEPT ![slot[w]] = @ \cup {t}]
  /\ UNCHANGED <<idx, slot, job, jobs, owner, sem, leaks, pc, gcMail, count, inParent,
                 fault, mailVars>>

-----------------------------------------------------------------------------
(***************************************************************************)
(* The mail object.  Its methods are closures over the lua_mail_t pointer. *)
(* A script uses a mail while it is alive and not handed to sendmail: its *)
(* own mail before send, or the mail its callback receives.               *)
(***************************************************************************)
Usable(w, m) ==
  /\ m \in reach[slot[w]]
  /\ mstate[m] \in {"live", "delivering"}

\* pilight.network.mail(): allocate, plua_metatable_init(&mail->table),
\* mail->L = L, plua_gc_reg(L, mail, plua_network_mail_gc), push the object.
MailNew(w, m, t) ==
  /\ Op(w)
  /\ mstate[m] = "unborn" /\ tstate[t] = "unborn"
  /\ mstate' = [mstate EXCEPT ![m] = "live"]
  /\ tstate' = [tstate EXCEPT ![t] = "live"]
  /\ mtable' = [mtable EXCEPT ![m] = t]
  /\ creator' = [creator EXCEPT ![m] = slot[w]]
  /\ gcMail' = [gcMail EXCEPT ![slot[w]] = @ \cup {m}]
  /\ reach' = [reach EXCEPT ![slot[w]] = @ \cup {m}]
  /\ UNCHANGED <<idx, slot, job, jobs, owner, sem, leaks, pc, gcRef, count, inParent,
                 fault, mfields>>

\* mail.setX(value): STRDUP the value into the field.  The value itself is
\* abstracted away; only the fields send tests (Checked) are recorded.
SetField(w, m, f) ==
  /\ pc[w] = "hold"
  /\ Usable(w, m)
  /\ mfields' = [mfields EXCEPT ![m] = @ \cup ({f} \cap Checked)]
  /\ UNCHANGED <<poolVars, gcVars, tableVars, mstate, mtable, creator>>

SetSubject(w, m) == SetField(w, m, "subject")
SetFrom(w, m) == SetField(w, m, "from")
SetTo(w, m) == SetField(w, m, "to")
SetMessage(w, m) == SetField(w, m, "message")
SetHost(w, m) == SetField(w, m, "host")
SetPort(w, m) == SetField(w, m, "port")
SetUser(w, m) == SetField(w, m, "user")
SetPassword(w, m) == SetField(w, m, "password")
SetSSL(w, m) == SetField(w, m, "ssl")
SetCallback(w, m) == SetField(w, m, "callback")

\* mail.getUserdata(): push__plua_metatable(mail), which posts
\* mail->table->ref and registers its unref.
GetData(w, m) ==
  /\ Op(w)
  /\ Usable(w, m)
  /\ ShareData(slot[w], m)
  /\ UNCHANGED <<idx, slot, job, jobs, owner, sem, leaks, pc, gcMail, reach, tstate,
                 inParent, fault, mailVars>>

(***************************************************************************)
(* mail.setUserdata(p) with a light userdata p: free the old table unless *)
(* it is p, store p, post p->ref.                                          *)
(***************************************************************************)
SetData(w, m, p) ==
  LET r == IF mtable[m] # p THEN One(mtable[m]) ELSE NoRefs
  IN /\ Op(w)
     /\ Usable(w, m)
     /\ p \in Handles(slot[w])
     /\ AllowSelfAlias \/ p # mtable[m]
     /\ count[p] < MaxShare
     /\ count' = [RelCount(r) EXCEPT ![p] = @ + 1]
     /\ tstate' = RelState(r)
     /\ fault' = RelFault(r)
     /\ mtable' = [mtable EXCEPT ![m] = p]
     /\ UNCHANGED <<idx, slot, job, jobs, owner, sem, leaks, pc, gcVars, inParent,
                    mstate, mfields, creator>>

(***************************************************************************)
(* mail.send(): every field but is_ssl set, then sendmail.  On success     *)
(* plua_gc_unreg(mail->L, mail) and the callback owns the mail; on         *)
(* failure plua_gc_unreg and plua_network_mail_gc at once.                 *)
(***************************************************************************)
SendOk(w, m) ==
  /\ Op(w)
  /\ Usable(w, m) /\ mstate[m] = "live"
  /\ Checked \subseteq mfields[m]
  /\ mstate' = [mstate EXCEPT ![m] = "sent"]
  /\ gcMail' = [gcMail EXCEPT ![creator[m]] = @ \ {m}]
  /\ UNCHANGED <<idx, slot, job, jobs, owner, sem, leaks, pc, gcRef, reach, tableVars,
                 mtable, mfields, creator>>

SendFail(w, m) ==
  /\ Op(w)
  /\ Usable(w, m) /\ mstate[m] = "live"
  /\ Checked \subseteq mfields[m]
  /\ Release(One(mtable[m]))
  /\ MailGc({m})
  /\ gcMail' = [gcMail EXCEPT ![creator[m]] = @ \ {m}]
  /\ UNCHANGED <<idx, slot, job, jobs, owner, sem, leaks, pc, gcRef, reach, inParent,
                 mtable, mfields, creator>>

\* sendmail finished: the libuv loop runs plua_network_mail_callback,
\* which first takes a free state.
BeginCallback(w, m) ==
  /\ pc[w] = "idle" /\ mstate[m] = "sent"
  /\ mstate' = [mstate EXCEPT ![m] = "delivering"]
  /\ job' = [job EXCEPT ![w] = m]
  /\ pc' = [pc EXCEPT ![w] = "scan"]
  /\ idx' = [idx EXCEPT ![w] = 1]
  /\ ops' = [ops EXCEPT ![w] = 0]
  /\ UNCHANGED <<slot, jobs, owner, sem, leaks, gcVars, tableVars, mtable, mfields, creator>>

\* After the callback's plua_clear_state: free the strings,
\* plua_metatable_free(data->table), FREE(data).
FreeMail(w) ==
  /\ pc[w] = "free"
  /\ Release(One(mtable[job[w]]))
  /\ mstate' = [mstate EXCEPT ![job[w]] = "freed"]
  /\ job' = [job EXCEPT ![w] = None]
  /\ pc' = [pc EXCEPT ![w] = "idle"]
  /\ UNCHANGED <<idx, slot, jobs, ops, owner, sem, leaks, gcVars, inParent, mtable,
                 mfields, creator>>

-----------------------------------------------------------------------------
ScriptOp(w) ==
  \/ \E t \in Tables : SetNew(w, t) \/ SetOverwrite(w, t) \/ Index(w, t)
                       \/ Iterate(w, t) \/ Pop(w, t) \/ Unshift(w, t)
  \/ \E u, t \in Tables : SetReplace(w, u, t) \/ Metatable(w, u, t)
  \/ \E m \in Mails :
       \/ \E t \in Tables : MailNew(w, m, t) \/ SetData(w, m, t)
       \/ SetSubject(w, m) \/ SetFrom(w, m) \/ SetTo(w, m) \/ SetMessage(w, m)
       \/ SetHost(w, m) \/ SetPort(w, m) \/ SetUser(w, m) \/ SetPassword(w, m)
       \/ SetSSL(w, m) \/ SetCallback(w, m)
       \/ GetData(w, m) \/ SendOk(w, m) \/ SendFail(w, m)

Worker(w) ==
  \/ Begin(w) \/ (\E m \in Mails : BeginCallback(w, m))
  \/ TryLock(w) \/ TryLockBusy(w) \/ ScanEnd(w) \/ SemWait(w)
  \/ ScriptOp(w)
  \/ ClearGc(w) \/ Unlock(w) \/ Post(w) \/ FreeMail(w) \/ PrecedenceNil(w)

\* pilight is a daemon: a thread with no script left to run stays idle,
\* waiting for the next event, timer or mail callback.
Idle == \E w \in Workers : pc[w] = "idle" /\ jobs[w] = 0 /\ UNCHANGED vars

Next == (\E w \in Workers : Worker(w)) \/ Idle

\* Workers are OS threads, and the libuv loop runs a finished send's
\* callback: each keeps taking steps while it has one to take.
Fairness == \A w \in Workers : WF_vars(Worker(w))

Spec == Init /\ [][Next]_vars /\ Fairness

-----------------------------------------------------------------------------
\* The references to table t that some code will release: unrefs waiting in
\* a gc list, the cell of the shared table, and the mail that owns it.
Holders(t) ==
  LET pending(i) == gcRef[i][t]
  IN MapThenSumSet(pending, Slots)
     + (IF t \in inParent THEN 1 ELSE 0)
     + Cardinality({m \in Mails : mstate[m] \in {"live", "sent", "delivering"}
                                    /\ mtable[m] = t})

\* The try-wait count is exact: a live table's semaphore is one less than
\* the releases still to come (push_plua_metatable, pop's double
\* registration, setUserdata, the mail's gc and callback), so the last of
\* them frees it, and no release ever reaches a freed table.
RefBalanced ==
  /\ ~fault
  /\ \A t \in Tables :
       /\ tstate[t] = "live" => count[t] + 1 = Holders(t)
       /\ tstate[t] = "freed" => Holders(t) = 0

\* A thread in plua_get_free_state eventually gets a state: a state given
\* back by _plua_clear_state (unlock, then sem_post) always wakes a thread
\* waiting on sem_used_states.
PoolProgress == \A w \in Workers : pc[w] = "scan" ~> pc[w] = "hold"

\* Every mail pilight.network.mail() allocates is freed in the end: by the
\* gc of the state that created it when it is never sent, by send when
\* sendmail fails, and by the mail callback, which must first get a state
\* from the pool, after a successful send.
MailReleased == \A m \in Mails : mstate[m] = "live" ~> mstate[m] = "freed"

=============================================================================
