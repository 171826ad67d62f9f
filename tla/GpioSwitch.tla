----------------------------- MODULE GpioSwitch -----------------------------
(***************************************************************************)
(* The GPIO switch protocol of src/libs/pilight/protocols/GPIO/           *)
(* gpio_switch.c.  initDev registers one polling thread per configured    *)
(* device; each thread increments the file-static counter `threads`,      *)
(* reads its pin, broadcasts a message through the protocol-wide pointer  *)
(* gpio_switch->message whenever the pin changes, and decrements          *)
(* `threads` when `loop` is cleared.  threadGC clears `loop`, busy-waits  *)
(* until `threads` is 0 and frees the thread nodes.                       *)
(*                                                                         *)
(* `threads++`, `threads--` and every use of gpio_switch->message are     *)
(* unsynchronised, so each is split into the loads and stores the         *)
(* compiled code performs, and any interleaving of them is possible.      *)
(***************************************************************************)
EXTENDS Integers, FiniteSets

CONSTANTS
  Devices,      \* configured gpio_switch devices, one thread each
  MaxChanges,   \* bound on pin changes made by the hardware
  Nil

VARIABLES
  pc,        \* per device: where its thread (or initDev) is
  tmp,       \* per device: the value of `threads` its load returned
  threads,   \* static int threads
  loop,      \* static unsigned short loop
  pin,       \* per device: the level digitalRead returns
  level,     \* per device: the thread's local `state`
  message,   \* owner of the JSON object gpio_switch->message points to
  live,      \* JSON objects allocated by createMessage and not yet deleted
  content,   \* per object: the device whose "message" member was appended
  gcpc,      \* threadGC: "idle", "wait" (spinning) or "done" (nodes freed)
  changes    \* number of pin changes so far

vars == <<pc, tmp, threads, loop, pin, level, message, live, content, gcpc, changes>>

\* Steps of a thread between its start and the end of `threads--`.
Running == {"inc", "inc_w", "setup", "make", "fill", "bcast", "del", "clr",
            "poll", "dec", "dec_w"}

Goto(d, from, to) == pc[d] = from /\ pc' = [pc EXCEPT ![d] = to]

(***************************************************************************)
(* Initial state: `loop = 1`, `threads = 0`, no device initialised.       *)
(***************************************************************************)
Init ==
  /\ pc = [d \in Devices |-> "unreg"]
  /\ tmp = [d \in Devices |-> 0]
  /\ threads = 0
  /\ loop = TRUE
  /\ pin \in [Devices -> {0, 1}]
  /\ level = [d \in Devices |-> 0]
  /\ message = Nil
  /\ live = {}
  /\ content = [d \in Devices |-> Nil]
  /\ gcpc = "idle"
  /\ changes = 0

(***************************************************************************)
(* initDev: with a gpio-platform configured and wiringX set up, set       *)
(* `loop = 1` and register the thread ("idle": not yet scheduled).        *)
(* Devices are initialised at start-up, before shutdown runs threadGC.    *)
(***************************************************************************)
InitDev(d) ==
  /\ gcpc = "idle"
  /\ Goto(d, "unreg", "idle")
  /\ loop' = TRUE
  /\ UNCHANGED <<tmp, threads, pin, level, message, live, content, gcpc, changes>>

\* initDev's early returns: no gpio-platform, "none", wiringXSetup < 0.
InitFail(d) ==
  /\ gcpc = "idle"
  /\ Goto(d, "unreg", "none")
  /\ UNCHANGED <<tmp, threads, loop, pin, level, message, live, content, gcpc, changes>>

\* thread(): the thread is scheduled and reads node->param.
Start(d) ==
  /\ Goto(d, "idle", "inc")
  /\ UNCHANGED <<tmp, threads, loop, pin, level, message, live, content, gcpc, changes>>

\* threads++ : load, then store.
IncRead(d) ==
  /\ Goto(d, "inc", "inc_w")
  /\ tmp' = [tmp EXCEPT ![d] = threads]
  /\ UNCHANGED <<threads, loop, pin, level, message, live, content, gcpc, changes>>

IncWrite(d) ==
  /\ Goto(d, "inc_w", "setup")
  /\ threads' = tmp[d] + 1
  /\ UNCHANGED <<tmp, loop, pin, level, message, live, content, gcpc, changes>>

\* pinMode and the first digitalRead, then createMessage(id, state).
Setup(d) ==
  /\ Goto(d, "setup", "make")
  /\ level' = [level EXCEPT ![d] = pin[d]]
  /\ UNCHANGED <<tmp, threads, loop, pin, message, live, content, gcpc, changes>>

(***************************************************************************)
(* createMessage: every statement re-reads gpio_switch->message.          *)
(***************************************************************************)
Make(d) ==
  /\ Goto(d, "make", "fill")
  /\ message' = d
  /\ live' = live \cup {d}
  /\ content' = [content EXCEPT ![d] = Nil]
  /\ UNCHANGED <<tmp, threads, loop, pin, level, gcpc, changes>>

\* json_append_member(gpio_switch->message, "message", code) and the
\* "origin" and "protocol" members, into whatever object it points at now.
Fill(d) ==
  /\ Goto(d, "fill", "bcast")
  /\ content' = IF message = Nil THEN content ELSE [content EXCEPT ![message] = d]
  /\ UNCHANGED <<tmp, threads, loop, pin, level, message, live, gcpc, changes>>

\* pilight.broadcast(gpio_switch->id, gpio_switch->message, PROTOCOL).
Bcast(d) ==
  /\ Goto(d, "bcast", "del")
  /\ UNCHANGED <<tmp, threads, loop, pin, level, message, live, content, gcpc, changes>>

\* json_delete(gpio_switch->message).
Del(d) ==
  /\ Goto(d, "del", "clr")
  /\ live' = live \ {message}
  /\ UNCHANGED <<tmp, threads, loop, pin, level, message, content, gcpc, changes>>

\* gpio_switch->message = NULL; back to the polling loop.
Clr(d) ==
  /\ Goto(d, "clr", "poll")
  /\ message' = Nil
  /\ UNCHANGED <<tmp, threads, loop, pin, level, live, content, gcpc, changes>>

(***************************************************************************)
(* while(loop): digitalRead; on a change, store it and createMessage.     *)
(* A poll that sees no change leaves the state as it was.                 *)
(***************************************************************************)
Poll(d) ==
  /\ loop
  /\ pin[d] # level[d]
  /\ Goto(d, "poll", "make")
  /\ level' = [level EXCEPT ![d] = pin[d]]
  /\ UNCHANGED <<tmp, threads, loop, pin, message, live, content, gcpc, changes>>

Exit(d) ==
  /\ ~loop
  /\ Goto(d, "poll", "dec")
  /\ UNCHANGED <<tmp, threads, loop, pin, level, message, live, content, gcpc, changes>>

\* threads-- : load, then store.
DecRead(d) ==
  /\ Goto(d, "dec", "dec_w")
  /\ tmp' = [tmp EXCEPT ![d] = threads]
  /\ UNCHANGED <<threads, loop, pin, level, message, live, content, gcpc, changes>>

DecWrite(d) ==
  /\ Goto(d, "dec_w", "done")
  /\ threads' = tmp[d] - 1
  /\ UNCHANGED <<tmp, loop, pin, level, message, live, content, gcpc, changes>>

\* The input level changes (the hardware, not the program).
Toggle(d) ==
  /\ changes < MaxChanges
  /\ pin' = [pin EXCEPT ![d] = 1 - @]
  /\ changes' = changes + 1
  /\ UNCHANGED <<pc, tmp, threads, loop, level, message, live, content, gcpc>>

(***************************************************************************)
(* threadGC: loop = 0 and protocol_thread_stop, then                      *)
(* while(threads > 0) usleep(10), then protocol_thread_free.              *)
(***************************************************************************)
Stop ==
  /\ gcpc = "idle"
  /\ \A d \in Devices : pc[d] # "unreg"
  /\ gcpc' = "wait"
  /\ loop' = FALSE
  /\ UNCHANGED <<pc, tmp, threads, pin, level, message, live, content, changes>>

SpinsWhileNonNeg == threads >= 0
SpinsWhile == threads > 0

\* One turn of the busy-wait: usleep(10) and test again.
Spin ==
  /\ gcpc = "wait"
  /\ SpinsWhile
  /\ UNCHANGED vars

Free ==
  /\ gcpc = "wait"
  /\ ~SpinsWhile
  /\ gcpc' = "done"
  /\ UNCHANGED <<pc, tmp, threads, loop, pin, level, message, live, content, changes>>

Thread(d) ==
  \/ InitDev(d) \/ InitFail(d) \/ Start(d) \/ IncRead(d) \/ IncWrite(d)
  \/ Setup(d) \/ Make(d) \/ Fill(d) \/ Bcast(d) \/ Del(d) \/ Clr(d)
  \/ Poll(d) \/ Exit(d) \/ DecRead(d) \/ DecWrite(d)

\* Once every thread has ended and the nodes are freed nothing is left to do.
Finished ==
  /\ gcpc = "done"
  /\ \A d \in Devices : pc[d] \in {"done", "none"}
  /\ UNCHANGED vars

Next ==
  \/ \E d \in Devices : Thread(d) \/ Toggle(d)
  \/ Stop \/ Spin \/ Free
  \/ Finished

\* Device threads and threadGC are OS threads: each keeps running while it
\* can.  Shutdown itself (Stop) and the hardware are not obliged to happen.
Fairness ==
  /\ \A d \in Devices : WF_vars(Thread(d))
  /\ WF_vars(Free)

Spec == Init /\ [][Next]_vars /\ Fairness

-----------------------------------------------------------------------------
\* What a device thread broadcasts (createMessage, lines 55-60) is a live
\* object holding that device's own "message" member, and what it deletes
\* (line 62) is still live.
MessageIntegrity ==
  [][\A d \in Devices :
       /\ (pc[d] = "bcast" /\ pc'[d] = "del") => message \in live /\ content[message] = d
       /\ (pc[d] = "del" /\ pc'[d] = "clr") => message \in live]_vars

\* threadGC frees the thread nodes (protocol_thread_free, line 191) only
\* when no thread can still read its node.
FreeAfterThreads ==
  gcpc = "done" => \A d \in Devices : pc[d] \in {"none", "done"}

\* Once shutdown has begun (threadGC, line 186), threadGC returns.
ShutdownCompletes == gcpc = "wait" ~> gcpc = "done"

=============================================================================
