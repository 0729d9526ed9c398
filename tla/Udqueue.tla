------------------------------ MODULE Udqueue ------------------------------
(***************************************************************************)
(* The queue of the UNIDATA library (port/misc/udqueue.c): a FIFO that     *)
(* threads share.  A mutex guards the FIFO; one condition variable serves  *)
(* those that wait for room and those that wait for an element.  The modes *)
(* are changed without the mutex.                                          *)
(*                                                                         *)
(* The steps of a call are those between which another thread's step can   *)
(* be seen: lock, look, wait, act and unlock, signal.                      *)
(***************************************************************************)
EXTENDS Udfifo, FiniteSets

CONSTANTS
  Producers,   (* threads that call udqueue_put, again and again            *)
  Consumers,   (* threads that call udqueue_get                             *)
  PutModes,    (* the modes that a further thread sets for putting ...      *)
  GetModes     (* ... and for getting                                       *)

Modes == {"WAIT", "NOWAIT", "FORCE"}

ASSUME UdqueueAssumption ==
  /\ Producers \cap Consumers = {}
  /\ PutModes \subseteq Modes /\ GetModes \subseteq Modes \ {"FORCE"}

Threads == Producers \cup Consumers

VARIABLES
  putmode,     (* WAIT, NOWAIT or FORCE                                     *)
  getmode,     (* WAIT or NOWAIT                                            *)
  mutex,       (* the thread that has the mutex, or {}                      *)
  pc,          (* per thread: the next step of its call; "lock" when it is  *)
               (* outside a call or wants the mutex                         *)
  setter,      (* the next step of the thread that sets modes: "idle",      *)
               (* "fifo" or "broadcast"                                     *)
  looked,      (* per thread: the mode it saw when it looked                *)
  status       (* per thread: what its call will return                     *)

sync == <<putmode, getmode, mutex, pc, setter>>
qvars == <<fvars, sync, looked, status>>

PCs == {"lock", "look", "block", "waiting", "act", "signal"}

(* Types of the ring buffer, the modes, the mutex and the threads' places;  *)
(* the indices stay within the buffer whatever the threads do.             *)
QTypeOK ==
  /\ FTypeOK
  /\ putmode \in Modes /\ getmode \in Modes \ {"FORCE"}
  /\ mutex \subseteq Threads
  /\ pc \in [Threads -> PCs]
  /\ setter \in {"idle", "fifo", "broadcast"}
  /\ looked \in [Threads -> Modes]
  /\ status \in [Threads -> {-1, 0, 1}]

(* udqueue_init *)
QInit ==
  /\ FInit
  /\ putmode = "WAIT" /\ getmode = "WAIT"
  /\ mutex = {}
  /\ pc = [t \in Threads |-> "lock"]
  /\ setter = "idle"
  /\ looked = [t \in Threads |-> "WAIT"]
  /\ status = [t \in Threads |-> 0]

-----------------------------------------------------------------------------
Goto(t, where) == pc' = [pc EXCEPT ![t] = where]

Waiting == {t \in Threads : pc[t] = "waiting"}

(* The condition of the loop: the thread's action is not possible. *)
MustWait(t) ==
  \/ t \in Producers /\ putmode = "WAIT" /\ FSpace = 0
  \/ t \in Consumers /\ getmode = "WAIT" /\ count = 0

-----------------------------------------------------------------------------
(* Mutant of Lock: the mutex is not taken. *)
LockNot(t) ==
  /\ pc[t] = "lock"
  /\ Goto(t, "look")
  /\ UNCHANGED <<fvars, putmode, getmode, mutex, setter, looked, status>>

(* udqueue_put or udqueue_get locks, at its start or after a wait. *)
Lock(t) ==
  /\ pc[t] = "lock"
  /\ mutex = {}
  /\ mutex' = {t}
  /\ Goto(t, "look")
  /\ UNCHANGED <<fvars, putmode, getmode, setter, looked, status>>

Look(t) ==
  /\ pc[t] = "look"
  /\ Goto(t, IF MustWait(t) THEN "block" ELSE "act")
  /\ looked' = [looked EXCEPT ![t] = IF t \in Producers THEN putmode ELSE getmode]
  /\ UNCHANGED <<fvars, putmode, getmode, mutex, setter, status>>

(* uthread_cond_wait: the mutex is given up and the thread waits. *)
Block(t) ==
  /\ pc[t] = "block"
  /\ mutex' = {}
  /\ Goto(t, "waiting")
  /\ UNCHANGED <<fvars, putmode, getmode, setter, looked, status>>

(* The element is put, and the mutex released. *)
ActPut(t) ==
  /\ pc[t] = "act" /\ t \in Producers
  /\ \E x \in Elts : FifoPut(x)
  /\ status' = [status EXCEPT ![t] = PutStatus]
  /\ mutex' = {}
  /\ Goto(t, "signal")
  /\ UNCHANGED <<putmode, getmode, setter, looked>>

ActGet(t) ==
  /\ pc[t] = "act" /\ t \in Consumers
  /\ FifoGet
  /\ status' = [status EXCEPT ![t] = GetStatus]
  /\ mutex' = {}
  /\ Goto(t, "signal")
  /\ UNCHANGED <<putmode, getmode, setter, looked>>

(* Mutant of Signal: nobody is woken. *)
SignalNobody(t) ==
  /\ pc[t] = "signal"
  /\ Goto(t, "lock")
  /\ looked' = [looked EXCEPT ![t] = "WAIT"]
  /\ status' = [status EXCEPT ![t] = 0]
  /\ UNCHANGED <<fvars, putmode, getmode, mutex, setter>>

(* uthread_cond_signal wakes one waiting thread, of either kind; it looks  *)
(* again once it has the mutex.                                            *)
Signal(t) ==
  /\ pc[t] = "signal"
  /\ \/ Waiting = {} /\ Goto(t, "lock")
     \/ \E w \in Waiting : pc' = [pc EXCEPT ![t] = "lock", ![w] = "lock"]
  /\ looked' = [looked EXCEPT ![t] = "WAIT"]
  /\ status' = [status EXCEPT ![t] = 0]
  /\ UNCHANGED <<fvars, putmode, getmode, mutex, setter>>

(* A wait may end without a signal. *)
WakeUp(t) ==
  /\ pc[t] = "waiting"
  /\ Goto(t, "lock")
  /\ UNCHANGED <<fvars, putmode, getmode, mutex, setter, looked, status>>

(* udqueue_setputmode: the queue's mode, the FIFO's mode, the broadcast. *)
SetPutMode(m) ==
  /\ setter = "idle"
  /\ putmode' = m
  /\ setter' = "fifo"
  /\ UNCHANGED <<fvars, getmode, mutex, pc, looked, status>>

(* udqueue_setgetmode: the mode, the broadcast. *)
SetGetMode(m) ==
  /\ setter = "idle"
  /\ getmode' = m
  /\ setter' = "broadcast"
  /\ UNCHANGED <<fvars, putmode, mutex, pc, looked, status>>

SetFifoMode ==
  /\ setter = "fifo"
  /\ FifoSetMode(IF putmode = "FORCE" THEN "FORCE" ELSE "0")
  /\ setter' = "broadcast"
  /\ UNCHANGED <<putmode, getmode, mutex, pc, looked, status>>

Broadcast ==
  /\ setter = "broadcast"
  /\ pc' = [t \in Threads |-> IF t \in Waiting THEN "lock" ELSE pc[t]]
  /\ setter' = "idle"
  /\ UNCHANGED <<fvars, putmode, getmode, mutex, looked, status>>

-----------------------------------------------------------------------------
QNext ==
  \/ \E t \in Threads :
       \/ Lock(t)
       \/ Look(t)
       \/ Block(t)
       \/ ActPut(t)
       \/ ActGet(t)
       \/ Signal(t)
       \/ WakeUp(t)
  \/ \E m \in PutModes : SetPutMode(m)
  \/ \E m \in GetModes : SetGetMode(m)
  \/ SetFifoMode
  \/ Broadcast

QSpec == QInit /\ [][QNext]_qvars

-----------------------------------------------------------------------------
(* Someone can go on: it never comes to every thread waiting, although in  *)
(* every state a put or a get is possible ("wait until action possible",   *)
(* udqueue.h:18).  One signal for two kinds of waiters makes it a question *)
(* of how many threads share how large a queue (udqueue.c:169-192).        *)
NotAllWaiting == Threads # {} => Waiting # Threads

(* Those that will look for an element, or hand a wakeup on to one that    *)
(* does; and the same for room.                                            *)
ForElements == {p \in Producers : pc[p] = "signal"} \cup (Consumers \ Waiting)
ForRoom == {c \in Consumers : pc[c] = "signal"} \cup (Producers \ Waiting)

(* No wakeup is lost, and none goes to the wrong kind of thread, though    *)
(* one condition variable serves both: producers and consumers never wait  *)
(* together; while a consumer waits there is for every element a thread    *)
(* that will look for one or is about to signal, and while a producer      *)
(* waits one for every free place (udqueue.c:169-192, 217-240).            *)
NoLostWakeup ==
  /\ Waiting \subseteq Producers \/ Waiting \subseteq Consumers
  /\ Waiting \cap Consumers # {} => count <= Cardinality(ForElements)
  /\ Waiting \cap Producers # {} => FSpace <= Cardinality(ForRoom)

(* A put that saw WAIT mode has put its element, and a get has got one:    *)
(* nothing comes between the look and the act, whatever other threads and  *)
(* a change of mode do (udqueue.c:175-181, 224-230).                       *)
WaitedPutSucceeds ==
  \A t \in Threads : pc[t] = "signal" /\ looked[t] = "WAIT" => status[t] = 0

(* A put in FORCE mode does not fail: "discard oldest if necessary"        *)
(* (udqueue.h:21).                                                         *)
ForcedPutSucceeds ==
  \A t \in Producers : pc[t] = "signal" /\ looked[t] = "FORCE" => status[t] # -1
=============================================================================
