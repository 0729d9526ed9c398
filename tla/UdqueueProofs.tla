--------------------------- MODULE UdqueueProofs ---------------------------
(***************************************************************************)
(* Theorems about the FIFO and the queue, for every size, every set of     *)
(* elements and threads, and every change of modes.                        *)
(***************************************************************************)
EXTENDS Udqueue, FiniteSetTheorems, SequenceTheorems, TLAPS

(* The destination is count places behind the source. *)
Distance ==
  tail = IF head + count < MaxElts THEN head + count ELSE head + count - MaxElts

FInv == FTypeOK /\ Distance

LEMMA FInitInv == FInit => FInv
  BY UdfifoAssumption DEF FInit, FInv, FTypeOK, Distance, Places, FModes

LEMMA PutInv == ASSUME FInv, NEW x \in Elts, FifoPut(x) PROVE FInv'
  <1> USE UdfifoAssumption
  <1>1. FTypeOK'
    BY DEF FInv, FTypeOK, FifoPut, FSpace, PutStatus, After, Places, FModes
  <1>2. Distance'
    BY DEF FInv, FTypeOK, Distance, FifoPut, FSpace, PutStatus, After, Places
  <1> QED
    BY <1>1, <1>2 DEF FInv

LEMMA GetInv == ASSUME FInv, FifoGet PROVE FInv'
  <1> USE UdfifoAssumption
  <1>1. FTypeOK'
    BY DEF FInv, FTypeOK, FifoGet, After, Places
  <1>2. Distance'
    BY DEF FInv, FTypeOK, Distance, FifoGet, After, Places
  <1> QED
    BY <1>1, <1>2 DEF FInv

LEMMA FStepInv == FInv /\ [FNext]_fvars => FInv'
  <1> SUFFICES ASSUME FInv, [FNext]_fvars
               PROVE  FInv'
    OBVIOUS
  <1>1. ASSUME NEW m \in FModes, FifoSetMode(m)
        PROVE  FInv'
    BY <1>1 DEF FifoSetMode, fifo, FInv, FTypeOK, Distance
  <1>2. CASE UNCHANGED fvars
    BY <1>2 DEF fvars, fifo, FInv, FTypeOK, Distance
  <1> QED
    BY <1>1, <1>2, PutInv, GetInv DEF FNext

(* The buffer keeps its type and the destination its distance from the     *)
(* source (udfifo.c:92-157).                                               *)
THEOREM FifoTypeCorrect == FSpec => []FTypeOK
  <1>1. FInv => FTypeOK
    BY DEF FInv
  <1> QED
    BY <1>1, FInitInv, FStepInv, PTL DEF FSpec

-----------------------------------------------------------------------------
(* The places of the elements, and of the next one, differ. *)
LEMMA PlaceFacts ==
  ASSUME FInv
  PROVE  /\ \A i \in 1..count : Place(i) \in Places
         /\ \A i \in 1..count : count < MaxElts => Place(i) # tail
         /\ count < MaxElts => Place(count + 1) = tail
         /\ count = MaxElts => tail = head
  BY UdfifoAssumption DEF FInv, FTypeOK, Distance, Place, Places

LEMMA ItemsType == ASSUME FInv PROVE Items \in Seq(Elts) /\ Len(Items) = count
  <1>1. \A i \in 1..count : buf[Place(i)] \in Elts
    BY PlaceFacts DEF FInv, FTypeOK
  <1>2. count \in Nat
    BY UdfifoAssumption DEF FInv, FTypeOK
  <1>3. Items \in [1..count -> Elts]
    BY <1>1 DEF Items
  <1> QED
    BY <1>2, <1>3

(* The tail of a sequence, element by element. *)
LEMMA TailElements ==
  ASSUME NEW S, NEW s \in Seq(S), Len(s) > 0
  PROVE  Tail(s) = [i \in 1..(Len(s) - 1) |-> s[i + 1]]
  <1> DEFINE t == [i \in 1..(Len(s) - 1) |-> s[i + 1]]
  <1>1. s # <<>> /\ Len(s) \in Nat /\ \A i \in 1..Len(s) : s[i] \in S
    OBVIOUS
  <1>2. Tail(s) \in Seq(S) /\ Len(Tail(s)) = Len(s) - 1
        /\ \A i \in 1..Len(Tail(s)) : Tail(s)[i] = s[i + 1]
    BY <1>1, HeadTailProperties
  <1>3. t \in [1..(Len(s) - 1) -> S]
    BY <1>1
  <1>4. t \in Seq(S) /\ Len(t) = Len(s) - 1
    BY <1>1, <1>3
  <1>5. \A i \in 1..Len(t) : t[i] = Tail(s)[i]
    BY <1>1, <1>2, <1>4
  <1> QED
    BY <1>2, <1>4, <1>5, SeqEqual

(* A put with room adds the element at the end. *)
LEMMA PutAdds ==
  ASSUME FInv, NEW x \in Elts, FifoPut(x), FSpace > 0
  PROVE  Items' = Append(Items, x)
  <1> USE UdfifoAssumption
  <1>1. /\ buf' = [buf EXCEPT ![tail] = x] /\ count' = count + 1 /\ head' = head
        /\ count \in Nat /\ count < MaxElts /\ buf \in [Places -> Elts] /\ tail \in Places
    BY DEF FifoPut, PutStatus, FSpace, FInv, FTypeOK
  <1>2. \A i \in 1..count' : Place(i)' = Place(i)
    BY <1>1 DEF Place
  <1>3. \A i \in 1..count : buf'[Place(i)] = buf[Place(i)]
    BY <1>1, PlaceFacts
  <1>4. buf'[Place(count + 1)] = x
    BY <1>1, PlaceFacts
  <1>5. Items' = [i \in 1..(count + 1) |-> IF i <= count THEN buf[Place(i)] ELSE x]
    BY <1>1, <1>2, <1>3, <1>4 DEF Items
  <1>6. Len(Items) = count /\ Items \in Seq(Elts)
    BY ItemsType
  <1> QED
    BY <1>5, <1>6, <1>1 DEF Items

(* A get takes the first element away. *)
LEMMA GetRemoves ==
  ASSUME FInv, FifoGet, count > 0
  PROVE  Items # <<>> /\ Items' = Tail(Items)
  <1> USE UdfifoAssumption
  <1>1. /\ buf' = buf /\ count' = count - 1 /\ head' = After(head)
        /\ count \in 1..MaxElts /\ head \in Places
    BY DEF FifoGet, FInv, FTypeOK
  <1>2. \A i \in 1..(count - 1) : Place(i)' = Place(i + 1)
    BY <1>1 DEF Place, After, Places
  <1>3. Items' = [i \in 1..(count - 1) |-> buf[Place(i + 1)]]
    BY <1>1, <1>2 DEF Items
  <1>4. Len(Items) = count /\ Items \in Seq(Elts)
    BY ItemsType
  <1>5. Items # <<>>
    BY <1>1, <1>4
  <1>6. Tail(Items) = [i \in 1..(count - 1) |-> Items[i + 1]]
    BY <1>1, <1>4, TailElements
  <1> QED
    BY <1>1, <1>3, <1>5, <1>6 DEF Items

(* A forced put into a full buffer drops the oldest element and adds one. *)
LEMMA PutReplaces ==
  ASSUME FInv, NEW x \in Elts, FifoPut(x), FSpace = 0, fmode = "FORCE"
  PROVE  Len(Items) = MaxElts /\ Items' = Append(Tail(Items), x)
  <1> USE UdfifoAssumption
  <1>1. /\ buf' = [buf EXCEPT ![tail] = x] /\ count' = count /\ head' = After(head)
        /\ count = MaxElts /\ tail = head /\ buf \in [Places -> Elts] /\ head \in Places
    BY PlaceFacts DEF FifoPut, PutStatus, FSpace, FInv, FTypeOK
  <1>2. \A i \in 1..(count - 1) : Place(i)' = Place(i + 1) /\ Place(i + 1) # head
    BY <1>1 DEF Place, After, Places
  <1>3. Place(count)' = head
    BY <1>1 DEF Place, After, Places
  <1>4. \A i \in 1..(count - 1) : buf'[Place(i)'] = buf[Place(i + 1)]
    <2>1. \A i \in 1..(count - 1) : Place(i + 1) \in Places
      BY <1>1, PlaceFacts
    <2> QED
      BY <1>1, <1>2, <2>1
  <1>5. Items' = [i \in 1..count |-> IF i < count THEN buf[Place(i + 1)] ELSE x]
    BY <1>1, <1>3, <1>4 DEF Items
  <1>6. Len(Items) = count /\ Items \in Seq(Elts)
    BY ItemsType
  <1> DEFINE rest == Tail(Items)
  <1>7. /\ rest \in Seq(Elts) /\ Len(rest) = count - 1
        /\ \A i \in 1..(count - 1) : rest[i] = buf[Place(i + 1)]
    <2>1. rest = [i \in 1..(count - 1) |-> Items[i + 1]]
      BY <1>1, <1>6, TailElements
    <2>2. rest \in Seq(Elts) /\ Len(rest) = count - 1
      BY <1>1, <1>6, HeadTailProperties
    <2> QED
      BY <1>1, <2>1, <2>2 DEF Items
  <1> HIDE DEF rest
  <1>8. Append(rest, x) = [i \in 1..count |-> IF i < count THEN buf[Place(i + 1)] ELSE x]
    <2> DEFINE s == Append(rest, x)
               t == [i \in 1..count |-> IF i < count THEN buf[Place(i + 1)] ELSE x]
    <2>1. /\ s \in Seq(Elts) /\ Len(s) = count
          /\ \A i \in 1..(count - 1) : s[i] = rest[i]
          /\ s[count] = x
      BY <1>1, <1>7, AppendProperties
    <2>2. \A i \in 1..count : (IF i < count THEN buf[Place(i + 1)] ELSE x) \in Elts
      BY <1>1, PlaceFacts DEF FInv, FTypeOK
    <2>3. t \in [1..count -> Elts]
      BY <2>2
    <2>4. t \in Seq(Elts) /\ Len(t) = count
      BY <1>1, <2>3
    <2>5. \A i \in 1..count : s[i] = t[i]
      BY <1>1, <1>7, <2>1
    <2> QED
      BY <2>1, <2>4, <2>5, SeqEqual
  <1> QED
    BY <1>1, <1>5, <1>6, <1>8 DEF rest

(* Every step of the ring buffer is a step of the bounded FIFO, or none. *)
LEMMA FifoStep == FInv /\ [FNext]_fvars => [Fifo!Next]_Items
  <1> SUFFICES ASSUME FInv, [FNext]_fvars
               PROVE  [Fifo!Next]_Items
    OBVIOUS
  <1> USE UdfifoAssumption
  <1>1. ASSUME NEW x \in Elts, FifoPut(x)
        PROVE  [Fifo!Next]_Items
    <2>1. CASE FSpace > 0
      <3>1. Items' = Append(Items, x) /\ Len(Items) < MaxElts
        BY <1>1, <2>1, PutAdds, ItemsType DEF FSpace, FInv, FTypeOK
      <3> QED
        BY <3>1 DEF Fifo!Next, Fifo!Add
    <2>2. CASE FSpace = 0 /\ fmode = "FORCE"
      <3>1. Items' = Append(Tail(Items), x) /\ Len(Items) = MaxElts
        BY <1>1, <2>2, PutReplaces
      <3> QED
        BY <3>1 DEF Fifo!Next, Fifo!Replace
    <2>3. CASE FSpace = 0 /\ fmode # "FORCE"
      <3>1. UNCHANGED <<buf, head, count>>
        BY <1>1, <2>3 DEF FifoPut, PutStatus
      <3> QED
        BY <3>1 DEF Items, Place
    <2> QED
      BY <2>1, <2>2, <2>3 DEF FSpace, FInv, FTypeOK
  <1>2. CASE FifoGet
    <2>1. CASE count > 0
      BY <1>2, <2>1, GetRemoves DEF Fifo!Next, Fifo!Remove
    <2>2. CASE count = 0
      BY <1>2, <2>2 DEF FifoGet, Items, Place
    <2> QED
      BY <2>1, <2>2 DEF FInv, FTypeOK
  <1>3. CASE UNCHANGED fifo
    BY <1>3 DEF fifo, Items, Place
  <1> QED
    BY <1>1, <1>2, <1>3 DEF FNext, FifoSetMode, fvars

(* The ring buffer of any size is a bounded FIFO (udfifo.c:92-157). *)
THEOREM FifoIsFifo == FSpec => ImplementsFifo
  <1>1. FInit => Fifo!Init
    BY DEF FInit, Fifo!Init, Items
  <1>2. FInv /\ [FNext]_fvars => [Fifo!Next]_Items
    BY FifoStep
  <1> QED
    BY <1>1, <1>2, FInitInv, FStepInv, PTL DEF FSpec, ImplementsFifo, Fifo!Spec

-----------------------------------------------------------------------------
(* A thread within the locked part of its call has the mutex. *)
Owner == \A t \in Threads : pc[t] \in {"look", "block", "act"} => mutex = {t}

(* A thread that saw WAIT mode acts only when its action is possible. *)
Ready ==
  \A t \in Threads : pc[t] = "act" /\ looked[t] = "WAIT" =>
    /\ t \in Producers => FSpace > 0
    /\ t \in Consumers => count > 0

QInv == QTypeOK /\ Distance /\ Owner /\ Ready /\ WaitedPutSucceeds

LEMMA QInitInv == QInit => QInv
  <1> SUFFICES ASSUME QInit
               PROVE  QInv
    OBVIOUS
  <1>1. FInv
    BY FInitInv DEF QInit
  <1>2. QTypeOK
    BY <1>1 DEF QInit, QTypeOK, FInv, PCs, Modes
  <1> QED
    BY <1>1, <1>2 DEF QInit, QInv, FInv, Owner, Ready, WaitedPutSucceeds

(* A step of the queue is a step of the FIFO, or leaves the FIFO alone. *)
LEMMA QueueStep == [QNext]_qvars => [FNext]_fvars
  <1> SUFFICES ASSUME [QNext]_qvars
               PROVE  [FNext]_fvars
    OBVIOUS
  <1>1. ASSUME NEW t \in Threads, ActPut(t)
        PROVE  FNext
    BY <1>1 DEF ActPut, FNext
  <1>2. ASSUME NEW t \in Threads, ActGet(t)
        PROVE  FNext
    BY <1>2 DEF ActGet, FNext
  <1>3. CASE SetFifoMode
    BY <1>3 DEF SetFifoMode, FNext, FModes
  <1>4. ASSUME NEW t \in Threads, Lock(t) \/ Look(t) \/ Block(t) \/ Signal(t) \/ WakeUp(t)
        PROVE  UNCHANGED fvars
    BY <1>4 DEF Lock, Look, Block, Signal, WakeUp
  <1>5. ASSUME NEW m \in Modes, SetPutMode(m) \/ SetGetMode(m)
        PROVE  UNCHANGED fvars
    BY <1>5 DEF SetPutMode, SetGetMode
  <1>6. CASE Broadcast \/ UNCHANGED qvars
    BY <1>6 DEF Broadcast, qvars
  <1> QED
    BY <1>1, <1>2, <1>3, <1>4, <1>5, <1>6, UdqueueAssumption DEF QNext

LEMMA QStepInv == QInv /\ [QNext]_qvars => QInv'
  <1> SUFFICES ASSUME QInv, [QNext]_qvars
               PROVE  QInv'
    OBVIOUS
  <1>0. FInv /\ FInv'
    BY QueueStep, FStepInv DEF QInv, QTypeOK, FInv
  <1> USE UdfifoAssumption, UdqueueAssumption
  <1>1. ASSUME NEW t \in Threads, Lock(t) \/ Look(t) \/ Block(t)
        PROVE  QInv'
    <2>1. QTypeOK'
      BY <1>0, <1>1 DEF Lock, Look, Block, Goto, QInv, QTypeOK, FInv, PCs
    <2>2. Owner'
      BY <1>1 DEF Lock, Look, Block, Goto, QInv, QTypeOK, Owner
    <2>3. Ready' /\ WaitedPutSucceeds'
      BY <1>1 DEF Lock, Look, Block, Goto, MustWait, QInv, QTypeOK, FTypeOK, FSpace,
                  Ready, WaitedPutSucceeds, Threads, fvars, fifo
    <2> QED
      BY <1>0, <2>1, <2>2, <2>3 DEF QInv, FInv
  <1>2. ASSUME NEW t \in Threads, ActPut(t) \/ ActGet(t)
        PROVE  QInv'
    <2>1. /\ mutex = {t} /\ pc[t] = "act" /\ mutex' = {}
          /\ pc' = [pc EXCEPT ![t] = "signal"] /\ looked' = looked
          /\ UNCHANGED <<putmode, getmode, setter>>
      BY <1>2 DEF ActPut, ActGet, Goto, QInv, Owner
    <2>2. \E v \in {-1, 0, 1} :
            status' = [status EXCEPT ![t] = v] /\ (looked[t] = "WAIT" => v = 0)
      BY <1>2 DEF ActPut, ActGet, PutStatus, GetStatus, QInv, Ready
    <2>3. QTypeOK'
      BY <1>0, <2>1, <2>2 DEF QInv, QTypeOK, FInv, PCs
    <2>4. \A u \in Threads : pc'[u] \notin {"look", "block", "act"}
      BY <2>1 DEF QInv, QTypeOK, Owner
    <2>5. WaitedPutSucceeds'
      BY <2>1, <2>2 DEF QInv, QTypeOK, WaitedPutSucceeds
    <2> QED
      BY <1>0, <2>3, <2>4, <2>5 DEF QInv, FInv, Owner, Ready
  <1>3. ASSUME NEW t \in Threads, Signal(t) \/ WakeUp(t)
        PROVE  QInv'
    <2>1. QTypeOK'
      BY <1>0, <1>3 DEF Signal, WakeUp, Goto, Waiting, QInv, QTypeOK, FInv, PCs, Modes
    <2>2. Owner' /\ Ready' /\ WaitedPutSucceeds'
      BY <1>3 DEF Signal, WakeUp, Goto, Waiting, QInv, QTypeOK, Owner, Ready,
                  WaitedPutSucceeds, FSpace, fvars, fifo
    <2> QED
      BY <1>0, <2>1, <2>2 DEF QInv, FInv
  <1>4. ASSUME NEW m \in Modes, SetPutMode(m) \/ (SetGetMode(m) /\ m # "FORCE")
        PROVE  QInv'
    BY <1>0, <1>4 DEF SetPutMode, SetGetMode, QInv, QTypeOK, FInv, Owner, Ready,
                      WaitedPutSucceeds, FSpace, fvars, fifo
  <1>5. CASE SetFifoMode
    BY <1>0, <1>5 DEF SetFifoMode, FifoSetMode, QInv, QTypeOK, FInv, Owner, Ready,
                      WaitedPutSucceeds, FSpace, fifo
  <1>6. CASE Broadcast
    BY <1>0, <1>6 DEF Broadcast, Waiting, QInv, QTypeOK, FInv, Owner, Ready,
                      WaitedPutSucceeds, FSpace, PCs, fvars, fifo
  <1>7. CASE UNCHANGED qvars
    BY <1>0, <1>7 DEF qvars, sync, QInv, QTypeOK, FInv, Owner, Ready,
                      WaitedPutSucceeds, FSpace, fvars, fifo
  <1> QED
    BY <1>1, <1>2, <1>3, <1>4, <1>5, <1>6, <1>7 DEF QNext

(* The queue keeps its types, whatever the threads and the modes do        *)
(* (udqueue.c:102-245).                                                    *)
THEOREM QueueTypeCorrect == QSpec => []QTypeOK
  <1>1. QInv => QTypeOK
    BY DEF QInv
  <1> QED
    BY <1>1, QInitInv, QStepInv, PTL DEF QSpec

(* A call that saw WAIT mode and went on succeeds (udqueue.c:173-245). *)
THEOREM WaitedSucceeds == QSpec => []WaitedPutSucceeds
  <1>1. QInv => WaitedPutSucceeds
    BY DEF QInv
  <1> QED
    BY <1>1, QInitInv, QStepInv, PTL DEF QSpec

-----------------------------------------------------------------------------
(* A thread about to wait has seen, with the mutex, that its action is     *)
(* impossible, and nobody has changed that.                                *)
Blocked ==
  \A t \in Threads : pc[t] = "block" =>
    /\ t \in Producers => FSpace = 0
    /\ t \in Consumers => count = 0

WaitInv == QInv /\ Blocked /\ NoLostWakeup

(* There are not more threads than elements and one. *)
FewThreads == IsFiniteSet(Threads) /\ Cardinality(Threads) <= MaxElts + 1

(* Who is in the sets of NoLostWakeup is a thread. *)
LEMMA AwakeFacts ==
  ASSUME FewThreads
  PROVE  /\ ForElements \subseteq Threads /\ ForRoom \subseteq Threads
         /\ IsFiniteSet(ForElements) /\ IsFiniteSet(ForRoom)
         /\ Cardinality(ForElements) \in Nat /\ Cardinality(ForRoom) \in Nat
  <1>1. ForElements \subseteq Threads /\ ForRoom \subseteq Threads
    BY DEF ForElements, ForRoom, Threads
  <1> QED
    BY <1>1, FS_Subset, FS_CardinalityType DEF FewThreads

(* To leave two threads out leaves less than the queue's size. *)
LEMMA WithoutTwo ==
  ASSUME FewThreads, NEW S, NEW p \in Threads, NEW c \in Threads, p # c,
         S \subseteq Threads \ {p, c}
  PROVE  Cardinality(S) < MaxElts
  <1>1. /\ IsFiniteSet(Threads \ {p}) /\ Cardinality(Threads \ {p}) = Cardinality(Threads) - 1
        /\ Cardinality(Threads) \in Nat
    BY FS_RemoveElement, FS_CardinalityType DEF FewThreads
  <1> DEFINE rest == (Threads \ {p}) \ {c}
  <1>2. IsFiniteSet(rest) /\ Cardinality(rest) = Cardinality(Threads \ {p}) - 1
    BY <1>1, FS_RemoveElement
  <1>3. S \subseteq rest
    OBVIOUS
  <1> HIDE DEF rest
  <1>4. Cardinality(S) <= Cardinality(rest) /\ Cardinality(S) \in Nat
    BY <1>2, <1>3, FS_Subset, FS_CardinalityType
  <1> QED
    BY <1>1, <1>2, <1>4, UdfifoAssumption DEF FewThreads

(* One that goes and another that comes leave as many as there were. *)
LEMMA Exchange ==
  ASSUME NEW S, IsFiniteSet(S), NEW t, NEW w, w \notin S
  PROVE  /\ IsFiniteSet((S \ {t}) \cup {w})
         /\ Cardinality(S) <= Cardinality((S \ {t}) \cup {w})
  <1>1. /\ IsFiniteSet(S \ {t}) /\ Cardinality(S \ {t}) \in Nat /\ Cardinality(S) \in Nat
        /\ Cardinality(S) <= Cardinality(S \ {t}) + 1
    <2>1. Cardinality(S) \in Nat
      BY FS_CardinalityType
    <2>2. CASE t \in S
      <3>1. IsFiniteSet(S \ {t}) /\ Cardinality(S \ {t}) = Cardinality(S) - 1
        BY <2>2, FS_RemoveElement
      <3>2. Cardinality(S \ {t}) \in Nat
        BY <3>1, FS_CardinalityType
      <3> QED
        BY <2>1, <3>1, <3>2
    <2>3. CASE t \notin S
      <3>1. S \ {t} = S
        BY <2>3
      <3> QED
        BY <2>1, <3>1
    <2> QED
      BY <2>2, <2>3
  <1>2. w \notin S \ {t}
    OBVIOUS
  <1>3. /\ IsFiniteSet((S \ {t}) \cup {w})
        /\ Cardinality((S \ {t}) \cup {w}) = Cardinality(S \ {t}) + 1
    BY <1>1, <1>2, FS_AddElement
  <1> QED
    BY <1>1, <1>3

LEMMA KeepsBlocked == ASSUME WaitInv, [QNext]_qvars PROVE Blocked'
  <1> USE UdfifoAssumption, UdqueueAssumption
  <1>0. QInv /\ Blocked /\ pc \in [Threads -> PCs]
    BY DEF WaitInv, QInv, QTypeOK
  <1>1. ASSUME NEW t \in Threads, Lock(t) \/ Look(t) \/ Block(t) \/ Signal(t) \/ WakeUp(t)
        PROVE  Blocked'
    BY <1>0, <1>1 DEF Lock, Look, Block, Signal, WakeUp, Waiting, Goto, MustWait,
                      Blocked, FSpace, fvars, fifo
  <1>2. ASSUME NEW t \in Threads, ActPut(t) \/ ActGet(t)
        PROVE  Blocked'
    <2>1. mutex = {t} /\ pc[t] = "act" /\ pc' = [pc EXCEPT ![t] = "signal"]
      BY <1>0, <1>2 DEF ActPut, ActGet, Goto, QInv, Owner
    <2>2. \A u \in Threads : pc'[u] # "block"
      BY <1>0, <2>1 DEF QInv, Owner
    <2> QED
      BY <2>2 DEF Blocked
  <1>3. CASE SetFifoMode \/ UNCHANGED qvars \/ \E m : SetPutMode(m) \/ SetGetMode(m)
    BY <1>0, <1>3 DEF SetFifoMode, FifoSetMode, SetPutMode, SetGetMode, qvars, sync,
                      fvars, fifo, Blocked, FSpace
  <1>4. CASE Broadcast
    BY <1>0, <1>4 DEF Broadcast, Waiting, fvars, fifo, Blocked, FSpace
  <1> QED
    BY <1>1, <1>2, <1>3, <1>4 DEF QNext

(* The step that could let both kinds wait is that of a thread that waits  *)
(* while one of the other kind does: then the awake threads would have to  *)
(* be as many as the queue has places, and there are fewer.                *)
LEMMA BlockKeeps ==
  ASSUME FewThreads, WaitInv, NEW t \in Threads, Block(t)
  PROVE  NoLostWakeup'
  <1> USE UdfifoAssumption, UdqueueAssumption
  <1>1. /\ pc \in [Threads -> PCs] /\ pc[t] = "block" /\ count' = count
        /\ pc' = [pc EXCEPT ![t] = "waiting"] /\ count \in 0..MaxElts
    BY DEF WaitInv, QInv, QTypeOK, FTypeOK, Block, Goto, fvars, fifo
  <1>2. Waiting' = Waiting \cup {t} /\ t \notin Waiting
    BY <1>1 DEF Waiting
  <1>3. Cardinality(ForElements') \in Nat /\ Cardinality(ForRoom') \in Nat
    <2>1. ForElements' \subseteq Threads /\ ForRoom' \subseteq Threads
      BY DEF ForElements, ForRoom, Threads
    <2> QED
      BY <2>1, FS_Subset, FS_CardinalityType DEF FewThreads
  <1>4. CASE t \in Producers
    <2>1. FSpace = 0 /\ FSpace' = 0 /\ count = MaxElts
      BY <1>1, <1>4 DEF WaitInv, Blocked, FSpace
    <2>2. Waiting \cap Consumers = {}
      <3> SUFFICES ASSUME NEW c \in Waiting \cap Consumers
                   PROVE  FALSE
        OBVIOUS
      <3>1. ForElements \subseteq Threads \ {t, c} /\ c \in Threads /\ c # t
        BY <1>1, <1>4 DEF ForElements, Threads
      <3>2. Cardinality(ForElements) < MaxElts
        BY <3>1, WithoutTwo
      <3>3. count <= Cardinality(ForElements)
        BY DEF WaitInv, NoLostWakeup
      <3> QED
        BY <2>1, <3>2, <3>3, AwakeFacts
    <2>3. Waiting' \subseteq Producers /\ Waiting' \cap Consumers = {}
      BY <1>2, <1>4, <2>2 DEF Waiting, Threads
    <2> QED
      BY <1>3, <2>1, <2>3 DEF NoLostWakeup
  <1>5. CASE t \in Consumers
    <2>1. count = 0 /\ count' = 0 /\ FSpace = MaxElts
      BY <1>1, <1>5 DEF WaitInv, Blocked, FSpace
    <2>2. Waiting \cap Producers = {}
      <3> SUFFICES ASSUME NEW p \in Waiting \cap Producers
                   PROVE  FALSE
        OBVIOUS
      <3>1. ForRoom \subseteq Threads \ {t, p} /\ p \in Threads /\ p # t
        BY <1>1, <1>5 DEF ForRoom, Threads
      <3>2. Cardinality(ForRoom) < MaxElts
        BY <3>1, WithoutTwo
      <3>3. FSpace <= Cardinality(ForRoom)
        BY DEF WaitInv, NoLostWakeup
      <3> QED
        BY <2>1, <3>2, <3>3, AwakeFacts
    <2>3. Waiting' \subseteq Consumers /\ Waiting' \cap Producers = {}
      BY <1>2, <1>5, <2>2 DEF Waiting, Threads
    <2> QED
      BY <1>3, <2>1, <2>3 DEF NoLostWakeup
  <1> QED
    BY <1>4, <1>5 DEF Threads

(* More that is taken is less that is free. *)
LEMMA Remainder ==
  \A m, x, y \in Int : /\ m - x \in Int
                       /\ x <= y => m - y <= m - x
                       /\ y = x \/ y = x - 1 => m - y <= m - x + 1
  OBVIOUS

(* An element that comes brings the thread that is going to signal it. *)
LEMMA PutKeeps ==
  ASSUME FewThreads, WaitInv, NEW t \in Threads, ActPut(t)
  PROVE  NoLostWakeup'
  <1> USE UdfifoAssumption, UdqueueAssumption
  <1>1. /\ pc \in [Threads -> PCs] /\ pc[t] = "act" /\ t \in Producers
        /\ pc' = [pc EXCEPT ![t] = "signal"] /\ count \in 0..MaxElts
    BY DEF WaitInv, QInv, QTypeOK, FTypeOK, ActPut, Goto
  <1>2. Waiting' = Waiting /\ t \notin Waiting
    BY <1>1 DEF Waiting
  <1>3. (count' = count \/ count' = count + 1) /\ count' \in 0..MaxElts
    BY <1>1 DEF ActPut, FifoPut, PutStatus, FSpace
  <1>4. ForElements' = ForElements \cup {t} /\ t \notin ForElements
    BY <1>1, <1>2 DEF ForElements, Threads
  <1>5. Cardinality(ForElements') = Cardinality(ForElements) + 1
    BY <1>4, AwakeFacts, FS_AddElement
  <1>6. ForRoom' = ForRoom
    BY <1>1, <1>2 DEF ForRoom, Threads
  <1>7. FSpace' <= FSpace /\ FSpace' \in Int /\ FSpace \in Int
    <2>1. MaxElts \in Int /\ count \in Int /\ count' \in Int
      BY <1>1, <1>3
    <2>2. count <= count'
      BY <1>1, <1>3
    <2> QED
      BY <2>1, <2>2, Remainder DEF FSpace
  <1> QED
    BY <1>1, <1>2, <1>3, <1>5, <1>6, <1>7, AwakeFacts DEF WaitInv, NoLostWakeup

(* A place that becomes free brings the thread that is going to signal it. *)
LEMMA GetKeeps ==
  ASSUME FewThreads, WaitInv, NEW t \in Threads, ActGet(t)
  PROVE  NoLostWakeup'
  <1> USE UdfifoAssumption, UdqueueAssumption
  <1>1. /\ pc \in [Threads -> PCs] /\ pc[t] = "act" /\ t \in Consumers
        /\ pc' = [pc EXCEPT ![t] = "signal"] /\ count \in 0..MaxElts
    BY DEF WaitInv, QInv, QTypeOK, FTypeOK, ActGet, Goto
  <1>2. Waiting' = Waiting /\ t \notin Waiting
    BY <1>1 DEF Waiting
  <1>3. (count' = count \/ count' = count - 1) /\ count' \in 0..MaxElts
    BY <1>1 DEF ActGet, FifoGet
  <1>4. ForRoom' = ForRoom \cup {t} /\ t \notin ForRoom
    BY <1>1, <1>2 DEF ForRoom, Threads
  <1>5. Cardinality(ForRoom') = Cardinality(ForRoom) + 1
    BY <1>4, AwakeFacts, FS_AddElement
  <1>6. ForElements' = ForElements
    BY <1>1, <1>2 DEF ForElements, Threads
  <1>7. FSpace' <= FSpace + 1 /\ FSpace' \in Int /\ FSpace \in Int
    <2>1. MaxElts \in Int /\ count \in Int /\ count' \in Int
      BY <1>1, <1>3
    <2> QED
      BY <1>3, <2>1, Remainder DEF FSpace
  <1> QED
    BY <1>1, <1>2, <1>3, <1>5, <1>6, <1>7, AwakeFacts DEF WaitInv, NoLostWakeup

(* A signal is handed on: the thread that it wakes takes the place of the  *)
(* one that gave it.                                                       *)
LEMMA SignalKeeps ==
  ASSUME FewThreads, WaitInv, NEW t \in Threads, Signal(t)
  PROVE  NoLostWakeup'
  <1> USE UdfifoAssumption, UdqueueAssumption
  <1>1. /\ pc \in [Threads -> PCs] /\ pc[t] = "signal" /\ count' = count
        /\ count \in 0..MaxElts /\ FSpace' = FSpace /\ FSpace \in Int
    BY DEF WaitInv, QInv, QTypeOK, FTypeOK, Signal, FSpace, fvars, fifo
  <1>2. CASE Waiting = {} /\ Goto(t, "lock")
    <2>1. Waiting' = {}
      BY <1>1, <1>2 DEF Waiting, Goto
    <2> QED
      BY <2>1 DEF NoLostWakeup
  <1>3. ASSUME NEW w \in Waiting, pc' = [pc EXCEPT ![t] = "lock", ![w] = "lock"]
        PROVE  NoLostWakeup'
    <2>1. Waiting' = Waiting \ {w} /\ w \in Threads /\ w # t
      BY <1>1, <1>3 DEF Waiting
    <2>2. /\ ForElements' \subseteq Threads /\ ForRoom' \subseteq Threads
          /\ IsFiniteSet(ForElements') /\ IsFiniteSet(ForRoom')
          /\ Cardinality(ForElements') \in Nat /\ Cardinality(ForRoom') \in Nat
      <3>1. ForElements' \subseteq Threads /\ ForRoom' \subseteq Threads
        BY DEF ForElements, ForRoom, Threads
      <3> QED
        BY <3>1, FS_Subset, FS_CardinalityType DEF FewThreads
    <2>3. ASSUME Waiting' \cap Consumers # {}
          PROVE  count' <= Cardinality(ForElements')
      <3>1. w \in Consumers /\ w \notin ForElements /\ count <= Cardinality(ForElements)
        BY <2>1, <2>3 DEF WaitInv, NoLostWakeup, ForElements, Threads
      <3>2. (ForElements \ {t}) \cup {w} \subseteq ForElements'
        BY <1>1, <1>3, <2>1, <3>1 DEF ForElements, Threads
      <3>3. Cardinality(ForElements) <= Cardinality((ForElements \ {t}) \cup {w})
        BY <3>1, AwakeFacts, Exchange
      <3>4. /\ Cardinality((ForElements \ {t}) \cup {w}) \in Nat
            /\ Cardinality((ForElements \ {t}) \cup {w}) <= Cardinality(ForElements')
        BY <2>2, <3>2, FS_Subset, FS_CardinalityType
      <3> QED
        BY <1>1, <2>2, <3>1, <3>3, <3>4, AwakeFacts
    <2>4. ASSUME Waiting' \cap Producers # {}
          PROVE  FSpace' <= Cardinality(ForRoom')
      <3>1. w \in Producers /\ w \notin ForRoom /\ FSpace <= Cardinality(ForRoom)
        BY <2>1, <2>4 DEF WaitInv, NoLostWakeup, ForRoom, Threads
      <3>2. (ForRoom \ {t}) \cup {w} \subseteq ForRoom'
        BY <1>1, <1>3, <2>1, <3>1 DEF ForRoom, Threads
      <3>3. Cardinality(ForRoom) <= Cardinality((ForRoom \ {t}) \cup {w})
        BY <3>1, AwakeFacts, Exchange
      <3>4. /\ Cardinality((ForRoom \ {t}) \cup {w}) \in Nat
            /\ Cardinality((ForRoom \ {t}) \cup {w}) <= Cardinality(ForRoom')
        BY <2>2, <3>2, FS_Subset, FS_CardinalityType
      <3> QED
        BY <1>1, <2>2, <3>1, <3>3, <3>4, AwakeFacts
    <2>5. Waiting' \subseteq Producers \/ Waiting' \subseteq Consumers
      BY <2>1 DEF WaitInv, NoLostWakeup
    <2> QED
      BY <2>3, <2>4, <2>5 DEF NoLostWakeup
  <1> QED
    BY <1>2, <1>3 DEF Signal

(* A thread that wakes by itself leaves the waiting ones and joins the     *)
(* awake ones.                                                             *)
LEMMA WakeUpKeeps ==
  ASSUME FewThreads, WaitInv, NEW t \in Threads, WakeUp(t)
  PROVE  NoLostWakeup'
  <1> USE UdfifoAssumption, UdqueueAssumption
  <1>1. /\ pc \in [Threads -> PCs] /\ pc[t] = "waiting" /\ count' = count
        /\ pc' = [pc EXCEPT ![t] = "lock"]
        /\ count \in 0..MaxElts /\ FSpace' = FSpace /\ FSpace \in Int
    BY DEF WaitInv, QInv, QTypeOK, FTypeOK, WakeUp, Goto, FSpace, fvars, fifo
  <1>2. Waiting' = Waiting \ {t}
    BY <1>1 DEF Waiting
  <1>3. /\ ForElements \subseteq ForElements' /\ ForElements' \subseteq Threads
        /\ ForRoom \subseteq ForRoom' /\ ForRoom' \subseteq Threads
    BY <1>1, <1>2 DEF ForElements, ForRoom, Threads
  <1>4. /\ Cardinality(ForElements) <= Cardinality(ForElements')
        /\ Cardinality(ForRoom) <= Cardinality(ForRoom')
        /\ Cardinality(ForElements') \in Nat /\ Cardinality(ForRoom') \in Nat
    BY <1>3, FS_Subset, FS_CardinalityType DEF FewThreads
  <1> QED
    BY <1>1, <1>2, <1>4, AwakeFacts DEF WaitInv, NoLostWakeup

LEMMA WaitStep == ASSUME FewThreads, WaitInv, [QNext]_qvars PROVE WaitInv'
  <1> SUFFICES NoLostWakeup'
    BY QStepInv, KeepsBlocked DEF WaitInv
  <1> USE UdqueueAssumption
  <1>0. pc \in [Threads -> PCs]
    BY DEF WaitInv, QInv, QTypeOK
  <1>1. ASSUME NEW t \in Threads, Lock(t) \/ Look(t)
        PROVE  NoLostWakeup'
    <2>1. /\ count' = count /\ FSpace' = FSpace
          /\ \A u \in Threads : /\ pc'[u] = "waiting" <=> pc[u] = "waiting"
                                /\ pc'[u] = "signal" <=> pc[u] = "signal"
      BY <1>0, <1>1 DEF Lock, Look, Goto, FSpace, fvars, fifo
    <2>2. Waiting' = Waiting /\ ForElements' = ForElements /\ ForRoom' = ForRoom
      BY <2>1 DEF Waiting, ForElements, ForRoom, Threads
    <2> QED
      BY <2>1, <2>2 DEF WaitInv, NoLostWakeup
  <1>2. CASE SetFifoMode \/ UNCHANGED qvars \/ \E m : SetPutMode(m) \/ SetGetMode(m)
    <2>1. count' = count /\ pc' = pc
      BY <1>2 DEF SetFifoMode, FifoSetMode, SetPutMode, SetGetMode, qvars, sync, fvars, fifo
    <2> QED
      BY <2>1 DEF WaitInv, NoLostWakeup, FSpace, Waiting, ForElements, ForRoom
  <1>3. CASE Broadcast
    <2>1. Waiting' = {}
      BY <1>0, <1>3 DEF Broadcast, Waiting
    <2> QED
      BY <2>1 DEF NoLostWakeup
  <1> QED
    BY <1>1, <1>2, <1>3, BlockKeeps, PutKeeps, GetKeeps, SignalKeeps, WakeUpKeeps DEF QNext

LEMMA WaitInit == QInit => WaitInv
  <1> SUFFICES ASSUME QInit
               PROVE  WaitInv
    OBVIOUS
  <1>1. Waiting = {} /\ Blocked
    BY DEF QInit, Waiting, Blocked
  <1> QED
    BY <1>1, QInitInv DEF WaitInv, NoLostWakeup

(* With no more threads than elements and one, of whatever kinds, a signal *)
(* never goes to the wrong kind and none is lost, whatever the changes of  *)
(* mode and the wakeups without a signal (udqueue.c:169-192, 217-240).     *)
THEOREM FewLoseNoWakeup == ASSUME FewThreads PROVE QSpec => []NoLostWakeup
  <1>1. QInit => WaitInv
    BY WaitInit
  <1>2. WaitInv /\ [QNext]_qvars => WaitInv'
    BY WaitStep
  <1>3. WaitInv => NoLostWakeup
    BY DEF WaitInv
  <1> QED
    BY <1>1, <1>2, <1>3, PTL DEF QSpec

(* Such threads, some of each kind, never all wait: the bound cannot be    *)
(* raised, one thread more can be stuck (udqueue.c:169-236).               *)
THEOREM FewNeverStuck ==
  ASSUME FewThreads, Producers # {}, Consumers # {}
  PROVE  QSpec => []NotAllWaiting
  <1>1. NoLostWakeup => NotAllWaiting
    BY UdqueueAssumption DEF NoLostWakeup, NotAllWaiting, Threads
  <1> QED
    BY <1>1, FewLoseNoWakeup, PTL

(* Any number of threads see one bounded FIFO (udqueue.c:156-245). *)
THEOREM QueueIsFifo == QSpec => ImplementsFifo
  <1>1. QInit => FInit
    BY DEF QInit
  <1> QED
    BY <1>1, QueueStep, FifoIsFifo, PTL DEF QSpec, FSpec
=============================================================================
