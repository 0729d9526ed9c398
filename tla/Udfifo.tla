------------------------------- MODULE Udfifo -------------------------------
(***************************************************************************)
(* The FIFO of the UNIDATA library (port/misc/udfifo.c): a ring buffer of  *)
(* MaxElts elements with a source for the next get, a destination for the  *)
(* next put and a count.  One thread at a time calls it.                   *)
(***************************************************************************)
EXTENDS Integers, Sequences

CONSTANTS
  MaxElts,    (* elements the buffer holds                        (numelts) *)
  Elts        (* elements                                                   *)

ASSUME UdfifoAssumption == MaxElts \in Nat \ {0} /\ Elts # {}

VARIABLES
  buf,        (* the element buffer                                         *)
  head,       (* source for next get()                                      *)
  tail,       (* destination for next put()                                 *)
  count,      (* current number of elements                                 *)
  fmode       (* 0 or "FORCE"                                               *)

fifo  == <<buf, head, tail, count>>
fvars == <<fifo, fmode>>

Places == 0..(MaxElts - 1)
FModes == {"0", "FORCE"}

(* Types of the ring buffer: the indices stay within it, the count too. *)
FTypeOK ==
  /\ buf \in [Places -> Elts]
  /\ head \in Places /\ tail \in Places
  /\ count \in 0..MaxElts
  /\ fmode \in FModes

(* udfifo_init: the buffer comes from malloc. *)
FInit ==
  /\ buf \in [Places -> Elts]
  /\ head = 0 /\ tail = 0 /\ count = 0
  /\ fmode = "0"

(* Mutant of After: no way back to the beginning. *)
AfterEnd(i) == i + 1

(* The place behind another, around the buffer. *)
After(i) == IF i < MaxElts - 1 THEN i + 1 ELSE 0

FSpace == MaxElts - count

(* udfifo_put returns 0, 1 (EFORCED) or -1 (EFAILURE). *)
PutStatus == IF FSpace > 0 THEN 0 ELSE IF fmode = "FORCE" THEN 1 ELSE -1

(* udfifo_get *)
GetStatus == IF count = 0 THEN -1 ELSE 0

FifoGet ==
  /\ IF count = 0
     THEN UNCHANGED <<head, count>>
     ELSE head' = After(head) /\ count' = count - 1
  /\ UNCHANGED <<buf, tail, fmode>>

(* Mutant of FifoPut: the oldest element is not taken out. *)
FifoPutOver(new) ==
  /\ count' = IF FSpace > 0 THEN count + 1 ELSE count
  /\ IF PutStatus # -1
     THEN buf' = [buf EXCEPT ![tail] = new] /\ tail' = After(tail)
     ELSE UNCHANGED <<buf, tail>>
  /\ UNCHANGED <<head, fmode>>

(* udfifo_put: into a full buffer only by force, the oldest element being  *)
(* taken out first.                                                        *)
FifoPut(new) ==
  /\ \/ /\ FSpace > 0
        /\ count' = count + 1
        /\ UNCHANGED head
     \/ /\ FSpace = 0 /\ fmode = "FORCE"
        /\ head' = After(head)
        /\ UNCHANGED count
     \/ /\ FSpace = 0 /\ fmode # "FORCE"
        /\ UNCHANGED <<head, count>>
  /\ IF PutStatus # -1
     THEN buf' = [buf EXCEPT ![tail] = new] /\ tail' = After(tail)
     ELSE UNCHANGED <<buf, tail>>
  /\ UNCHANGED fmode

(* udfifo_setmode *)
FifoSetMode(m) == fmode' = m /\ UNCHANGED fifo

FNext ==
  \/ \E x \in Elts : FifoPut(x)
  \/ FifoGet
  \/ \E m \in FModes : FifoSetMode(m)

FSpec == FInit /\ [][FNext]_fvars

-----------------------------------------------------------------------------
(* The i-th oldest element is at this place. *)
Place(i) == IF head + i - 1 < MaxElts THEN head + i - 1 ELSE head + i - 1 - MaxElts

(* The elements in the buffer, oldest first. *)
Items == [i \in 1..count |-> buf[Place(i)]]

Fifo == INSTANCE BoundedFifo WITH Capacity <- MaxElts, items <- Items

(* The ring buffer is a bounded FIFO: nothing is lost, duplicated or       *)
(* reordered where the indices wrap or where a put drops the oldest        *)
(* element (udfifo.c:92-157).                                              *)
ImplementsFifo == Fifo!Spec
=============================================================================
