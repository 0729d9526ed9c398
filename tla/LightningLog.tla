--------------------------- MODULE LightningLog ---------------------------
(***************************************************************************)
(* What the lightning decoder promises to the readers of its MD files: per *)
(* file a log of flashes.  Readers see it grow by whole batches, in the    *)
(* order the flashes arrived, and never see an entry change or go away,    *)
(* until the file is full.                                                 *)
(***************************************************************************)
EXTENDS Naturals, Sequences

CONSTANTS Files, Capacity, Flash

VARIABLE log

TypeOK == log \in [Files -> Seq(Flash)]

(* Flash numbers follow the order of arrival. *)
InOrder(s) == \A i, j \in DOMAIN s : i < j => s[i].id < s[j].id

Init == log = [f \in Files |-> <<>>]

OnlyChanges(f) == \A g \in Files \ {f} : log'[g] = log[g]

(* A batch of flashes is appended to the log of one file. *)
Publish(f) ==
  /\ OnlyChanges(f)
  /\ Len(log[f]) < Len(log'[f]) /\ Len(log'[f]) <= Capacity
  /\ SubSeq(log'[f], 1, Len(log[f])) = log[f]
  /\ InOrder(log'[f])

(* Only a full log is exposed to damage; it keeps its length. *)
Spoil(f) ==
  /\ OnlyChanges(f)
  /\ Len(log[f]) = Capacity /\ Len(log'[f]) = Capacity

Next == \E f \in Files : Publish(f) \/ Spoil(f)

Spec == Init /\ [][Next]_log
=============================================================================
