------------------------------ MODULE LwCache -------------------------------
(***************************************************************************)
(* The descriptors of LW files: c_lwopen and c_lwfile of decode/csubs.c.   *)
(*                                                                         *)
(* McIDAS code names a file whenever it wants its descriptor.  The last    *)
(* NFILES files stay open in a table; the place ld goes around it, and     *)
(* whatever is there is closed for a new file.  A name is looked up by its *)
(* own length only, so a longer name in the table answers for it.          *)
(***************************************************************************)
EXTENDS Integers

CONSTANTS
  Names,       (* file names                                                *)
  Begins,      (* pairs of a name and a name it is the beginning of         *)
  NFILES,      (* places in the table                                   (8) *)
  NoName       (* a place nobody has used, a descriptor nobody has open     *)

ASSUME LwCacheAssumption ==
  /\ Begins \subseteq Names \X Names
  /\ \A n \in Names : <<n, n>> \in Begins
  /\ NFILES \in Nat \ {0}
  /\ NoName \notin Names

Places == 0..(NFILES - 1)
FDs    == 0..NFILES          (* one more than can be in use *)
FAILED == -1

VARIABLES
  f,           (* per place: the name                                       *)
  fd,          (* per place: the descriptor                                 *)
  ld,          (* the place of the next new file                            *)
  nlw,         (* places in use                                             *)
  open,        (* per descriptor of the process: the file it is open on     *)
  newer        (* history, per descriptor: those opened since and not closed *)

lw == <<f, fd, ld, nlw, open, newer>>

LwTypeOK ==
  /\ f \in [Places -> Names \cup {NoName}]
  /\ fd \in [Places -> FDs \cup {FAILED}]
  /\ ld \in Places
  /\ nlw \in 0..NFILES
  /\ open \in [FDs -> Names \cup {NoName}]
  /\ newer \in [FDs -> SUBSET FDs]

LwInit ==
  /\ f   = [i \in Places |-> NoName]
  /\ fd  = [i \in Places |-> FAILED]
  /\ ld  = 0
  /\ nlw = 0
  /\ open = [d \in FDs |-> NoName]
  /\ newer = [d \in FDs |-> {}]

-----------------------------------------------------------------------------
Used == {i \in Places : i < nlw}

(* The places whose name begins with n. *)
Matches(n) == {i \in Used : <<n, f[i]>> \in Begins}

(* Mutant of Closed: the file that was there stays open. *)
ClosedNot == open

(* The descriptors when the file at the place of the new one is closed. *)
Closed ==
  IF ld \in Used /\ fd[ld] # FAILED THEN [open EXCEPT ![fd[ld]] = NoName] ELSE open

(* Of the descriptors ds, those that are then open. *)
StillOpen(ds) == {d \in ds : Closed[d] # NoName}

(* Mutant of Around: the last place is used again and again. *)
AroundStuck(i) == IF i + 1 > NFILES - 1 THEN i ELSE i + 1

(* The place behind i. *)
Around(i) == IF i + 1 > NFILES - 1 THEN 0 ELSE i + 1

(* Mutant of NewName: the place has moved on already. *)
NewNameNext(n) == [f EXCEPT ![Around(ld)] = n]

(* The names with n at the place of the new file. *)
NewName(n) == [f EXCEPT ![ld] = n]

(* c_lwopen of n answers with the descriptor d. *)

(* A name that is there is answered from the first place that matches. *)
LwFound(n, d) ==
  /\ \E i \in Matches(n) : d = fd[i] /\ \A j \in Matches(n) : i <= j
  /\ UNCHANGED lw

(* A new file is opened, under the lowest descriptor that is free. *)
LwOpens(n, d) ==
  /\ Matches(n) = {}
  /\ d \in FDs /\ Closed[d] = NoName
  /\ \A e \in FDs : Closed[e] = NoName => d <= e
  /\ open' = [Closed EXCEPT ![d] = n]
  /\ newer' = [e \in FDs |-> IF e = d \/ Closed[e] = NoName THEN {}
                             ELSE StillOpen(newer[e]) \cup {d}]
  /\ fd' = [fd EXCEPT ![ld] = d]
  /\ f' = NewName(n)
  /\ nlw' = IF ld + 1 > nlw THEN ld + 1 ELSE nlw
  /\ ld' = Around(ld)

(* It cannot be opened: the name stays at the place, with no descriptor. *)
LwFails(n, d) ==
  /\ Matches(n) = {}
  /\ d = FAILED
  /\ open' = Closed
  /\ newer' = [e \in FDs |-> StillOpen(newer[e])]
  /\ fd' = [fd EXCEPT ![ld] = FAILED]
  /\ f' = NewName(n)
  /\ UNCHANGED <<ld, nlw>>

(* c_lwfile is a call of it that looks whether there was a descriptor. *)
LwOpen(n, d) == LwFound(n, d) \/ LwOpens(n, d) \/ LwFails(n, d)

-----------------------------------------------------------------------------
(* No descriptor is lost or shared: each that is open is at one place in   *)
(* use, and is open on the file of that place's name.                      *)
NoDescriptorLost ==
  /\ \A d \in FDs : open[d] # NoName => \E i \in Used : fd[i] = d
  /\ \A i \in Used : fd[i] # FAILED => open[fd[i]] = f[i]
  /\ \A i, j \in Used : fd[i] = fd[j] /\ fd[i] # FAILED => i = j

(* No file is open twice, whatever failed in between: what is written      *)
(* through one descriptor is what is read through the next.                *)
NoFileTwice ==
  \A d, e \in FDs : open[d] = open[e] /\ open[d] # NoName => d = e

(* A descriptor that McIDAS was given stays good while NFILES - 1 other    *)
(* files are opened: the one that is closed for a new one has been open    *)
(* longest, and the table is full.                                         *)
OldestIsClosed ==
  [][\A d \in FDs : open[d] # NoName /\ open'[d] # open[d] =>
       /\ \A e \in FDs \ {d} : open[e] # NoName => e \in newer[d]
       /\ \A i \in Places : fd[i] # FAILED]_lw
=============================================================================
