---------------------------- MODULE LwCacheProofs ---------------------------
(***************************************************************************)
(* The table of open LW files is right for every number of places, of      *)
(* names and of beginnings among them: lemmas about the calls of LwCache,  *)
(* for the modules whose processes make them.                              *)
(*                                                                         *)
(* The argument is about the order in which ld goes around: the places     *)
(* from ld on, and then those before it, hold the descriptors from the     *)
(* oldest to the newest, and only ld itself may be without one.            *)
(***************************************************************************)
EXTENDS LwCache, TLAPS

(* The place i was filled before the place j. *)
Before(i, j) == \/ i >= ld /\ (j < ld \/ i < j)
                \/ i < ld /\ j < ld /\ i < j

(* The places are used one after the other, and a call that fails leaves   *)
(* the place where it is for the next.                                     *)
PlacesInOrder ==
  /\ nlw < NFILES => ld = nlw
  /\ \A i \in Used : i # ld => fd[i] # FAILED

UsedIsNamed ==
  /\ \A i \in Used : f[i] \in Names
  /\ \A i, j \in Used : f[i] = f[j] => i = j

OrderIsAge ==
  \A i, j \in Used : Before(i, j) /\ fd[i] # FAILED /\ fd[j] # FAILED => fd[j] \in newer[fd[i]]

LwInv == LwTypeOK /\ PlacesInOrder /\ UsedIsNamed /\ OrderIsAge /\ NoDescriptorLost

LEMMA LwInitInv == LwInit => LwInv
<1> SUFFICES ASSUME LwInit
             PROVE  LwInv
  OBVIOUS
<1>1. NFILES \in Nat \ {0}
  BY LwCacheAssumption
<1>2. LwTypeOK
  BY <1>1 DEF LwInit, LwTypeOK, Places, FDs, FAILED
<1>3. Used = {}
  BY <1>1 DEF LwInit, Used, Places
<1> QED
  BY <1>1, <1>2, <1>3 DEF LwInit, LwInv, PlacesInOrder, UsedIsNamed, OrderIsAge, NoDescriptorLost

LEMMA AroundType == ld \in Places => Around(ld) \in Places
BY LwCacheAssumption DEF Around, Places

(* Closing the file at ld takes its descriptor, and no other. *)
LEMMA ClosedIs ==
  ASSUME LwInv
  PROVE  /\ Closed \in [FDs -> Names \cup {NoName}]
         /\ \A i \in Used : i # ld => fd[i] \in FDs /\ Closed[fd[i]] = f[i] /\ f[i] # NoName
         /\ \A e \in FDs : Closed[e] # NoName =>
              open[e] = Closed[e] /\ \E i \in Used : i # ld /\ fd[i] = e
<1> USE DEF LwInv
<1>1. Closed \in [FDs -> Names \cup {NoName}]
  BY DEF Closed, LwTypeOK, Used
<1>2. ASSUME NEW i \in Used, i # ld
      PROVE  fd[i] \in FDs /\ Closed[fd[i]] = f[i] /\ f[i] # NoName
  <2>1. fd[i] \in FDs /\ open[fd[i]] = f[i] /\ f[i] # NoName
    BY <1>2, LwCacheAssumption DEF PlacesInOrder, LwTypeOK, NoDescriptorLost, UsedIsNamed, Used
  <2>2. ld \in Used /\ fd[ld] # FAILED => fd[ld] # fd[i]
    BY <1>2 DEF NoDescriptorLost
  <2> QED
    BY <2>1, <2>2 DEF Closed, LwTypeOK
<1>3. ASSUME NEW e \in FDs, Closed[e] # NoName
      PROVE  open[e] = Closed[e] /\ \E i \in Used : i # ld /\ fd[i] = e
  <2>1. open[e] = Closed[e]
    BY <1>3 DEF Closed, LwTypeOK
  <2>2. PICK i \in Used : fd[i] = e
    BY <2>1, <1>3 DEF NoDescriptorLost
  <2>3. e # FAILED
    BY LwCacheAssumption DEF FDs, FAILED
  <2>4. i # ld
    BY <2>2, <2>3, <1>3 DEF Closed, LwTypeOK
  <2> QED
    BY <2>1, <2>2, <2>4
<1> QED
  BY <1>1, <1>2, <1>3

LEMMA LwOpensInv ==
  ASSUME LwInv, NEW n \in Names, NEW d, LwOpens(n, d)
  PROVE  LwInv'
<1> USE DEF LwInv
<1>1. /\ Matches(n) = {} /\ d \in FDs /\ Closed[d] = NoName
      /\ open' = [Closed EXCEPT ![d] = n]
      /\ fd' = [fd EXCEPT ![ld] = d] /\ f' = [f EXCEPT ![ld] = n]
      /\ nlw' = (IF ld + 1 > nlw THEN ld + 1 ELSE nlw) /\ ld' = Around(ld)
      /\ newer' = [e \in FDs |-> IF e = d \/ Closed[e] = NoName THEN {}
                                 ELSE StillOpen(newer[e]) \cup {d}]
  BY DEF LwOpens, NewName
<1>2. NFILES \in Nat \ {0} /\ ld \in 0..(NFILES - 1) /\ nlw \in 0..NFILES /\ ld \in Places
  BY LwCacheAssumption DEF LwTypeOK, Places
<1>3. d # FAILED /\ d \in Int
  BY <1>1, <1>2 DEF FDs, FAILED
<1>4. Used' = Used \cup {ld}
  BY <1>1, <1>2 DEF Used, Places, PlacesInOrder
<1>5. \A i \in Used \ {ld} : fd'[i] = fd[i] /\ f'[i] = f[i]
  BY <1>1 DEF LwTypeOK, Used
<1>6. fd'[ld] = d /\ f'[ld] = n
  BY <1>1, <1>2 DEF LwTypeOK
<1>7. \A i \in Used : f[i] # n
  BY <1>1, LwCacheAssumption DEF Matches
<1>8. \A i \in Used \ {ld} : fd[i] \in FDs /\ fd[i] # d /\ fd[i] # FAILED
  BY <1>1, ClosedIs DEF PlacesInOrder
<1>9. LwTypeOK'
  <2>1. open' \in [FDs -> Names \cup {NoName}]
    BY <1>1, ClosedIs
  <2>2. newer' \in [FDs -> SUBSET FDs]
    BY <1>1 DEF LwTypeOK, StillOpen
  <2>3. nlw' \in 0..NFILES
    BY <1>1, <1>2
  <2>4. ld' \in Places
    BY <1>1, <1>2, AroundType
  <2>5. f' \in [Places -> Names \cup {NoName}] /\ fd' \in [Places -> FDs \cup {FAILED}]
    BY <1>1 DEF LwTypeOK
  <2> QED
    BY <2>1, <2>2, <2>3, <2>4, <2>5 DEF LwTypeOK
<1>10. PlacesInOrder'
  <2>1. nlw' < NFILES => ld' = nlw'
    BY <1>1, <1>2 DEF PlacesInOrder, Around
  <2>2. \A i \in Used' : fd'[i] # FAILED
    BY <1>3, <1>4, <1>5, <1>6, <1>8
  <2> QED
    BY <2>1, <2>2 DEF PlacesInOrder
<1>11. UsedIsNamed'
  BY <1>4, <1>5, <1>6, <1>7 DEF UsedIsNamed
<1>12. OrderIsAge'
  <2> SUFFICES ASSUME NEW i \in Used', NEW j \in Used', Before(i, j)'
               PROVE  fd'[j] \in newer'[fd'[i]]
    BY DEF OrderIsAge
  <2>1. i \in 0..(NFILES - 1) /\ j \in 0..(NFILES - 1)
    BY <1>2, <1>4 DEF Used, Places
  <2>2. i # ld
    BY <2>1, <1>1, <1>2 DEF Before, Around
  <2>3. i \in Used \ {ld} /\ fd'[i] = fd[i] /\ fd[i] \in FDs /\ fd[i] # d /\ Closed[fd[i]] # NoName
    BY <2>2, <1>4, <1>5, <1>8, ClosedIs
  <2>4. newer'[fd[i]] = StillOpen(newer[fd[i]]) \cup {d}
    BY <2>3, <1>1
  <2>5. CASE j = ld
    BY <2>3, <2>4, <2>5, <1>6
  <2>6. CASE j # ld
    <3>1. Before(i, j)
      BY <2>1, <2>2, <2>6, <1>1, <1>2 DEF Before, Around
    <3>2. j \in Used \ {ld} /\ fd'[j] = fd[j] /\ Closed[fd[j]] # NoName
      BY <2>6, <1>4, <1>5, ClosedIs
    <3>3. fd[j] \in newer[fd[i]]
      BY <3>1, <3>2, <2>3, <1>8 DEF OrderIsAge
    <3> QED
      BY <3>2, <3>3, <2>3, <2>4 DEF StillOpen
  <2> QED
    BY <2>5, <2>6
<1>13. NoDescriptorLost'
  <2>1. ASSUME NEW e \in FDs, open'[e] # NoName
        PROVE  \E i \in Used' : fd'[i] = e
    <3>1. CASE e = d
      BY <3>1, <1>4, <1>6
    <3>2. CASE e # d
      <4>1. Closed[e] # NoName
        BY <3>2, <2>1, <1>1, ClosedIs
      <4>2. PICK i \in Used : i # ld /\ fd[i] = e
        BY <4>1, ClosedIs
      <4> QED
        BY <4>2, <1>4, <1>5
    <3> QED
      BY <3>1, <3>2
  <2>2. ASSUME NEW i \in Used'
        PROVE  open'[fd'[i]] = f'[i]
    <3>1. CASE i = ld
      BY <3>1, <1>1, <1>6, ClosedIs
    <3>2. CASE i # ld
      BY <3>2, <1>1, <1>4, <1>5, <1>8, ClosedIs
    <3> QED
      BY <3>1, <3>2
  <2>3. \A i, j \in Used' : fd'[i] = fd'[j] => i = j
    BY <1>4, <1>5, <1>6, <1>8 DEF NoDescriptorLost
  <2> QED
    BY <2>1, <2>2, <2>3 DEF NoDescriptorLost
<1> QED
  BY <1>9, <1>10, <1>11, <1>12, <1>13

LEMMA LwFailsInv ==
  ASSUME LwInv, NEW n \in Names, NEW d, LwFails(n, d)
  PROVE  LwInv'
<1> USE DEF LwInv
<1>1. /\ Matches(n) = {}
      /\ open' = Closed
      /\ fd' = [fd EXCEPT ![ld] = FAILED] /\ f' = [f EXCEPT ![ld] = n]
      /\ UNCHANGED <<ld, nlw>>
      /\ newer' = [e \in FDs |-> StillOpen(newer[e])]
  BY DEF LwFails, NewName
<1>2. Used' = Used
  BY <1>1 DEF Used
<1>3. \A i \in Used \ {ld} : fd'[i] = fd[i] /\ f'[i] = f[i]
  BY <1>1 DEF LwTypeOK, Used
<1>4. fd'[ld] = FAILED /\ f'[ld] = n
  BY <1>1 DEF LwTypeOK
<1>5. \A i \in Used : f[i] # n
  BY <1>1, LwCacheAssumption DEF Matches
<1>6. LwTypeOK'
  <2>1. newer' \in [FDs -> SUBSET FDs]
    BY <1>1 DEF LwTypeOK, StillOpen
  <2>2. f' \in [Places -> Names \cup {NoName}] /\ fd' \in [Places -> FDs \cup {FAILED}]
    BY <1>1 DEF LwTypeOK
  <2> QED
    BY <2>1, <2>2, <1>1, ClosedIs DEF LwTypeOK
<1>7. PlacesInOrder'
  BY <1>1, <1>2, <1>3 DEF PlacesInOrder
<1>8. UsedIsNamed'
  BY <1>2, <1>3, <1>4, <1>5 DEF UsedIsNamed
<1>9. OrderIsAge'
  <2> SUFFICES ASSUME NEW i \in Used, NEW j \in Used, Before(i, j), fd'[i] # FAILED, fd'[j] # FAILED
               PROVE  fd'[j] \in newer'[fd'[i]]
    BY <1>1, <1>2 DEF OrderIsAge, Before
  <2>1. /\ fd'[i] = fd[i] /\ fd[i] \in FDs
        /\ fd'[j] = fd[j] /\ Closed[fd[j]] # NoName
    BY <1>3, <1>4, ClosedIs
  <2>2. fd[j] \in newer[fd[i]]
    BY <2>1 DEF OrderIsAge
  <2> QED
    BY <2>1, <2>2, <1>1 DEF StillOpen
<1>10. NoDescriptorLost'
  <2>1. ASSUME NEW e \in FDs, open'[e] # NoName
        PROVE  \E i \in Used' : fd'[i] = e
    <3>1. PICK i \in Used : i # ld /\ fd[i] = e
      BY <2>1, <1>1, ClosedIs
    <3> QED
      BY <3>1, <1>2, <1>3
  <2>2. ASSUME NEW i \in Used', fd'[i] # FAILED
        PROVE  open'[fd'[i]] = f'[i]
    BY <2>2, <1>1, <1>2, <1>3, <1>4, ClosedIs
  <2>3. \A i, j \in Used' : fd'[i] = fd'[j] /\ fd'[i] # FAILED => i = j
    BY <1>2, <1>3, <1>4 DEF NoDescriptorLost
  <2> QED
    BY <2>1, <2>2, <2>3 DEF NoDescriptorLost
<1> QED
  BY <1>6, <1>7, <1>8, <1>9, <1>10

LEMMA LwSame == LwInv /\ UNCHANGED lw => LwInv'
BY DEF LwInv, lw, LwTypeOK, PlacesInOrder, UsedIsNamed, OrderIsAge, NoDescriptorLost, Used, Before

LEMMA LwOpenInv ==
  ASSUME LwInv, NEW n \in Names, NEW d, LwOpen(n, d)
  PROVE  LwInv'
BY LwOpensInv, LwFailsInv, LwSame DEF LwOpen, LwFound

-----------------------------------------------------------------------------
(* What the invariant is for. *)

LEMMA LwInvNoFileTwice == LwInv => NoFileTwice
<1> SUFFICES ASSUME LwInv, NEW d \in FDs, NEW e \in FDs, open[d] = open[e], open[d] # NoName
             PROVE  d = e
  BY DEF NoFileTwice
<1>1. PICK i \in Used : fd[i] = d
  BY DEF LwInv, NoDescriptorLost
<1>2. PICK j \in Used : fd[j] = e
  BY DEF LwInv, NoDescriptorLost
<1>3. d # FAILED /\ e # FAILED
  BY LwCacheAssumption DEF FDs, FAILED
<1> QED
  BY <1>1, <1>2, <1>3 DEF LwInv, NoDescriptorLost, UsedIsNamed

(* A call that closes a descriptor closes the oldest of a full table. *)
LEMMA LwOpenClosesOldest ==
  ASSUME LwInv, NEW n \in Names, NEW c, LwOpen(n, c),
         NEW d \in FDs, open[d] # NoName, open'[d] # open[d]
  PROVE  /\ \A e \in FDs \ {d} : open[e] # NoName => e \in newer[d]
         /\ \A i \in Places : fd[i] # FAILED
<1> USE DEF LwInv
<1>1. NFILES \in Nat \ {0} /\ ld \in 0..(NFILES - 1) /\ nlw \in 0..NFILES
  BY LwCacheAssumption DEF LwTypeOK, Places
<1>2. Closed[d] # open[d]
  <2>1. CASE LwOpens(n, c)
    <3>1. open' = [Closed EXCEPT ![c] = n] /\ Closed[c] = NoName
      BY <2>1 DEF LwOpens
    <3> QED
      BY <3>1, ClosedIs
  <2>2. CASE LwFails(n, c)
    BY <2>2 DEF LwFails
  <2> QED
    BY <2>1, <2>2 DEF LwOpen, LwFound, lw
<1>3. ld \in Used /\ fd[ld] = d /\ d # FAILED
  BY <1>2 DEF Closed, LwTypeOK
<1>4. nlw = NFILES /\ Used = Places
  BY <1>1, <1>3 DEF PlacesInOrder, Used, Places
<1>5. \A i \in Places : fd[i] # FAILED
  BY <1>3, <1>4 DEF PlacesInOrder
<1>6. ASSUME NEW e \in FDs \ {d}, open[e] # NoName
      PROVE  e \in newer[d]
  <2>1. PICK i \in Used : fd[i] = e
    BY <1>6 DEF NoDescriptorLost
  <2>2. Before(ld, i)
    BY <2>1, <1>1, <1>3, <1>6 DEF Before, Used, Places
  <2> QED
    BY <2>1, <2>2, <1>3, <1>4, <1>5 DEF OrderIsAge
<1> QED
  BY <1>5, <1>6
=============================================================================
