-------------------------- MODULE GiniImageProofs ---------------------------
(***************************************************************************)
(* Proofs about MkDirs and GiniImage, for any set of decoders, images and  *)
(* paths, any depth of directories, any number of blocks and any size of   *)
(* the buffer.                                                             *)
(***************************************************************************)
EXTENDS GiniImage, SequenceTheorems, TLAPS

-----------------------------------------------------------------------------
(* Beginnings of paths. *)

(* What Upto returns. *)
LEMMA UptoIsSeq ==
  ASSUME NEW S, NEW p \in Seq(S), NEW k \in 0..Len(p)
  PROVE  /\ Upto(p, k) \in Seq(S)
         /\ Len(Upto(p, k)) = k
         /\ Upto(p, k) = <<>> <=> k = 0
<1>1. \A i \in 1..k : p[i] \in S
  BY ElementOfSeq, LenProperties
<1>2. Upto(p, k) \in [1..k -> S]
  BY <1>1 DEF Upto
<1>3. k \in Nat
  BY LenProperties
<1>4. Upto(p, k) \in Seq(S)
  BY <1>2, <1>3, SeqDef
<1>5. Len(Upto(p, k)) = k
  BY <1>2, <1>3, <1>4, LenProperties
<1> QED
  BY <1>4, <1>5, EmptySeq

(* The beginning of a beginning. *)
LEMMA UptoUpto ==
  ASSUME NEW S, NEW p \in Seq(S), NEW j \in 0..Len(p), NEW k \in 0..j
  PROVE  Upto(Upto(p, j), k) = Upto(p, k)
<1>1. j \in Nat /\ k \in Nat
  BY LenProperties
<1> QED
  BY <1>1 DEF Upto

(* The directories of a directory. *)
LEMMA DirsOfUpto ==
  ASSUME NEW S, NEW p \in Seq(S), NEW j \in 1..Len(p)
  PROVE  /\ Parent(Upto(p, j)) = Upto(p, j - 1)
         /\ DirsOf(Upto(p, j)) = {Upto(p, k) : k \in 1..(j - 1)}
<1>1. Len(Upto(p, j)) = j /\ j \in Nat /\ Len(p) \in Nat
  BY UptoIsSeq, LenProperties
<1>2. \A k \in 0..j : Upto(Upto(p, j), k) = Upto(p, k)
  BY UptoUpto, <1>1
<1>3. Parent(Upto(p, j)) = Upto(p, j - 1)
  BY <1>1, <1>2 DEF Parent
<1>4. \A k \in 1..(j - 1) : Upto(Upto(p, j), k) = Upto(p, k)
  BY <1>1, <1>2
<1> QED
  BY <1>1, <1>3, <1>4 DEF DirsOf

(* All of it, for the paths. *)
LEMMA PathFacts ==
  ASSUME NEW p \in Paths
  PROVE  /\ Len(p) \in Nat \ {0}
         /\ \A k \in 0..Len(p) : Len(Upto(p, k)) = k /\ (Upto(p, k) = <<>> <=> k = 0)
         /\ \A k \in 1..Len(p) :
              /\ Parent(Upto(p, k)) = Upto(p, k - 1)
              /\ DirsOf(Upto(p, k)) = {Upto(p, j) : j \in 1..(k - 1)}
<1>1. p \in Seq(STRING) /\ p # <<>>
  BY MkDirsAssumption
<1>2. Len(p) \in Nat \ {0}
  BY <1>1, LenProperties, EmptySeq
<1> QED
  BY <1>1, <1>2, UptoIsSeq, DirsOfUpto

-----------------------------------------------------------------------------
(* The directories. *)

(* The directories of a directory are there, and those of the start stay. *)
DirsClosed ==
  /\ Standing \subseteq dirs
  /\ \A q \in dirs : DirsOf(q) \subseteq dirs

(* The next directory of a call was missing when the call began, and is    *)
(* still missing if nobody else has made a directory of its path.          *)
NextIsMissing ==
  \A d \in Decoders : call[d] \in {"up", "down"} =>
    /\ NextDir(d) \notin Standing
    /\ ~raced[d] => NextDir(d) \notin dirs

RacedMeansMade == \A d \in Decoders : raced[d] => \E q \in dirs : q \notin Standing

(* e goes on from a directory that is as deep as q, or deeper. *)
Beyond(e, q) ==
  \/ call[e] = "down" /\ lev[e] > Len(q)
  \/ call[e] = "reopen" /\ Len(path[e]) > Len(q)

(* Of those who made directories, the one that made the deepest goes on,   *)
(* since only somebody who has gone deeper can be in its way.              *)
DeepestGoesOn ==
  spoiled = {} =>
    \/ \E e \in Decoders : call[e] = "opened"
    \/ \A q \in dirs \ Standing : \E e \in Decoders : Beyond(e, q)

DInv == /\ DirsTypeOK /\ DirsClosed /\ NextIsMissing /\ RacedMeansMade
        /\ DeepestGoesOn /\ FailsOnlyByRace

LEMMA DInitInv == DirsInit => DInv
<1> SUFFICES ASSUME DirsInit
             PROVE  DInv
  OBVIOUS
<1>1. (CHOOSE p \in Paths : TRUE) \in Paths
  BY MkDirsAssumption
<1>2. DirsTypeOK
  BY <1>1, MkDirsAssumption DEF DirsInit, DirsTypeOK, AllDirs, Calls
<1> QED
  BY <1>2, MkDirsAssumption
  DEF DirsInit, DInv, DirsClosed, NextIsMissing, RacedMeansMade, DeepestGoesOn, FailsOnlyByRace

LEMMA MkdirMakesInv ==
  ASSUME DInv, NEW d \in Decoders, MkdirMakes(d)
  PROVE  DInv'
<1> DEFINE p == path[d]
           k == lev[d]
           q == NextDir(d)
<1> USE DEF DInv
<1>1. /\ p \in Paths /\ Len(p) \in Nat \ {0} /\ k \in 1..(Len(p) - 1)
      /\ q = Upto(p, k) /\ Len(q) = k /\ q # <<>> /\ q \notin dirs
  BY PathFacts DEF DirsTypeOK, MkdirMakes, NextDir, There
<1>2. /\ dirs' = dirs \cup {q} /\ path' = path /\ spoiled' = spoiled
      /\ call' = [call EXCEPT ![d] = IF k = Len(p) - 1 THEN "reopen" ELSE "down"]
      /\ lev' = IF k = Len(p) - 1 THEN lev ELSE [lev EXCEPT ![d] = k + 1]
      /\ raced' = [e \in Decoders |-> raced[e] \/ (e # d /\ Inside(e) /\ q \in DirsOf(path[e]))]
  BY DEF MkdirMakes
<1>3. q \in DirsOf(p)
  BY <1>1 DEF DirsOf
<1>4. DirsTypeOK'
  <2>1. dirs' \subseteq AllDirs
    BY <1>1, <1>2, <1>3 DEF DirsTypeOK, AllDirs
  <2>2. call' \in [Decoders -> Calls] /\ path' \in [Decoders -> Paths]
        /\ lev' \in [Decoders -> Nat] /\ spoiled' \subseteq Decoders
    BY <1>1, <1>2 DEF DirsTypeOK, Calls
  <2>3. raced' \in [Decoders -> BOOLEAN]
    BY <1>2 DEF DirsTypeOK
  <2>4. \A e \in Decoders : call'[e] \in {"up", "down"} => lev'[e] \in 1..(Len(path'[e]) - 1)
    BY <1>1, <1>2 DEF DirsTypeOK
  <2> QED
    BY <2>1, <2>2, <2>3, <2>4 DEF DirsTypeOK
<1>5. DirsClosed'
  <2>1. DirsOf(q) = {Upto(p, j) : j \in 1..(k - 1)}
    BY <1>1, PathFacts
  <2>2. Parent(q) = Upto(p, k - 1) /\ There(Parent(q))
    BY <1>1, PathFacts DEF MkdirMakes
  <2>3. CASE k = 1
    BY <2>1, <2>3, <1>1, <1>2 DEF DirsClosed
  <2>4. CASE k > 1
    <3>1. Upto(p, k - 1) \in dirs
      BY <2>2, <2>4, <1>1, PathFacts DEF There
    <3>2. DirsOf(Upto(p, k - 1)) = {Upto(p, j) : j \in 1..(k - 2)}
      <4>1. k - 1 \in 1..Len(p) /\ (k - 1) - 1 = k - 2
        BY <1>1, <2>4
      <4>2. DirsOf(Upto(p, k - 1)) = {Upto(p, j) : j \in 1..((k - 1) - 1)}
        BY <4>1, <1>1, PathFacts
      <4> QED
        BY <4>1, <4>2
    <3>3. \A j \in 1..(k - 1) : Upto(p, j) \in dirs
      BY <3>1, <3>2, <1>1 DEF DirsClosed
    <3> QED
      BY <3>3, <2>1, <1>2 DEF DirsClosed
  <2> QED
    BY <2>3, <2>4, <1>1
<1>6. NextIsMissing'
  <2> SUFFICES ASSUME NEW e \in Decoders, call'[e] \in {"up", "down"}
               PROVE  /\ NextDir(e)' \notin Standing
                      /\ ~raced'[e] => NextDir(e)' \notin dirs'
    BY DEF NextIsMissing
  <2>1. CASE e = d
    <3>1. k < Len(p) - 1 /\ lev'[d] = k + 1 /\ NextDir(d)' = Upto(p, k + 1)
      BY <2>1, <1>1, <1>2 DEF DirsTypeOK, NextDir
    <3>2. DirsOf(Upto(p, k + 1)) = {Upto(p, j) : j \in 1..k}
      <4>1. k + 1 \in 1..Len(p) /\ (k + 1) - 1 = k
        BY <3>1, <1>1
      <4>2. DirsOf(Upto(p, k + 1)) = {Upto(p, j) : j \in 1..((k + 1) - 1)}
        BY <4>1, <1>1, PathFacts
      <4> QED
        BY <4>1, <4>2
    <3>3. q \in DirsOf(Upto(p, k + 1))
      BY <3>2, <1>1
    <3>4. Upto(p, k + 1) \notin dirs /\ Upto(p, k + 1) \notin Standing
      BY <3>3, <1>1 DEF DirsClosed
    <3>5. Upto(p, k + 1) # q
      BY <3>1, <1>1, PathFacts
    <3> QED
      BY <2>1, <3>1, <3>4, <3>5, <1>2
  <2>2. CASE e # d
    <3>1. call[e] \in {"up", "down"} /\ NextDir(e)' = NextDir(e)
      BY <2>2, <1>1, <1>2 DEF DirsTypeOK, NextDir
    <3>2. NextDir(e) \in DirsOf(path[e])
      BY <3>1 DEF DirsTypeOK, NextDir, DirsOf
    <3>3. ~raced'[e] => ~raced[e] /\ q \notin DirsOf(path[e])
      BY <2>2, <3>1, <1>2 DEF Inside
    <3> QED
      BY <3>1, <3>2, <3>3, <1>2 DEF NextIsMissing
  <2> QED
    BY <2>1, <2>2
<1>7. q \notin Standing
  BY <1>1 DEF DirsClosed
<1>8. RacedMeansMade'
  BY <1>2, <1>7 DEF RacedMeansMade
<1>9. DeepestGoesOn'
  <2> SUFFICES ASSUME spoiled = {}, ~ \E e \in Decoders : call'[e] = "opened"
               PROVE  \A r \in dirs' \ Standing : \E e \in Decoders : Beyond(e, r)'
    BY <1>2 DEF DeepestGoesOn
  <2>1. ~ \E e \in Decoders : call[e] = "opened"
    BY <1>2 DEF DirsTypeOK, MkdirMakes
  <2>2. ASSUME NEW r, r = q
        PROVE  Beyond(d, r)'
    BY <2>2, <1>1, <1>2 DEF DirsTypeOK, Beyond
  <2>3. ASSUME NEW r \in dirs \ Standing
        PROVE  \E e \in Decoders : Beyond(e, r)'
    <3>1. PICK e \in Decoders : Beyond(e, r)
      BY <2>1 DEF DeepestGoesOn
    <3>2. Len(r) \in Nat
      <4>1. PICK x \in Paths : r \in DirsOf(x)
        BY DEF DirsTypeOK, AllDirs
      <4>2. PICK j \in 1..(Len(x) - 1) : r = Upto(x, j)
        BY <4>1 DEF DirsOf
      <4> QED
        BY <4>2, PathFacts
    <3>3. CASE e # d
      BY <3>1, <3>3, <1>1, <1>2 DEF DirsTypeOK, Beyond
    <3>4. CASE e = d
      BY <3>1, <3>2, <3>4, <1>1, <1>2 DEF DirsTypeOK, Beyond, MkdirMakes
    <3> QED
      BY <3>3, <3>4
  <2> QED
    BY <2>2, <2>3, <1>2
<1>10. FailsOnlyByRace'
  BY <1>2 DEF FailsOnlyByRace, DirsTypeOK
<1> QED
  BY <1>4, <1>5, <1>6, <1>8, <1>9, <1>10

LEMMA MkdirMissesInv ==
  ASSUME DInv, NEW d \in Decoders, MkdirMisses(d)
  PROVE  DInv'
<1> DEFINE p == path[d]
           k == lev[d]
<1> USE DEF DInv
<1>1. /\ p \in Paths /\ Len(p) \in Nat \ {0} /\ k \in 1..(Len(p) - 1)
      /\ NextDir(d) = Upto(p, k) /\ Parent(Upto(p, k)) = Upto(p, k - 1)
  BY PathFacts DEF DirsTypeOK, MkdirMisses, NextDir
<1>2. /\ call[d] = "up" /\ lev' = [lev EXCEPT ![d] = k - 1]
      /\ UNCHANGED <<dirs, call, path, raced, spoiled>>
  BY DEF MkdirMisses
<1>3. k > 1 /\ Upto(p, k - 1) \notin dirs
  BY <1>1, PathFacts DEF MkdirMisses, There
<1>4. DirsTypeOK'
  BY <1>1, <1>2, <1>3 DEF DirsTypeOK
<1>5. NextIsMissing'
  <2> SUFFICES ASSUME NEW e \in Decoders, call[e] \in {"up", "down"}
               PROVE  /\ NextDir(e)' \notin Standing
                      /\ ~raced[e] => NextDir(e)' \notin dirs
    BY <1>2 DEF NextIsMissing
  <2>1. CASE e = d
    BY <2>1, <1>1, <1>2, <1>3 DEF DirsTypeOK, NextDir, DirsClosed
  <2>2. CASE e # d
    BY <2>2, <1>1, <1>2 DEF DirsTypeOK, NextDir, NextIsMissing
  <2> QED
    BY <2>1, <2>2
<1>6. DeepestGoesOn'
  <2>1. \A q : \A e \in Decoders : Beyond(e, q) => Beyond(e, q)'
    BY <1>1, <1>2 DEF DirsTypeOK, Beyond
  <2> QED
    BY <1>2, <2>1 DEF DeepestGoesOn
<1> QED
  BY <1>2, <1>4, <1>5, <1>6 DEF DirsClosed, RacedMeansMade, FailsOnlyByRace

LEMMA MkdirExistsInv ==
  ASSUME DInv, NEW d \in Decoders, MkdirExists(d)
  PROVE  DInv'
<1> DEFINE p == path[d]
           k == lev[d]
<1> USE DEF DInv
<1>1. /\ p \in Paths /\ Len(p) \in Nat \ {0} /\ k \in 1..(Len(p) - 1)
      /\ Len(NextDir(d)) = k /\ NextDir(d) \in dirs
  BY PathFacts DEF DirsTypeOK, MkdirExists, NextDir, There
<1>2. /\ call[d] \in {"up", "down"} /\ call' = [call EXCEPT ![d] = "failed"]
      /\ UNCHANGED <<dirs, path, lev, raced, spoiled>>
  BY DEF MkdirExists
<1>3. raced[d] /\ NextDir(d) \notin Standing
  BY <1>1, <1>2 DEF NextIsMissing
<1>4. DirsTypeOK'
  BY <1>2 DEF DirsTypeOK, Calls
<1>5. NextIsMissing'
  BY <1>2 DEF DirsTypeOK, NextIsMissing, NextDir
<1>6. DeepestGoesOn'
  <2> SUFFICES ASSUME spoiled = {}, ~ \E e \in Decoders : call'[e] = "opened"
               PROVE  \A r \in dirs \ Standing : \E e \in Decoders : Beyond(e, r)'
    BY <1>2 DEF DeepestGoesOn
  <2>1. ~ \E e \in Decoders : call[e] = "opened"
    BY <1>2 DEF DirsTypeOK
  <2>2. PICK e \in Decoders : Beyond(e, NextDir(d))
    BY <2>1, <1>1, <1>3 DEF DeepestGoesOn
  <2>3. e # d
    BY <2>2, <1>1, <1>2 DEF Beyond
  <2>4. \A r : Beyond(e, r) => Beyond(e, r)'
    BY <2>3, <1>2 DEF DirsTypeOK, Beyond
  <2> TAKE r \in dirs \ Standing
  <2>5. PICK c \in Decoders : Beyond(c, r)
    BY <2>1 DEF DeepestGoesOn
  <2>6. CASE c # d
    BY <2>5, <2>6, <1>2 DEF DirsTypeOK, Beyond
  <2>7. CASE c = d
    <3>1. PICK x \in Paths : r \in DirsOf(x)
      BY DEF DirsTypeOK, AllDirs
    <3>2. PICK j \in 1..(Len(x) - 1) : r = Upto(x, j)
      BY <3>1 DEF DirsOf
    <3>3. Len(r) \in Nat
      BY <3>2, PathFacts
    <3>4. k > Len(r)
      BY <2>5, <2>7, <1>2 DEF Beyond
    <3>5. path[e] \in Paths /\ Len(path[e]) \in Nat /\ lev[e] \in Nat
      BY PathFacts DEF DirsTypeOK
    <3>6. Beyond(e, r)
      BY <2>2, <3>3, <3>4, <3>5, <1>1 DEF Beyond
    <3> QED
      BY <3>6, <2>4
  <2> QED
    BY <2>6, <2>7
<1>7. FailsOnlyByRace'
  BY <1>2, <1>3 DEF FailsOnlyByRace, DirsTypeOK
<1> QED
  BY <1>2, <1>4, <1>5, <1>6, <1>7 DEF DirsClosed, RacedMeansMade

(* The other steps make no directory. *)
LEMMA OpenMissesInv ==
  ASSUME DInv, NEW d \in Decoders, NEW p \in Paths, OpenMisses(d, p)
  PROVE  DInv'
<1> USE DEF DInv
<1>1. /\ call[d] = "none" /\ call' = [call EXCEPT ![d] = "up"]
      /\ path' = [path EXCEPT ![d] = p] /\ lev' = [lev EXCEPT ![d] = Len(p) - 1]
      /\ UNCHANGED <<dirs, raced, spoiled>>
  BY DEF OpenMisses
<1>2. Len(p) \in Nat \ {0} /\ Parent(p) = Upto(p, Len(p) - 1)
  BY PathFacts DEF Parent
<1>3. Len(p) > 1 /\ Upto(p, Len(p) - 1) \notin dirs
  BY <1>2, PathFacts DEF OpenMisses, There
<1>4. DirsTypeOK'
  BY <1>1, <1>2, <1>3 DEF DirsTypeOK, Calls
<1>5. NextIsMissing'
  <2> SUFFICES ASSUME NEW e \in Decoders, call'[e] \in {"up", "down"}
               PROVE  /\ NextDir(e)' \notin Standing
                      /\ ~raced[e] => NextDir(e)' \notin dirs
    BY <1>1 DEF NextIsMissing
  <2>1. CASE e = d
    BY <2>1, <1>1, <1>2, <1>3 DEF DirsTypeOK, NextDir, DirsClosed
  <2>2. CASE e # d
    BY <2>2, <1>1 DEF DirsTypeOK, NextDir, NextIsMissing
  <2> QED
    BY <2>1, <2>2
<1>6. DeepestGoesOn'
  <2>1. \A q : \A e \in Decoders : Beyond(e, q) => Beyond(e, q)'
    BY <1>1 DEF DirsTypeOK, Beyond
  <2> QED
    BY <1>1, <2>1 DEF DeepestGoesOn, DirsTypeOK
<1> QED
  BY <1>1, <1>4, <1>5, <1>6 DEF DirsClosed, RacedMeansMade, FailsOnlyByRace, DirsTypeOK

LEMMA OpensInv ==
  ASSUME DInv, NEW d \in Decoders,
         (\E p \in Paths : OpenFinds(d, p)) \/ Reopen(d)
  PROVE  DInv'
<1> USE DEF DInv
<1>1. /\ call' = [call EXCEPT ![d] = "opened"]
      /\ path' \in [Decoders -> Paths]
      /\ \A e \in Decoders : e # d => path'[e] = path[e]
      /\ UNCHANGED <<dirs, lev, raced, spoiled>>
  BY DEF OpenFinds, Reopen, DirsTypeOK
<1>2. DirsTypeOK'
  BY <1>1 DEF DirsTypeOK, Calls
<1>3. NextIsMissing'
  BY <1>1 DEF DirsTypeOK, NextIsMissing, NextDir
<1> QED
  BY <1>1, <1>2, <1>3 DEF DirsTypeOK, DirsClosed, RacedMeansMade, FailsOnlyByRace, DeepestGoesOn

LEMMA SpoiledInv ==
  ASSUME DInv, NEW d \in Decoders, Refused(d) \/ Killed(d)
  PROVE  DInv'
<1> USE DEF DInv
<1>1. /\ call' \in {[call EXCEPT ![d] = "failed"], [call EXCEPT ![d] = "killed"]}
      /\ spoiled' = spoiled \cup {d}
      /\ UNCHANGED <<dirs, path, lev, raced>>
  BY DEF Refused, Killed
<1>2. DirsTypeOK'
  BY <1>1 DEF DirsTypeOK, Calls
<1>3. NextIsMissing'
  BY <1>1 DEF DirsTypeOK, NextIsMissing, NextDir
<1> QED
  BY <1>1, <1>2, <1>3 DEF DirsTypeOK, DirsClosed, RacedMeansMade, FailsOnlyByRace, DeepestGoesOn

LEMMA DStepInv ==
  ASSUME DInv, NEW d \in Decoders, InCall(d) \/ UNCHANGED dvars
  PROVE  DInv'
<1>1. CASE UNCHANGED dvars
  BY <1>1 DEF dvars, DInv, DirsTypeOK, DirsClosed, NextIsMissing, NextDir, RacedMeansMade,
              DeepestGoesOn, Beyond, FailsOnlyByRace
<1>2. CASE InCall(d)
  BY <1>2, OpensInv, OpenMissesInv, MkdirMakesInv, MkdirMissesInv, MkdirExistsInv, SpoiledInv
  DEF InCall
<1> QED
  BY <1>1, <1>2

LEMMA DInvNotAllFail == DInv => NotAllFail
<1> SUFFICES ASSUME DInv, NEW d \in Decoders, call[d] = "failed", spoiled = {}
             PROVE  \E e \in Decoders : call[e] \in {"down", "reopen", "opened"}
  BY DEF NotAllFail
<1>1. raced[d]
  BY DEF DInv, FailsOnlyByRace
<1>2. PICK q \in dirs : q \notin Standing
  BY <1>1 DEF DInv, RacedMeansMade
<1> QED
  BY <1>2 DEF DInv, DeepestGoesOn, Beyond

-----------------------------------------------------------------------------
(* The decoders. *)

LEMMA NextIsCall ==
  ASSUME [Next]_vars
  PROVE  UNCHANGED dvars \/ \E d \in Decoders : InCall(d)
<1>1. CASE UNCHANGED vars
  BY <1>1 DEF vars
<1>2. CASE Next
  <2> PICK d \in Decoders :
        \/ \E i \in Images : Start(d, i)
        \/ \E p \in Paths : OpenFirst(d, p)
        \/ Receive(d) \/ ReadsEOF(d)
        \/ HeadRefused(d) \/ MakeDirs(d) \/ OpenAgain(d) \/ OpenFails(d)
        \/ WriteBlock(d) \/ WriteGarbage(d) \/ BlockFails(d) \/ Finish(d)
        \/ EatEnds(d) \/ Interrupt(d) \/ Terminate(d) \/ Alarm(d)
    BY <1>2 DEF Next
  <2>1. CASE \E p \in Paths : OpenFirst(d, p)
    BY <2>1 DEF OpenFirst, InCall
  <2>2. CASE MakeDirs(d) \/ OpenAgain(d) \/ OpenFails(d)
    BY <2>2 DEF MakeDirs, OpenAgain, OpenFails, InCall
  <2>3. CASE Terminate(d) \/ Alarm(d)
    BY <2>3 DEF Terminate, Alarm, Exits, InCall
  <2>4. CASE (\E i \in Images : Start(d, i)) \/ Receive(d) \/ ReadsEOF(d) \/ HeadRefused(d)
    BY <2>4 DEF Start, Receive, ReadsEOF, HeadRefused
  <2>5. CASE WriteBlock(d) \/ WriteGarbage(d) \/ BlockFails(d) \/ Finish(d)
             \/ EatEnds(d) \/ Interrupt(d)
    BY <2>5 DEF WriteBlock, WriteGarbage, BlockFails, Finish, EatEnds, Interrupt
  <2> QED
    BY <2>1, <2>2, <2>3, <2>4, <2>5
<1> QED
  BY <1>1, <1>2

(* The types of what GiniImage adds to MkDirs. *)
ImageTypes ==
  /\ pc \in [Decoders -> PCs]
  /\ image \in [Decoders -> Images]
  /\ got \in [Decoders -> 0..(Last + 1)]
  /\ n \in [Decoders -> 0..(Last + 1)]
  /\ at \in [Decoders -> 0..(Last + 1)]
  /\ eof \in [Decoders -> BOOLEAN]
  /\ bad \in [Decoders -> BOOLEAN]
  /\ how \in [Decoders -> Ends]

FileTypes ==
  /\ file \in [Paths -> [Blocks -> Images \cup {NONE, GARBAGE}]]
  /\ opener \in [Paths -> Decoders \cup {NONE}]
  /\ clean \in [Paths -> BOOLEAN]

(* What a decoder has done at each place. *)
Places ==
  \A d \in Decoders :
    /\ pc[d] \in {"idle", "head"} => call[d] = "none"
    /\ pc[d] \in {"write", "read", "end"} \/ how[d] = "filed" => call[d] = "opened"
    /\ how[d] = "filed" => pc[d] = "done"
    /\ pc[d] \in {"idle", "head", "open", "write"} => n[d] = 0 /\ at[d] = 0

(* At the end of the loop there is nothing more to write. *)
LoopDone ==
  \A d \in Decoders : pc[d] = "end" \/ how[d] = "filed" =>
    /\ Prog(d) = "png" => n[d] > Last
    /\ Prog(d) = "zlib" /\ ~bad[d] /\ got[d] > Last => n[d] > Last

OpenerHasIt ==
  \A p \in Paths : opener[p] # NONE => path[opener[p]] = p /\ call[opener[p]] = "opened"

(* The opener of a file that is clean has its offset where it should be.   *)
InPlaceSoFar ==
  \A p \in Paths : clean[p] /\ opener[p] # NONE => at[opener[p]] = n[opener[p]]

GInv == /\ DirsTypeOK /\ ImageTypes /\ FileTypes
        /\ Places /\ LoopDone /\ OpenerHasIt /\ InPlaceSoFar /\ FileOfOneImage

LEMMA GInitInv == Init => GInv
<1> SUFFICES ASSUME Init
             PROVE  GInv
  OBVIOUS
<1>1. DirsTypeOK
  BY DInitInv DEF Init, DInv
<1>2. (CHOOSE i \in Images : TRUE) \in Images
  BY GiniAssumption
<1>3. ImageTypes /\ FileTypes
  BY <1>2, GiniAssumption DEF Init, ImageTypes, FileTypes, PCs, Ends
<1> QED
  BY <1>1, <1>3 DEF Init, DirsInit, GInv, Places, LoopDone, OpenerHasIt, InPlaceSoFar,
                      FileOfOneImage

(* A step that leaves the files and the counts of blocks alone, and what   *)
(* the image and the path of an opener are.                                *)
LEMMA QuietStep ==
  ASSUME GInv, DirsTypeOK', UNCHANGED <<files, n, at>>, NEW d \in Decoders,
         \A e \in Decoders : call[e] = "opened" =>
           path'[e] = path[e] /\ call'[e] = "opened" /\ image'[e] = image[e]
  PROVE  FileTypes' /\ OpenerHasIt' /\ InPlaceSoFar' /\ FileOfOneImage'
<1>1. FileTypes'
  BY DEF GInv, FileTypes, files
<1>2. \A p \in Paths : opener[p] # NONE => opener[p] \in Decoders
  BY DEF GInv, FileTypes
<1> QED
  BY <1>1, <1>2 DEF GInv, OpenerHasIt, InPlaceSoFar, FileOfOneImage, files

(* A step into the call or out of it leaves the other calls alone. *)
LEMMA CallStep ==
  ASSUME DirsTypeOK, NEW d \in Decoders, InCall(d)
  PROVE  /\ \A e \in Decoders \ {d} : path'[e] = path[e] /\ call'[e] = call[e]
         /\ call[d] # "opened"
<1>1. \A e \in Decoders \ {d} : path'[e] = path[e] /\ call'[e] = call[e]
  BY DEF InCall, OpenFinds, OpenMisses, MkdirMakes, MkdirMisses, MkdirExists, Reopen,
         Refused, Killed, DirsTypeOK
<1>2. call[d] # "opened"
  BY DEF InCall, OpenFinds, OpenMisses, MkdirMakes, MkdirMisses, MkdirExists, Reopen,
         Refused, Killed, Inside
<1> QED
  BY <1>1, <1>2

(* d opens p. *)
LEMMA OpenedStep ==
  ASSUME GInv, DirsTypeOK', NEW d \in Decoders, NEW p \in Paths,
         n[d] = 0, at[d] = 0, call[d] # "opened", call' = [call EXCEPT ![d] = "opened"],
         path'[d] = p, \A e \in Decoders \ {d} : path'[e] = path[e],
         Opened(d, p), UNCHANGED <<image, n, at>>
  PROVE  FileTypes' /\ OpenerHasIt' /\ InPlaceSoFar' /\ FileOfOneImage'
<1> USE DEF GInv
<1>1. /\ file' = [file EXCEPT ![p] = [b \in Blocks |-> NONE]]
      /\ opener' = [opener EXCEPT ![p] = d] /\ clean' = [clean EXCEPT ![p] = TRUE]
  BY DEF Opened
<1>2. FileTypes'
  BY <1>1 DEF FileTypes
<1>3. ASSUME NEW q \in Paths, q # p
      PROVE  /\ opener'[q] = opener[q] /\ file'[q] = file[q] /\ clean'[q] = clean[q]
             /\ opener[q] # NONE => opener[q] \in Decoders /\ opener[q] # d
  BY <1>1, <1>3 DEF FileTypes, OpenerHasIt
<1>4. opener'[p] = d /\ \A b \in Blocks : file'[p][b] = NONE
  BY <1>1 DEF FileTypes
<1>5. OpenerHasIt'
  <2> SUFFICES ASSUME NEW q \in Paths, opener'[q] # NONE
               PROVE  path'[opener'[q]] = q /\ call'[opener'[q]] = "opened"
    BY DEF OpenerHasIt
  <2>1. CASE q = p
    BY <2>1, <1>4 DEF DirsTypeOK
  <2>2. CASE q # p
    <3>1. opener'[q] = opener[q] /\ opener[q] \in Decoders /\ opener[q] # d
      BY <2>2, <1>3
    <3>2. path[opener[q]] = q /\ call[opener[q]] = "opened"
      BY <3>1 DEF OpenerHasIt
    <3> QED
      BY <3>1, <3>2 DEF DirsTypeOK
  <2> QED
    BY <2>1, <2>2
<1>6. FileOfOneImage'
  <2> SUFFICES ASSUME NEW q \in Paths, clean'[q], opener'[q] # NONE, NEW b \in Blocks
               PROVE  /\ file'[q][b] \in {NONE, image[opener'[q]]}
                      /\ b < n[opener'[q]] => file'[q][b] = image[opener'[q]]
    BY DEF FileOfOneImage
  <2>1. CASE q = p
    BY <2>1, <1>4 DEF Blocks
  <2>2. CASE q # p
    <3>1. opener'[q] = opener[q] /\ file'[q] = file[q] /\ clean[q]
      BY <2>2, <1>3
    <3> QED
      BY <3>1 DEF FileOfOneImage
  <2> QED
    BY <2>1, <2>2
<1>7. InPlaceSoFar'
  <2> SUFFICES ASSUME NEW q \in Paths, clean'[q], opener'[q] # NONE
               PROVE  at[opener'[q]] = n[opener'[q]]
    BY DEF InPlaceSoFar
  <2>1. CASE q = p
    BY <2>1, <1>4
  <2>2. CASE q # p
    BY <2>2, <1>3 DEF InPlaceSoFar
  <2> QED
    BY <2>1, <2>2
<1> QED
  BY <1>2, <1>5, <1>6, <1>7

(* d writes all of b, as its next block and in its place. *)
LEMMA WriteAllStep ==
  ASSUME GInv, NEW d \in Decoders, NEW b \in Images \cup {GARBAGE},
         n[d] \in Blocks, WriteAll(d, b), UNCHANGED <<dvars, image, opener>>,
         n' = [n EXCEPT ![d] = n[d] + 1]
  PROVE  /\ FileTypes' /\ InPlaceSoFar' /\ FileOfOneImage'
         /\ at' \in [Decoders -> 0..(Last + 1)]
         /\ \A e \in Decoders \ {d} : at'[e] = at[e]
<1> USE DEF GInv
<1> DEFINE p == path[d]
<1>1. /\ at[d] = n[d] /\ at' = [at EXCEPT ![d] = n[d] + 1]
      /\ file' = [file EXCEPT ![p][n[d]] = b]
      /\ clean' = [clean EXCEPT ![p] = clean[p] /\ opener[p] # NONE /\ b = image[opener[p]]]
      /\ opener' = opener
  BY DEF WriteAll, FileTypes, ImageTypes, DirsTypeOK
<1>2. p \in Paths
  BY DEF DirsTypeOK
<1>3. FileTypes'
  <2>1. file' \in [Paths -> [Blocks -> Images \cup {NONE, GARBAGE}]]
    BY <1>1, <1>2 DEF FileTypes
  <2>2. clean' \in [Paths -> BOOLEAN]
    BY <1>1, <1>2 DEF FileTypes
  <2> QED
    BY <2>1, <2>2, <1>1 DEF FileTypes
<1>4. /\ at' \in [Decoders -> 0..(Last + 1)]
      /\ \A e \in Decoders \ {d} : at'[e] = at[e]
  BY <1>1, GiniAssumption DEF ImageTypes, Blocks
<1>5. \A q \in Paths : clean'[q] => clean[q]
  BY <1>1, <1>2 DEF FileTypes
<1>6. InPlaceSoFar'
  <2> SUFFICES ASSUME NEW q \in Paths, clean[q], opener[q] # NONE
               PROVE  at'[opener[q]] = n'[opener[q]]
    BY <1>1, <1>5 DEF InPlaceSoFar
  <2>1. opener[q] \in Decoders /\ at[opener[q]] = n[opener[q]]
    BY DEF FileTypes, InPlaceSoFar
  <2> QED
    BY <2>1, <1>1 DEF ImageTypes
<1>7. FileOfOneImage'
  <2> SUFFICES ASSUME NEW q \in Paths, clean'[q], opener[q] # NONE, NEW c \in Blocks
               PROVE  /\ file'[q][c] \in {NONE, image[opener[q]]}
                      /\ c < n'[opener[q]] => file'[q][c] = image[opener[q]]
    BY <1>1 DEF FileOfOneImage
  <2>0. opener[q] \in Decoders /\ path[opener[q]] = q
    BY DEF FileTypes, OpenerHasIt
  <2>1. CASE q # p
    <3>1. opener[q] # d
      BY <2>0, <2>1
    <3>2. clean[q] /\ file'[q] = file[q]
      BY <2>1, <1>1, <1>2 DEF FileTypes
    <3> QED
      BY <2>0, <3>1, <3>2 DEF FileOfOneImage, ImageTypes
  <2>2. CASE q = p
    <3>1. clean[p] /\ b = image[opener[p]]
      BY <2>2, <1>1, <1>2, Zenon DEF FileTypes
    <3>2. file'[p] = [file[p] EXCEPT ![n[d]] = b]
      BY <1>1, <1>2 DEF FileTypes
    <3>3. CASE c = n[d]
      BY <2>2, <3>1, <3>2, <3>3, <1>2 DEF FileTypes
    <3>4. CASE c # n[d]
      <4>1. file'[p][c] = file[p][c]
        BY <3>2, <3>4, <1>2 DEF FileTypes
      <4>2. c < n'[opener[p]] => c < n[opener[p]]
        BY <3>4, <2>0, <2>2 DEF ImageTypes, Blocks
      <4> QED
        BY <2>2, <3>1, <4>1, <4>2 DEF FileOfOneImage
    <3> QED
      BY <3>3, <3>4
  <2> QED
    BY <2>1, <2>2
<1> QED
  BY <1>3, <1>4, <1>6, <1>7

(* What d writes does not reach its place, or not all of it. *)
LEMMA WriteAstrayStep ==
  ASSUME GInv, NEW d \in Decoders, call[d] = "opened",
         n[d] \in Blocks, WriteAstray(d), UNCHANGED <<dvars, image, opener>>,
         n' = [n EXCEPT ![d] = n[d] + 1]
  PROVE  /\ FileTypes' /\ InPlaceSoFar' /\ FileOfOneImage'
         /\ at' \in [Decoders -> 0..(Last + 1)]
         /\ \A e \in Decoders \ {d} : at'[e] = at[e]
<1> USE DEF GInv
<1> DEFINE p == path[d]
<1> DEFINE Result(to, end) ==
        /\ file' = [file EXCEPT ![p] =
                      [b \in Blocks |-> IF b \in at[d]..end THEN GARBAGE ELSE file[p][b]]]
        /\ at' = [at EXCEPT ![d] = to]
        /\ clean' = [clean EXCEPT ![p] = clean[p] /\ opener[p] # d /\ end < at[d]]
<1>0. PICK to \in {at[d], at[d] + 1} \cap 0..n[d] : \E end \in {to - 1, to} : Result(to, end)
  BY DEF WriteAstray, FileTypes, DirsTypeOK
<1>1. PICK end \in {to - 1, to} : Result(to, end)
  BY <1>0
<1>2. p \in Paths
  BY DEF DirsTypeOK
<1>3. FileTypes'
  <2>1. file' \in [Paths -> [Blocks -> Images \cup {NONE, GARBAGE}]]
    BY <1>1, <1>2 DEF FileTypes
  <2>2. clean' \in [Paths -> BOOLEAN]
    BY <1>1, <1>2 DEF FileTypes
  <2> QED
    BY <2>1, <2>2 DEF FileTypes
<1>4. /\ at' \in [Decoders -> 0..(Last + 1)]
      /\ \A e \in Decoders \ {d} : at'[e] = at[e]
  BY <1>0, <1>1, GiniAssumption DEF ImageTypes, Blocks
<1>5. ASSUME NEW q \in Paths, clean'[q], opener[q] # NONE
      PROVE  /\ clean[q] /\ opener[q] \in Decoders /\ opener[q] # d
             /\ \A c \in Blocks : file'[q][c] = file[q][c]
  <2>1. opener[q] \in Decoders /\ path[opener[q]] = q
    BY <1>5 DEF FileTypes, OpenerHasIt
  <2>2. CASE q # p
    BY <2>1, <2>2, <1>1, <1>2, <1>5 DEF FileTypes
  <2>3. CASE q = p
    <3>1. clean[p] /\ opener[p] # d /\ end < at[d]
      BY <2>3, <1>1, <1>2, <1>5, Zenon DEF FileTypes
    <3>2. end \in Int /\ at[d] \in Int
      BY <1>0, <1>1, GiniAssumption DEF ImageTypes
    <3>3. \A c \in Blocks : c \notin at[d]..end
      BY <3>1, <3>2
    <3>4. file'[p] = [b \in Blocks |-> IF b \in at[d]..end THEN GARBAGE ELSE file[p][b]]
      BY <1>1, <1>2 DEF FileTypes
    <3> QED
      BY <2>1, <2>3, <3>1, <3>3, <3>4
  <2> QED
    BY <2>2, <2>3
<1>6. InPlaceSoFar'
  <2> SUFFICES ASSUME NEW q \in Paths, clean'[q], opener[q] # NONE
               PROVE  at'[opener[q]] = n'[opener[q]]
    BY DEF InPlaceSoFar
  <2>1. clean[q] /\ opener[q] \in Decoders /\ opener[q] # d
    BY <1>5
  <2> QED
    BY <2>1, <1>1 DEF InPlaceSoFar, ImageTypes
<1>7. FileOfOneImage'
  <2> SUFFICES ASSUME NEW q \in Paths, clean'[q], opener[q] # NONE, NEW c \in Blocks
               PROVE  /\ file'[q][c] \in {NONE, image[opener[q]]}
                      /\ c < n'[opener[q]] => file'[q][c] = image[opener[q]]
    BY DEF FileOfOneImage
  <2>1. clean[q] /\ opener[q] \in Decoders /\ opener[q] # d /\ file'[q][c] = file[q][c]
    BY <1>5
  <2> QED
    BY <2>1 DEF FileOfOneImage, ImageTypes
<1> QED
  BY <1>3, <1>4, <1>6, <1>7

(* d passes b to write, as its next block. *)
LEMMA WriteStep ==
  ASSUME GInv, NEW d \in Decoders, NEW b \in Images \cup {GARBAGE},
         call[d] = "opened", n[d] \in Blocks, Write(d, b), UNCHANGED <<dvars, image>>
  PROVE  /\ FileTypes' /\ OpenerHasIt' /\ InPlaceSoFar' /\ FileOfOneImage'
         /\ n' = [n EXCEPT ![d] = n[d] + 1] /\ n' \in [Decoders -> 0..(Last + 1)]
         /\ at' \in [Decoders -> 0..(Last + 1)]
         /\ \A e \in Decoders \ {d} : at'[e] = at[e]
<1>1. n' = [n EXCEPT ![d] = n[d] + 1] /\ opener' = opener
  BY DEF Write, GInv, ImageTypes
<1>2. /\ FileTypes' /\ InPlaceSoFar' /\ FileOfOneImage'
      /\ at' \in [Decoders -> 0..(Last + 1)]
      /\ \A e \in Decoders \ {d} : at'[e] = at[e]
  BY <1>1, WriteAllStep, WriteAstrayStep DEF Write
<1>3. n' \in [Decoders -> 0..(Last + 1)]
  BY <1>1, GiniAssumption DEF GInv, ImageTypes, Blocks
<1>4. OpenerHasIt'
  BY <1>1 DEF GInv, OpenerHasIt, dvars
<1> QED
  BY <1>1, <1>2, <1>3, <1>4

(* One process at another place, and what else it keeps of a type. *)
LEMMA GotoTypes ==
  ASSUME ImageTypes, NEW d \in Decoders, NEW l \in PCs, pc' = [pc EXCEPT ![d] = l],
         UNCHANGED <<image, got, n, at, eof, bad>>,
         how' = how \/ \E w \in Ends : how' = [how EXCEPT ![d] = w]
  PROVE  ImageTypes'
<1>1. pc' \in [Decoders -> PCs]
  BY DEF ImageTypes
<1>2. how' \in [Decoders -> Ends]
  BY DEF ImageTypes
<1> QED
  BY <1>1, <1>2 DEF ImageTypes

LEMMA GoneTypes ==
  ASSUME ImageTypes, NEW d \in Decoders, Gone(d), UNCHANGED <<image, n, at>>
  PROVE  ImageTypes'
<1>1. pc' \in [Decoders -> PCs]
  BY DEF ImageTypes, Gone, Ended, Goto, PCs
<1>2. how' \in [Decoders -> Ends]
  BY DEF ImageTypes, Gone, Ended, Ends
<1>3. got' \in [Decoders -> 0..(Last + 1)]
  <2>1. 0 \in 0..(Last + 1)
    BY GiniAssumption
  <2> QED
    BY <2>1 DEF ImageTypes, Gone
<1>4. eof' \in [Decoders -> BOOLEAN] /\ bad' \in [Decoders -> BOOLEAN]
  BY DEF ImageTypes, Gone
<1> QED
  BY <1>1, <1>2, <1>3, <1>4 DEF ImageTypes

(* The steps that write nothing and open nothing. *)
LEMMA QuietInv ==
  ASSUME GInv, DirsTypeOK', NEW d \in Decoders,
         \/ (\E i \in Images : Start(d, i)) \/ Receive(d) \/ ReadsEOF(d)
         \/ HeadRefused(d) \/ BlockFails(d) \/ Finish(d) \/ EatEnds(d) \/ Interrupt(d)
  PROVE  GInv'
<1> USE DEF GInv
<1>1. UNCHANGED <<dvars, files, n, at>>
  BY DEF Start, Receive, ReadsEOF, HeadRefused, BlockFails, Finish, EatEnds, Interrupt
<1>2. \A e \in Decoders : call[e] = "opened" => image'[e] = image[e]
  BY DEF Start, Receive, ReadsEOF, HeadRefused, BlockFails, Finish, EatEnds, Interrupt,
         Places, ImageTypes
<1>3. FileTypes' /\ OpenerHasIt' /\ InPlaceSoFar' /\ FileOfOneImage'
  BY <1>1, <1>2, QuietStep DEF dvars
<1> SUFFICES ImageTypes' /\ Places' /\ LoopDone'
  BY <1>3
<1>4. CASE \E i \in Images : Start(d, i)
  BY <1>4, <1>1 DEF Start, dvars, pipe, Goto, ImageTypes, PCs, Places, LoopDone, Prog
<1>5. CASE Receive(d)
  <2>1. ImageTypes'
    <3>1. got[d] + 1 \in 0..(Last + 1)
      BY <1>5, GiniAssumption DEF Receive, ImageTypes
    <3>2. got' \in [Decoders -> 0..(Last + 1)]
      BY <1>5, <3>1 DEF Receive, ImageTypes
    <3> QED
      BY <1>5, <3>2 DEF Receive, ImageTypes, files, dvars
  <2> QED
    BY <2>1, <1>5 DEF Receive, dvars, ImageTypes, InRead, Places, LoopDone, Prog
<1>6. CASE ReadsEOF(d)
  BY <1>6 DEF ReadsEOF, dvars, ImageTypes, Places, LoopDone, Prog
<1>7. CASE HeadRefused(d)
  BY <1>7 DEF HeadRefused, dvars, pipe, Goto, ImageTypes, PCs, Places, LoopDone, Prog
<1>8. CASE BlockFails(d)
  <2>1. CASE Prog(d) = "png"
    <3>1. /\ UNCHANGED <<dvars, image, n, at>>
          /\ pc' = [pc EXCEPT ![d] = "done"] /\ how' = [how EXCEPT ![d] = "not filed"]
          /\ got' = [got EXCEPT ![d] = 0] /\ eof' = [eof EXCEPT ![d] = FALSE]
          /\ bad' = [bad EXCEPT ![d] = FALSE]
      BY <1>8, <2>1 DEF BlockFails, Gone, Ended, Goto
    <3>2. ImageTypes'
      <4>1. Gone(d)
        BY <1>8, <2>1 DEF BlockFails
      <4> QED
        BY <3>1, <4>1, GoneTypes
    <3>3. Places'
      BY <3>1 DEF ImageTypes, Places, dvars
    <3>4. LoopDone'
      BY <3>1 DEF ImageTypes, LoopDone, Prog
    <3> QED
      BY <3>2, <3>3, <3>4
  <2>2. CASE Prog(d) # "png"
    <3>1. /\ UNCHANGED <<dvars, image, n, at, how, got, eof, bad>>
          /\ pc[d] = "read" /\ pc' = [pc EXCEPT ![d] = "end"]
          /\ bad[d] \/ got[d] <= n[d]
      BY <1>8, <2>2 DEF BlockFails, NoBlock, Goto, pipe
    <3>2. ImageTypes'
      BY <3>1, GotoTypes DEF PCs
    <3>3. Places'
      BY <3>1 DEF ImageTypes, Places, dvars
    <3>4. LoopDone'
      BY <3>1, <2>2, GiniAssumption DEF ImageTypes, LoopDone, Prog
    <3> QED
      BY <3>2, <3>3, <3>4
  <2> QED
    BY <2>1, <2>2
<1>9. CASE Finish(d)
  BY <1>9 DEF Finish, Ended, dvars, pipe, Goto, ImageTypes, PCs, Ends, Places, LoopDone, Prog
<1>10. CASE EatEnds(d)
  <2>1. ImageTypes'
    BY <1>10, GoneTypes DEF EatEnds
  <2> QED
    BY <2>1, <1>10 DEF EatEnds, Gone, Ended, dvars, Goto, ImageTypes, Places, LoopDone, Prog
<1>11. CASE Interrupt(d)
  <2>1. ImageTypes'
    BY <1>11 DEF Interrupt, ImageTypes
  <2> QED
    BY <2>1, <1>11 DEF Interrupt, InRead, dvars, ImageTypes, Places, LoopDone, Prog
<1> QED
  BY <1>4, <1>5, <1>6, <1>7, <1>8, <1>9, <1>10, <1>11

(* The steps of the call, and those that end it. *)
LEMMA OpeningInv ==
  ASSUME GInv, DirsTypeOK', NEW d \in Decoders,
         (\E p \in Paths : OpenFirst(d, p)) \/ MakeDirs(d) \/ OpenAgain(d) \/ OpenFails(d)
  PROVE  GInv'
<1> USE DEF GInv
<1>1. InCall(d) /\ UNCHANGED <<image, n, at, how, got, eof, bad>>
  BY DEF OpenFirst, MakeDirs, OpenAgain, OpenFails, InCall, pipe
<1>2. /\ \A e \in Decoders \ {d} : path'[e] = path[e] /\ call'[e] = call[e]
      /\ call[d] # "opened"
  BY <1>1, CallStep
<1>3. pc[d] \in {"head", "open"} /\ n[d] = 0 /\ at[d] = 0 /\ how[d] # "filed"
  BY DEF OpenFirst, MakeDirs, OpenAgain, OpenFails, Places
<1>4. \/ /\ UNCHANGED files
         /\ \/ pc' = [pc EXCEPT ![d] = "eat"]
            \/ pc' = [pc EXCEPT ![d] = "open"]
            \/ pc[d] = "open" /\ UNCHANGED pc
      \/ /\ pc' = [pc EXCEPT ![d] = "write"]
         /\ call' = [call EXCEPT ![d] = "opened"]
         /\ Opened(d, path'[d]) /\ path'[d] \in Paths
  BY DEF OpenFirst, MakeDirs, OpenAgain, OpenFails, Goto, OpenFinds, Reopen, DirsTypeOK
<1>5. ImageTypes'
  BY <1>1, <1>4 DEF ImageTypes, PCs
<1>6. LoopDone'
  BY <1>1, <1>3, <1>4 DEF ImageTypes, LoopDone, Prog
<1>7. Places'
  <2> SUFFICES ASSUME NEW e \in Decoders
               PROVE  /\ pc'[e] \in {"idle", "head"} => call'[e] = "none"
                      /\ pc'[e] \in {"write", "read", "end"} \/ how[e] = "filed" => call'[e] = "opened"
                      /\ how[e] = "filed" => pc'[e] = "done"
                      /\ pc'[e] \in {"idle", "head", "open", "write"} => n[e] = 0 /\ at[e] = 0
    BY <1>1 DEF Places
  <2>1. CASE e = d
    BY <2>1, <1>3, <1>4 DEF ImageTypes, DirsTypeOK
  <2>2. CASE e # d
    BY <2>2, <1>2, <1>4 DEF ImageTypes, Places
  <2> QED
    BY <2>1, <2>2
<1>8. FileTypes' /\ OpenerHasIt' /\ InPlaceSoFar' /\ FileOfOneImage'
  <2>1. CASE UNCHANGED files
    BY <2>1, <1>1, <1>2, QuietStep
  <2>2. CASE /\ call' = [call EXCEPT ![d] = "opened"]
             /\ Opened(d, path'[d]) /\ path'[d] \in Paths
    BY <2>2, <1>1, <1>2, <1>3, OpenedStep
  <2> QED
    BY <2>1, <2>2, <1>4
<1> QED
  BY <1>5, <1>6, <1>7, <1>8

(* exit, wherever the decoder is. *)
LEMMA ExitsInv ==
  ASSUME GInv, DirsTypeOK', NEW d \in Running, Exits(d)
  PROVE  GInv'
<1> USE DEF GInv
<1>0. d \in Decoders
  BY DEF Running
<1>1. /\ pc' = [pc EXCEPT ![d] = "done"] /\ how' = [how EXCEPT ![d] = "not filed"]
      /\ got' = [got EXCEPT ![d] = 0] /\ eof' = [eof EXCEPT ![d] = FALSE]
      /\ bad' = [bad EXCEPT ![d] = FALSE]
      /\ UNCHANGED <<image, n, at, files>>
  BY DEF Exits, Gone, Ended, Goto
<1>2. \A e \in Decoders : path'[e] = path[e] /\ (e # d \/ call[e] = "opened" => call'[e] = call[e])
  BY <1>0 DEF Exits, Killed, Inside, dvars, DirsTypeOK
<1>3. FileTypes' /\ OpenerHasIt' /\ InPlaceSoFar' /\ FileOfOneImage'
  BY <1>0, <1>1, <1>2, QuietStep
<1>4. ImageTypes'
  BY <1>0, <1>1, GoneTypes DEF Exits
<1>5. Places'
  BY <1>0, <1>1, <1>2 DEF ImageTypes, Places
<1>6. LoopDone'
  BY <1>0, <1>1 DEF ImageTypes, LoopDone, Prog
<1> QED
  BY <1>3, <1>4, <1>5, <1>6

LEMMA WriteBlockInv ==
  ASSUME GInv, DirsTypeOK', NEW d \in Decoders, WriteBlock(d)
  PROVE  GInv'
<1> USE DEF GInv
<1>1. /\ pc[d] \in {"write", "read"} /\ got[d] > n[d]
      /\ UNCHANGED <<dvars, image, how, got, eof, bad>>
      /\ \/ pc' = [pc EXCEPT ![d] = IF More(d) THEN "read" ELSE "end"]
         \/ Cut(d) /\ pc' = [pc EXCEPT ![d] = "read"]
  BY DEF WriteBlock, Goto, pipe
<1>2. call[d] = "opened" /\ how[d] # "filed" /\ n[d] \in Blocks
  BY <1>1, GiniAssumption DEF Places, ImageTypes, Blocks
<1>3. PICK b \in Images \cup {GARBAGE} : Write(d, b)
  BY DEF WriteBlock, ImageTypes
<1>4. /\ FileTypes' /\ OpenerHasIt' /\ InPlaceSoFar' /\ FileOfOneImage'
      /\ n' = [n EXCEPT ![d] = n[d] + 1] /\ n' \in [Decoders -> 0..(Last + 1)]
      /\ at' \in [Decoders -> 0..(Last + 1)]
      /\ \A e \in Decoders \ {d} : at'[e] = at[e]
  BY <1>1, <1>2, <1>3, WriteStep
<1>5. ImageTypes'
  BY <1>1, <1>4 DEF ImageTypes, PCs
<1>6. Places'
  BY <1>1, <1>2, <1>4 DEF ImageTypes, Places, dvars
<1>7. LoopDone'
  BY <1>1, <1>2, <1>4, GiniAssumption DEF ImageTypes, LoopDone, Prog, More, Cut
<1> QED
  BY <1>1, <1>4, <1>5, <1>6, <1>7

LEMMA WriteGarbageInv ==
  ASSUME GInv, DirsTypeOK', NEW d \in Decoders, WriteGarbage(d)
  PROVE  GInv'
<1> USE DEF GInv
<1>1. /\ pc[d] = "read"
      /\ bad[d] \/ got[d] <= n[d]
      /\ UNCHANGED <<dvars, image, how, got, eof, bad>>
      /\ \/ Prog(d) = "png" /\ pc' = pc
         \/ Prog(d) # "png" /\ pc' = [pc EXCEPT ![d] = "end"]
  BY DEF WriteGarbage, NoBlock, Goto, pipe
<1>2. call[d] = "opened" /\ how[d] # "filed" /\ n[d] \in Blocks
  BY <1>1, GiniAssumption DEF WriteGarbage, Places, ImageTypes, Blocks
<1>3. Write(d, GARBAGE)
  BY DEF WriteGarbage
<1>4. /\ FileTypes' /\ OpenerHasIt' /\ InPlaceSoFar' /\ FileOfOneImage'
      /\ n' = [n EXCEPT ![d] = n[d] + 1] /\ n' \in [Decoders -> 0..(Last + 1)]
      /\ at' \in [Decoders -> 0..(Last + 1)]
      /\ \A e \in Decoders \ {d} : at'[e] = at[e]
  BY <1>1, <1>2, <1>3, WriteStep
<1>5. ImageTypes'
  BY <1>1, <1>4 DEF ImageTypes, PCs
<1>6. Places'
  BY <1>1, <1>2, <1>4 DEF ImageTypes, Places, dvars
<1>7. LoopDone'
  BY <1>1, <1>2, <1>4, GiniAssumption DEF ImageTypes, LoopDone, Prog
<1> QED
  BY <1>1, <1>4, <1>5, <1>6, <1>7

IInv == DInv /\ GInv

LEMMA IStepInv == IInv /\ [Next]_vars => IInv'
<1> SUFFICES ASSUME IInv, [Next]_vars
             PROVE  IInv'
  OBVIOUS
<1>1. DInv'
  <2>1. CASE UNCHANGED dvars
    BY <2>1 DEF IInv, dvars, DInv, DirsTypeOK, DirsClosed, NextIsMissing, NextDir,
                RacedMeansMade, DeepestGoesOn, Beyond, FailsOnlyByRace
  <2> QED
    BY <2>1, NextIsCall, DStepInv DEF IInv
<1>2. DirsTypeOK'
  BY <1>1 DEF DInv
<1>3. GInv'
  <2>1. CASE UNCHANGED vars
    BY <2>1, <1>2 DEF IInv, vars, dvars, pipe, files, GInv, ImageTypes, FileTypes, Places, LoopDone,
                      Prog, OpenerHasIt, InPlaceSoFar, FileOfOneImage
  <2>2. CASE Next
    BY <2>2, <1>2, QuietInv, OpeningInv, WriteBlockInv, WriteGarbageInv, ExitsInv
    DEF IInv, Next, Terminate, Alarm
  <2> QED
    BY <2>1, <2>2
<1> QED
  BY <1>1, <1>3 DEF IInv

LEMMA SpecInv == Spec => []IInv
<1>1. Init => IInv
  BY DInitInv, GInitInv DEF Init, IInv
<1> QED
  BY <1>1, IStepInv, PTL DEF Spec

-----------------------------------------------------------------------------
(* The types of directories, processes and files. *)
THEOREM ImageTypeCorrect == Spec => []TypeOK
<1>1. IInv => TypeOK
  BY DEF IInv, GInv, ImageTypes, FileTypes, TypeOK
<1> QED
  BY <1>1, SpecInv, PTL

(* mkdirs_open, by any number of processes and for any depth of paths: a   *)
(* call fails only if the system refuses, or if somebody else has made a   *)
(* directory of the path while it ran.                                     *)
THEOREM OnlyRacesFail == Spec => []FailsOnlyByRace
<1>1. IInv => FailsOnlyByRace
  BY DEF IInv, DInv
<1> QED
  BY <1>1, SpecInv, PTL

(* ... and where one fails by that, another has its file or goes on.       *)
THEOREM SomebodyWins == Spec => []NotAllFail
<1>1. IInv => NotAllFail
  BY DInvNotAllFail DEF IInv
<1> QED
  BY <1>1, SpecInv, PTL

(* A file that was not spoilt since the last truncation, neither by another *)
(* image nor by a write that failed, now or before, holds one image, whole *)
(* as far as its last opener has come, for any number of decoders that     *)
(* have it open.                                                           *)
THEOREM OneImageNoGaps == Spec => []FileOfOneImage
<1>1. IInv => FileOfOneImage
  BY DEF IInv, GInv
<1> QED
  BY <1>1, SpecInv, PTL

(* What a decoder says it has filed is there from the header to the last   *)
(* line, for images of any length and any size of zlibg2gini's buffer.     *)
THEOREM FiledImageIsWhole == Spec => []FiledIsWhole
<1>1. IInv => FiledIsWhole
  <2> SUFFICES ASSUME IInv, NEW d \in Decoders, how[d] = "filed",
                      opener[path[d]] = d, clean[path[d]],
                      Prog(d) = "zlib" => ~bad[d] /\ got[d] > Last,
                      NEW b \in Blocks
               PROVE  file[path[d]][b] = image[d]
    BY DEF FiledIsWhole
  <2>1. n[d] > Last
    BY GiniAssumption DEF IInv, GInv, LoopDone, ImageTypes, Prog
  <2>2. path[d] \in Paths /\ b < n[d]
    BY <2>1, GiniAssumption DEF IInv, GInv, DirsTypeOK, ImageTypes, Blocks
  <2>3. opener[path[d]] # NONE
    BY GiniAssumption
  <2> QED
    BY <2>2, <2>3 DEF IInv, GInv, FileOfOneImage
<1> QED
  BY <1>1, SpecInv, PTL

-----------------------------------------------------------------------------
(* What is left of a call of mkdirs_open. *)

LEMMA CallsLeftType ==
  ASSUME DirsTypeOK, NEW d \in Decoders, Inside(d)
  PROVE  CallsLeft(d) \in Nat \ {0}
<1>1. Len(path[d]) \in Nat /\ lev[d] \in Nat
  BY PathFacts DEF DirsTypeOK
<1>2. call[d] \in {"up", "down"} => lev[d] >= 1 /\ lev[d] <= Len(path[d]) - 1
  BY <1>1 DEF DirsTypeOK
<1>3. CASE call[d] = "up"
  BY <1>1, <1>2, <1>3 DEF CallsLeft
<1>4. CASE call[d] = "down"
  BY <1>1, <1>2, <1>4 DEF CallsLeft
<1>5. CASE call[d] = "reopen"
  BY <1>5 DEF CallsLeft
<1> QED
  BY <1>3, <1>4, <1>5 DEF Inside

(* Each of its steps takes at least one system call of the worst case.     *)
LEMMA OwnStepCounts ==
  ASSUME DirsTypeOK, NEW d \in Decoders, Inside(d), InCall(d)
  PROVE  CallsLeft(d)' < CallsLeft(d)
<1> DEFINE len == Len(path[d])
           k == lev[d]
<1>0. /\ len \in Nat /\ k \in Nat /\ CallsLeft(d) \in Nat \ {0}
      /\ call[d] \in {"up", "down"} => k >= 1 /\ k <= len - 1
  BY PathFacts, CallsLeftType DEF DirsTypeOK
<1>1. CASE MkdirMakes(d)
  <2>1. call[d] \in {"up", "down"} /\ path' = path
    BY <1>1 DEF MkdirMakes
  <2>2. CASE k = len - 1
    <3>1. call'[d] = "reopen"
      BY <1>1, <2>2 DEF MkdirMakes, DirsTypeOK
    <3>2. CallsLeft(d)' = 1
      BY <3>1 DEF CallsLeft
    <3>3. CallsLeft(d) > 1
      BY <1>0, <2>1 DEF CallsLeft
    <3> QED
      BY <3>2, <3>3
  <2>3. CASE k # len - 1
    <3>1. call'[d] = "down" /\ lev'[d] = k + 1 /\ path'[d] = path[d]
      BY <1>1, <2>3 DEF MkdirMakes, DirsTypeOK
    <3>2. CallsLeft(d)' = (len - (k + 1)) + 1
      BY <3>1 DEF CallsLeft
    <3>3. (len - (k + 1)) + 1 < CallsLeft(d)
      BY <1>0, <2>1 DEF CallsLeft
    <3> QED
      BY <3>2, <3>3
  <2> QED
    BY <2>2, <2>3
<1>2. CASE MkdirMisses(d)
  <2>1. call[d] = "up" /\ call'[d] = "up" /\ lev'[d] = k - 1 /\ path'[d] = path[d]
    BY <1>2 DEF MkdirMisses, DirsTypeOK
  <2>2. CallsLeft(d)' = (k - 1) + (len - 2) + 1
    BY <2>1 DEF CallsLeft
  <2>3. (k - 1) + (len - 2) + 1 < CallsLeft(d)
    BY <1>0, <2>1 DEF CallsLeft
  <2> QED
    BY <2>2, <2>3
<1>3. CASE MkdirExists(d) \/ Reopen(d) \/ Refused(d) \/ Killed(d)
  <2>1. call'[d] \in {"failed", "opened", "killed"}
    BY <1>3 DEF MkdirExists, Reopen, Refused, Killed, DirsTypeOK
  <2>2. CallsLeft(d)' = 0
    BY <2>1 DEF CallsLeft
  <2> QED
    BY <1>0, <2>2
<1>4. ~ \E p \in Paths : OpenFinds(d, p) \/ OpenMisses(d, p)
  BY DEF Inside, OpenFinds, OpenMisses
<1> QED
  BY <1>1, <1>2, <1>3, <1>4 DEF InCall

LEMMA OtherStepKeeps ==
  ASSUME DirsTypeOK, NEW d \in Decoders, NEW e \in Decoders \ {d}, InCall(e)
  PROVE  UNCHANGED <<call[d], path[d], lev[d]>>
BY DEF InCall, OpenFinds, OpenMisses, MkdirMakes, MkdirMisses, MkdirExists, Reopen,
       Refused, Killed, DirsTypeOK

(* A call of mkdirs_open makes no more than two system calls for each      *)
(* directory of its path, however deep it is and whatever other processes  *)
(* make meanwhile: each lowers what is left, and that is never less than   *)
(* one within the call (mkdirs_open.c:34-103).                             *)
THEOREM CallsComeToAnEnd ==
  Spec => /\ EveryCallCounts
          /\ [](\A d \in Decoders : Inside(d) => CallsLeft(d) \in Nat \ {0})
<1> DEFINE Counts == \A d \in Decoders : Inside(d) =>
                       \/ UNCHANGED <<call[d], path[d], lev[d]>>
                       \/ CallsLeft(d)' < CallsLeft(d)
           Left == \A d \in Decoders : Inside(d) => CallsLeft(d) \in Nat \ {0}
<1>1. IInv => Left
  BY CallsLeftType DEF IInv, DInv
<1>2. IInv /\ [Next]_vars => [Counts]_dvars
  <2> SUFFICES ASSUME IInv, [Next]_vars, ~UNCHANGED dvars,
                      NEW d \in Decoders, Inside(d)
               PROVE  \/ UNCHANGED <<call[d], path[d], lev[d]>>
                      \/ CallsLeft(d)' < CallsLeft(d)
    OBVIOUS
  <2>1. DirsTypeOK
    BY DEF IInv, DInv
  <2>2. PICK e \in Decoders : InCall(e)
    BY NextIsCall
  <2> QED
    BY <2>1, <2>2, OwnStepCounts, OtherStepKeeps
<1> QED
  BY <1>1, <1>2, SpecInv, PTL DEF Spec, EveryCallCounts

-----------------------------------------------------------------------------
(* A decoder that runs goes on running or is done: it is started once, and *)
(* no other decoder has a hand in where it is.                             *)
LEMMA RunsOrIsDone ==
  ASSUME IInv, NEW d \in Running, [Next]_vars
  PROVE  d \in Running' \/ pc'[d] = "done"
<1>1. /\ pc \in [Decoders -> PCs] /\ d \in Decoders
      /\ pc[d] \notin {"idle", "done"}
  BY DEF IInv, GInv, ImageTypes, Running
<1>2. pc'[d] # "idle"
  <2>1. CASE UNCHANGED vars
    BY <1>1, <2>1 DEF vars
  <2>2. ASSUME NEW e \in Decoders, NEW i \in Images, Start(e, i)
        PROVE  pc'[d] # "idle"
    BY <1>1, <2>2 DEF Start, Goto
  <2>3. ASSUME NEW e \in Decoders, NEW p \in Paths, OpenFirst(e, p)
        PROVE  pc'[d] # "idle"
    BY <1>1, <2>3 DEF OpenFirst, Goto
  <2>4. ASSUME NEW e \in Decoders,
               \/ Receive(e) \/ ReadsEOF(e) \/ HeadRefused(e) \/ MakeDirs(e)
               \/ OpenAgain(e) \/ OpenFails(e) \/ WriteBlock(e) \/ WriteGarbage(e)
        PROVE  pc'[d] # "idle"
    BY <1>1, <2>4 DEF Receive, ReadsEOF, HeadRefused, MakeDirs, OpenAgain, OpenFails,
                      WriteBlock, WriteGarbage, Goto
  <2>5. ASSUME NEW e \in Decoders,
               \/ BlockFails(e) \/ Finish(e) \/ EatEnds(e) \/ Interrupt(e)
               \/ Terminate(e) \/ Alarm(e)
        PROVE  pc'[d] # "idle"
    BY <1>1, <2>5 DEF BlockFails, Finish, EatEnds, Interrupt, Terminate, Alarm, Exits,
                      Gone, Ended, Goto
  <2> QED
    BY <2>1, <2>2, <2>3, <2>4, <2>5 DEF Next
<1> QED
  BY <1>1, <1>2 DEF Running

LEMMA AlarmEnds ==
  ASSUME IInv, NEW d \in Decoders, Alarm(d)
  PROVE  pc'[d] = "done"
BY DEF IInv, GInv, ImageTypes, Alarm, Exits, Gone, Ended, Goto

(* A decoder that runs can be ended by its alarm, in every state: it is on *)
(* before anything is read, and off only behind the last block             *)
(* (pngg2gini.c:348-353, 451, zlibg2gini.c:314-319, 468).                  *)
AlarmIsPossible(d) == [](d \in Running => ENABLED <<Alarm(d)>>_vars)

(* Every decoder ends, however many there are and whatever the feeds send  *)
(* or do not send, because its alarm does and nothing starts it again.     *)
THEOREM AlarmEndsDecoders ==
  FairSpec /\ (\A d \in Decoders : AlarmIsPossible(d)) => EveryDecoderEnds
<1>1. ASSUME NEW d \in Decoders
      PROVE  Spec /\ AlarmComes(d) /\ AlarmIsPossible(d)
               => (d \in Running ~> pc[d] = "done")
  <2>1. IInv /\ d \in Running /\ [Next]_vars => (d \in Running)' \/ (pc[d] = "done")'
    BY RunsOrIsDone
  <2>2. IInv /\ <<Alarm(d)>>_vars => (pc[d] = "done")'
    BY AlarmEnds
  <2> QED
    BY <2>1, <2>2, SpecInv, PTL DEF AlarmIsPossible, AlarmComes, Spec
<1>2. Spec /\ (\A d \in Decoders : AlarmComes(d)) /\ (\A d \in Decoders : AlarmIsPossible(d))
        => \A d \in Decoders : (d \in Running ~> pc[d] = "done")
  BY <1>1
<1>3. Fairness => \A d \in Decoders : AlarmComes(d)
  BY DEF Fairness
<1>4. FairSpec => Spec /\ Fairness
  BY DEF FairSpec
<1>5. (\A d \in Decoders : (d \in Running ~> pc[d] = "done")) => EveryDecoderEnds
  BY DEF EveryDecoderEnds
<1> QED
  BY <1>2, <1>3, <1>4, <1>5
=============================================================================
