---------------------------- MODULE LgtMdProofs ----------------------------
(***************************************************************************)
(* Theorems about the lightning decoder, for every size of the MD files,   *)
(* every feed and every order of kills and restarts.                       *)
(*                                                                         *)
(* The inductive invariant IInv says where the decoder stands in the file: *)
(* while it can write, either its current row is the first one that is not *)
(* full and every later row header is still missing, or it has run past    *)
(* the last row and the file is full.                                      *)
(***************************************************************************)
EXTENDS LgtMd, TLAPS

(* The process is about to write to an MD file whose header it has read. *)
Settled == pc \in {"ready", "closeday", "append", "commit"} /\ Usable

CmaxRange == \A f \in Files : \A r \in Rows : cmax[f][r] \in {MISS} \cup Cols

(* A file without a header has no row header either. *)
UnmadeEmpty ==
  \A f \in Files : hdr[f] # "ok" => \A r \in Rows : cmax[f][r] = MISS

(* What holds of the process at each point of the call. *)
Stages ==
  /\ pc \in PCs \ {"down", "ready"} => cur \in Flash
  /\ pc \in {"closeday", "create", "header", "append", "commit"} => mdfile \in Files
  /\ pc = "down" => mdfp = "NULL"
  /\ pc = "create" => mdfp = "NULL" /\ hdr[mdfile] = "absent"
  /\ pc = "header" => Usable /\ hdr[mdfile] = "bare"
  /\ pc = "commit" => Usable
  /\ Settled => mdfile \in Files /\ hdr[mdfile] = "ok"

(* rec is a column number, except right after the scan of an empty row. *)
RecRange ==
  rec \in Nat \/ (rec = MISS /\ pc = "append" /\ Usable /\ row \in Rows /\ col = 0)

(* The current row is the first with room. *)
InMatrix ==
  Settled /\ row \in Rows =>
    /\ \A q \in Rows : q < row => cmax[mdfile][q] = NCols
    /\ \A q \in Rows : q > row => cmax[mdfile][q] = MISS
    /\ col <= NCols /\ cmax[mdfile][row] <= col
    /\ pc # "append" => rec = col /\ col > 0
    /\ col = NCols /\ pc # "commit" => cmax[mdfile][row] = NCols

(* The decoder has run past the last row. *)
PastMatrix ==
  Settled /\ row \notin Rows =>
    row > NRows /\ \A q \in Rows : cmax[mdfile][q] = NCols

IInv ==
  /\ TypeOK
  /\ CmaxRange
  /\ RowsFillInOrder
  /\ UnmadeEmpty
  /\ Stages
  /\ RecRange
  /\ InMatrix
  /\ PastMatrix

-----------------------------------------------------------------------------
(* A day's MD file is one of the files in rotation. *)
LEMMA FileOfType == \A day \in Nat : FileOf(day) \in Files
  <1>1. \A day \in Nat : day % Decade \in 0..(Decade - 1)
    BY LgtMdAssumption
  <1>2. QED
    BY <1>1, LgtMdAssumption DEF FileOf, Files

(* A count of slots is a natural number. *)
LEMMA SlotCountType == \A a \in Nat, b \in Nat : a * NCols + b \in Nat
  BY LgtMdAssumption

(* Replacing what a function has for one file keeps its type. *)
LEMMA ReplaceType ==
  ASSUME NEW A, NEW B, NEW m \in [A -> B], NEW x \in A, NEW v \in B
  PROVE  [m EXCEPT ![x] = v] \in [A -> B]
  OBVIOUS

LEMMA InitInv == Init => IInv
  <1> SUFFICES ASSUME Init
               PROVE  IInv
    OBVIOUS
  <1>1. TypeOK
    BY LgtMdAssumption DEF Init, TypeOK, PCs, Files, Rows, Cols, MISS
  <1>2. CmaxRange /\ RowsFillInOrder /\ UnmadeEmpty
    BY DEF Init, CmaxRange, RowsFillInOrder, UnmadeEmpty, Rows
  <1>3. Stages /\ RecRange /\ InMatrix /\ PastMatrix
    BY DEF Init, Stages, RecRange, InMatrix, PastMatrix, Settled, Usable, PCs
  <1> QED
    BY <1>1, <1>2, <1>3 DEF IInv

(* update_row_header, wherever it is called: the types are kept, only the  *)
(* current file is touched, and what it says is in order.                  *)
LEMMA RowHeaderWritten ==
  ASSUME IInv, Settled, pc # "append", UpdateRowHeader, hdr' = hdr
  PROVE  /\ cmax' \in [Files -> [Rows -> Int]]
         /\ slots' \in [Files -> [Rows -> [Cols -> Flash \cup {NONE, JUNK}]]]
         /\ torn' \subseteq Files
         /\ CmaxRange' /\ RowsFillInOrder' /\ UnmadeEmpty'
         /\ row \in Rows => cmax' = [cmax EXCEPT ![mdfile][row] = col]
         /\ row \notin Rows => cmax' = cmax
  <1> USE LgtMdAssumption
  <1>1. mdfile \in Files /\ hdr[mdfile] = "ok"
    BY DEF IInv, Stages
  <1>2. CASE row \in Rows
    <2>1. cmax' = [cmax EXCEPT ![mdfile][row] = rec] /\ slots' = slots /\ torn' = torn
      BY <1>2 DEF UpdateRowHeader
    <2>2. rec = col /\ col \in Cols
      BY <1>2 DEF IInv, TypeOK, InMatrix, Cols
    <2>3. cmax' \in [Files -> [Rows -> Int]]
      BY <1>1, <1>2, <2>1, <2>2 DEF IInv, TypeOK, Cols
    <2>4. CmaxRange' /\ UnmadeEmpty'
      BY <1>1, <1>2, <2>1, <2>2 DEF IInv, TypeOK, CmaxRange, UnmadeEmpty
    <2>5. RowsFillInOrder'
      BY <1>1, <1>2, <2>1, <2>2 DEF IInv, TypeOK, RowsFillInOrder, InMatrix, Rows, Cols, MISS
    <2> QED
      BY <1>2, <2>1, <2>2, <2>3, <2>4, <2>5 DEF IInv, TypeOK
  <1>3. CASE row \notin Rows
    <2>1. cmax' = cmax /\ torn' = torn \cup {mdfile}
      BY <1>3 DEF UpdateRowHeader
    <2>2. slots' \in [Files -> [Rows -> [Cols -> Flash \cup {NONE, JUNK}]]]
      <3> DEFINE T == Flash \cup {NONE, JUNK}
                 old == slots[mdfile]
                 new == [q \in Rows |-> [c \in Cols |->
                           IF HeaderHits(row, q, c) THEN JUNK ELSE old[q][c]]]
      <3>1. slots \in [Files -> [Rows -> [Cols -> T]]] /\ old \in [Rows -> [Cols -> T]]
        BY <1>1 DEF IInv, TypeOK
      <3>2. new \in [Rows -> [Cols -> T]]
        <4>1. \A q \in Rows : \A c \in Cols :
                (IF HeaderHits(row, q, c) THEN JUNK ELSE old[q][c]) \in T
          BY <3>1
        <4> QED
          BY <4>1
      <3>3. slots' = [slots EXCEPT ![mdfile] = new]
        BY <1>3 DEF UpdateRowHeader
      <3> HIDE DEF new, T
      <3>4. [slots EXCEPT ![mdfile] = new] \in [Files -> [Rows -> [Cols -> T]]]
        BY <1>1, <3>1, <3>2, ReplaceType
      <3> QED
        BY <3>3, <3>4 DEF T
    <2> QED
      BY <1>1, <1>3, <2>1, <2>2 DEF IInv, TypeOK, CmaxRange, RowsFillInOrder, UnmadeEmpty
  <1> QED
    BY <1>2, <1>3

LEMMA StepInv == IInv /\ [Next]_vars => IInv'
  <1> SUFFICES ASSUME IInv, [Next]_vars
               PROVE  IInv'
    OBVIOUS
  <1> USE LgtMdAssumption
  <1>1. CASE StartDecoder
    <2>1. TypeOK'
      BY <1>1, FileOfType DEF StartDecoder, IInv, TypeOK, Stages, PCs, disk, place, stream
    <2>2. CmaxRange' /\ RowsFillInOrder' /\ UnmadeEmpty'
      BY <1>1 DEF StartDecoder, IInv, CmaxRange, RowsFillInOrder, UnmadeEmpty, disk
    <2>3. Stages'
      BY <1>1, FileOfType DEF StartDecoder, IInv, Stages, Settled, Usable, stream
    <2>4. RecRange'
      BY <1>1 DEF StartDecoder, IInv, RecRange, place
    <2>5. InMatrix' /\ PastMatrix'
      BY <1>1
      DEF StartDecoder, IInv, Stages, InMatrix, PastMatrix, Settled, Usable, stream
    <2> QED
      BY <2>1, <2>2, <2>3, <2>4, <2>5 DEF IInv
  <1>2. CASE CloseDay
    <2>1. CASE head = "valid"
      <3>1. Settled /\ pc # "append" /\ UpdateRowHeader /\ hdr' = hdr
        BY <1>2, <2>1 DEF CloseDay, Settled, Usable
      <3>2. TypeOK'
        BY <1>2, <3>1, RowHeaderWritten DEF CloseDay, IInv, TypeOK, PCs, place, stream, history
      <3>3. Stages' /\ RecRange' /\ InMatrix' /\ PastMatrix'
        BY <1>2, <3>1
        DEF CloseDay, IInv, Stages, RecRange, InMatrix, PastMatrix, Settled, PCs, place
      <3> QED
        BY <3>1, <3>2, <3>3, RowHeaderWritten DEF IInv
    <2>2. CASE head # "valid"
      <3>1. TypeOK'
        BY <1>2, <2>2 DEF CloseDay, IInv, TypeOK, PCs, place, stream, history
      <3>2. CmaxRange' /\ RowsFillInOrder' /\ UnmadeEmpty'
        BY <1>2, <2>2 DEF CloseDay, IInv, CmaxRange, RowsFillInOrder, UnmadeEmpty
      <3>3. Stages' /\ RecRange' /\ InMatrix' /\ PastMatrix'
        BY <1>2, <2>2
        DEF CloseDay, IInv, Stages, RecRange, InMatrix, PastMatrix, Settled, PCs, place
      <3> QED
        BY <3>1, <3>2, <3>3 DEF IInv
    <2> QED
      BY <2>1, <2>2
  <1>3. CASE OpenMissing
    <2>1. TypeOK'
      BY <1>3, FileOfType
      DEF OpenMissing, IInv, TypeOK, Stages, PCs, Flash, disk, stream, history
    <2>2. CmaxRange' /\ RowsFillInOrder' /\ UnmadeEmpty'
      BY <1>3 DEF OpenMissing, IInv, CmaxRange, RowsFillInOrder, UnmadeEmpty, disk
    <2>3. Stages'
      BY <1>3, FileOfType DEF OpenMissing, IInv, Stages, Settled, PCs, Flash, disk
    <2>4. RecRange'
      BY <1>3 DEF OpenMissing, IInv, RecRange
    <2>5. InMatrix' /\ PastMatrix'
      BY <1>3 DEF OpenMissing, InMatrix, PastMatrix, Settled
    <2> QED
      BY <2>1, <2>2, <2>3, <2>4, <2>5 DEF IInv
  <1>4. CASE OpenExisting
    <2> DEFINE f == FileOf(cur.day)
    <2>1. f \in Files /\ cur \in Flash /\ hdr[f] = "ok"
      BY <1>4, FileOfType DEF OpenExisting, IInv, Stages, PCs, Flash
    <2>2. /\ mdfile' = f /\ mdfp' = "open" /\ head' = "valid" /\ pc' = "append"
          /\ UNCHANGED <<disk, cur, nread, history>>
          /\ nflash' = (row' - 1) * NCols + col'
      BY <1>4 DEF OpenExisting
    <2>3. \/ /\ row' \in Rows
             /\ cmax[f][row'] # NCols /\ \A q \in Rows : q < row' => cmax[f][q] = NCols
             /\ rec' = cmax[f][row'] /\ col' = ScannedCol(cmax[f][row'])
          \/ /\ \A q \in Rows : cmax[f][q] = NCols
             /\ row' \in {NRows + 1, NRows + 2} /\ rec' \in Nat /\ col' = rec'
      BY <1>4 DEF OpenExisting, StopsAt, HasRoom, DataWord, Rows
    <2>4. row' - 1 \in Nat /\ row' \in Nat /\ col' \in Nat /\ rec' \in Int
      BY <2>1, <2>3 DEF ScannedCol, IInv, CmaxRange, Rows, Cols, MISS
    <2>5. nflash' \in Nat
      BY <2>2, <2>4, SlotCountType
    <2>6. TypeOK'
      BY <2>1, <2>2, <2>4, <2>5 DEF IInv, TypeOK, PCs, disk, history
    <2>7. CmaxRange' /\ RowsFillInOrder' /\ UnmadeEmpty'
      BY <2>2 DEF IInv, CmaxRange, RowsFillInOrder, UnmadeEmpty, disk
    <2>8. Stages'
      BY <2>1, <2>2 DEF Stages, Settled, Usable, PCs, disk
    <2>9. CASE row' \in Rows
      <3>1. rec' = cmax[f][row'] /\ cmax[f][row'] # NCols /\ col' = ScannedCol(cmax[f][row'])
            /\ \A q \in Rows : q < row' => cmax[f][q] = NCols
        BY <2>3, <2>9 DEF Rows
      <3>2. cmax[f][row'] \in {MISS} \cup Cols
        BY <2>1, <2>9 DEF IInv, CmaxRange
      <3>3. RecRange'
        BY <2>2, <2>9, <3>1, <3>2 DEF RecRange, ScannedCol, Usable, Cols, MISS
      <3>4. \A q \in Rows : q > row' => cmax[f][q] = MISS
        BY <2>1, <2>9, <3>1 DEF IInv, RowsFillInOrder, Rows
      <3>5. InMatrix' /\ PastMatrix'
        BY <2>2, <2>9, <3>1, <3>2, <3>4
        DEF InMatrix, PastMatrix, ScannedCol, Cols, MISS, disk
      <3> QED
        BY <2>6, <2>7, <2>8, <3>3, <3>5 DEF IInv
    <2>10. CASE row' \notin Rows
      <3>1. RecRange'
        BY <2>3, <2>10 DEF RecRange
      <3>2. InMatrix' /\ PastMatrix'
        BY <2>2, <2>3, <2>10 DEF InMatrix, PastMatrix, disk, Rows
      <3> QED
        BY <2>6, <2>7, <2>8, <3>1, <3>2 DEF IInv
    <2> QED
      BY <2>9, <2>10
  <1>5. CASE OpenBare
    <2>1. cur \in Flash /\ FileOf(cur.day) \in Files /\ rec \in Nat
      BY <1>5, FileOfType DEF OpenBare, IInv, Stages, RecRange, PCs, Flash
    <2>2. hdr[FileOf(cur.day)] = "bare" /\ UNCHANGED <<disk, nread>>
      BY <1>5 DEF OpenBare
    <2>3. CmaxRange' /\ RowsFillInOrder' /\ UnmadeEmpty'
      BY <2>2 DEF IInv, CmaxRange, RowsFillInOrder, UnmadeEmpty, disk
    <2>4. CASE pc' = "append"
      <3>1. /\ mdfile' = FileOf(cur.day) /\ head' = "none" /\ mdfp' = "open"
            /\ row' = 1 /\ col' = rec /\ nflash' = rec /\ UNCHANGED <<rec, cur, history>>
        BY <1>5, <2>4 DEF OpenBare, ProcessGone
      <3>2. TypeOK'
        BY <2>1, <2>2, <2>4, <3>1 DEF IInv, TypeOK, PCs, disk, history
      <3>3. Stages' /\ RecRange' /\ InMatrix' /\ PastMatrix'
        BY <2>1, <2>2, <2>4, <3>1
        DEF Stages, RecRange, InMatrix, PastMatrix, Settled, Usable, PCs
      <3> QED
        BY <2>3, <3>2, <3>3 DEF IInv
    <2>5. CASE pc' # "append"
      <3>1. ProcessGone /\ filed' = {}
        BY <1>5, <2>5 DEF OpenBare
      <3>2. TypeOK'
        BY <2>2, <3>1 DEF ProcessGone, IInv, TypeOK, PCs, disk
      <3>3. Stages' /\ RecRange' /\ InMatrix' /\ PastMatrix'
        BY <3>1 DEF ProcessGone, Stages, RecRange, InMatrix, PastMatrix, Settled, Usable, PCs
      <3> QED
        BY <2>3, <3>2, <3>3 DEF IInv
    <2> QED
      BY <2>4, <2>5
  <1>6. CASE CreateFails
    <2>1. TypeOK'
      BY <1>6, FileOfType
      DEF CreateFails, IInv, TypeOK, Stages, PCs, Flash, disk, place, stream, history
    <2>2. CmaxRange' /\ RowsFillInOrder' /\ UnmadeEmpty'
      BY <1>6 DEF CreateFails, IInv, CmaxRange, RowsFillInOrder, UnmadeEmpty, disk
    <2>3. Stages'
      BY <1>6, FileOfType DEF CreateFails, IInv, Stages, Settled, Usable
    <2>4. RecRange'
      BY <1>6 DEF CreateFails, IInv, RecRange, place
    <2>5. InMatrix' /\ PastMatrix'
      BY <1>6 DEF CreateFails, IInv, Stages, InMatrix, PastMatrix, Settled, Usable
    <2> QED
      BY <2>1, <2>2, <2>3, <2>4, <2>5 DEF IInv
  <1>7. CASE CreateFile
    <2>1. TypeOK'
      <3>1. mdfile \in Files
        BY <1>7 DEF CreateFile, IInv, Stages
      <3>2. hdr' \in [Files -> {"absent", "bare", "ok"}]
        BY <1>7, <3>1 DEF CreateFile, IInv, TypeOK
      <3>3. [r \in Rows |-> MISS] \in [Rows -> Int]
        BY DEF MISS
      <3>4. cmax' \in [Files -> [Rows -> Int]]
        BY <1>7, <3>1, <3>3 DEF CreateFile, IInv, TypeOK
      <3> QED
        BY <1>7, <3>2, <3>4 DEF CreateFile, IInv, TypeOK, PCs, place, history
    <2>2. CmaxRange' /\ RowsFillInOrder' /\ UnmadeEmpty'
      BY <1>7 DEF CreateFile, IInv, TypeOK, CmaxRange, RowsFillInOrder, UnmadeEmpty
    <2>3. Stages'
      BY <1>7, FileOfType DEF CreateFile, IInv, TypeOK, Stages, Settled, Usable, place
    <2>4. RecRange'
      BY <1>7 DEF CreateFile, IInv, RecRange, place
    <2>5. InMatrix' /\ PastMatrix'
      BY <1>7 DEF CreateFile, InMatrix, PastMatrix, Settled
    <2> QED
      BY <2>1, <2>2, <2>3, <2>4, <2>5 DEF IInv
  <1>8. CASE WriteHeader
    <2>1. TypeOK'
      BY <1>8, FileOfType
      DEF WriteHeader, IInv, TypeOK, Stages, PCs, Flash, stream, history
    <2>2. CmaxRange' /\ RowsFillInOrder' /\ UnmadeEmpty'
      BY <1>8 DEF WriteHeader, IInv, CmaxRange, RowsFillInOrder, UnmadeEmpty
    <2>3. Stages'
      BY <1>8, FileOfType DEF WriteHeader, IInv, TypeOK, Stages
    <2>4. RecRange'
      BY <1>8 DEF WriteHeader, IInv, RecRange
    <2>5. InMatrix' /\ PastMatrix'
      <3>1. mdfile \in Files /\ \A q \in Rows : cmax[mdfile][q] = MISS
        BY <1>8 DEF WriteHeader, IInv, UnmadeEmpty, Stages
      <3>2. /\ pc' = "append" /\ row' = 1 /\ col' = 0 /\ cmax' = cmax /\ mdfile' = mdfile
            /\ 1 \in Rows
        BY <1>8 DEF WriteHeader, Rows
      <3> QED
        BY <3>1, <3>2 DEF InMatrix, PastMatrix, Rows, MISS
    <2> QED
      BY <2>1, <2>2, <2>3, <2>4, <2>5 DEF IInv
  <1>9. CASE Overflow
    <2>1. TypeOK'
      BY <1>9, FileOfType DEF Overflow, IInv, TypeOK, Stages, PCs, disk, stream
    <2>2. CmaxRange' /\ RowsFillInOrder' /\ UnmadeEmpty'
      BY <1>9 DEF Overflow, IInv, CmaxRange, RowsFillInOrder, UnmadeEmpty, disk
    <2>3. Stages'
      BY <1>9, FileOfType
      DEF Overflow, RoomLeft, NextRow, NextCol, IInv, TypeOK, Stages, Settled, Usable,
          PCs, disk, place, stream, history
    <2>4. RecRange'
      BY <1>9, LgtMdAssumption
      DEF Overflow, RoomLeft, IInv, RecRange, Usable, Rows, disk, stream
    <2>5. InMatrix' /\ PastMatrix'
      BY <1>9
      DEF Overflow, RoomLeft, NextRow, NextCol, IInv, TypeOK, Stages, InMatrix,
          PastMatrix, Settled, Usable, disk, place, stream, history, Rows
    <2> QED
      BY <2>1, <2>2, <2>3, <2>4, <2>5 DEF IInv
  <1>10. CASE FileObservation
    <2>1. TypeOK'
      <3>1. NextRow \in Nat /\ NextCol \in Nat /\ nflash' \in Nat
            /\ cur \in Flash /\ mdfile \in Files
        BY <1>10 DEF FileObservation, NextRow, NextCol, IInv, TypeOK, Stages, PCs
      <3>2. NextRow \in Rows => NextCol \in Cols
        BY DEF NextRow, NextCol, IInv, TypeOK, Cols
      <3>3. slots' \in [Files -> [Rows -> [Cols -> Flash \cup {NONE, JUNK}]]]
        <4>1. CASE slots' = slots
          BY <4>1 DEF IInv, TypeOK
        <4>2. CASE NextRow \in Rows /\ slots' = [slots EXCEPT ![mdfile][NextRow][NextCol] = cur]
          <5> DEFINE T == Flash \cup {NONE, JUNK}
                     R == NextRow
                     C == NextCol
                     line == [slots[mdfile][R] EXCEPT ![C] = cur]
                     new  == [slots[mdfile] EXCEPT ![R] = line]
          <5>1. slots' = [slots EXCEPT ![mdfile] = new]
            BY <4>2
          <5>2. /\ slots \in [Files -> [Rows -> [Cols -> T]]]
                /\ R \in Rows /\ C \in Cols /\ cur \in T /\ mdfile \in Files
            BY <3>1, <3>2, <4>2 DEF IInv, TypeOK
          <5> HIDE DEF R, C, T
          <5>3. line \in [Cols -> T]
            BY <5>2, ReplaceType
          <5> HIDE DEF line
          <5>4. new \in [Rows -> [Cols -> T]]
            BY <5>2, <5>3, ReplaceType
          <5> HIDE DEF new
          <5>5. [slots EXCEPT ![mdfile] = new] \in [Files -> [Rows -> [Cols -> T]]]
            BY <5>2, <5>4, ReplaceType
          <5> QED
            BY <5>1, <5>5 DEF T
        <4> QED
          BY <1>10, <4>1, <4>2 DEF FileObservation
      <3>4. filed' \subseteq [file : Files, row : Nat, col : Nat, flash : Flash]
        BY <1>10, <3>1 DEF FileObservation, IInv, TypeOK
      <3> QED
        BY <1>10, <3>1, <3>3, <3>4 DEF FileObservation, IInv, TypeOK, PCs, stream
    <2>2. CmaxRange' /\ RowsFillInOrder' /\ UnmadeEmpty'
      BY <1>10 DEF FileObservation, IInv, CmaxRange, RowsFillInOrder, UnmadeEmpty, disk
    <2>3. Stages'
      BY <1>10, FileOfType
      DEF FileObservation, RoomLeft, NextRow, NextCol, IInv, TypeOK, Stages, Settled,
          Usable, PCs, disk, place, stream, history
    <2>4. RecRange'
      BY <1>10
      DEF FileObservation, RoomLeft, NextRow, NextCol, IInv, TypeOK, RecRange, Cols, MISS
    <2>5. InMatrix' /\ PastMatrix'
      BY <1>10
      DEF FileObservation, RoomLeft, NextRow, NextCol, IInv, TypeOK, CmaxRange,
          RowsFillInOrder, UnmadeEmpty, Stages, RecRange, InMatrix, PastMatrix, Settled,
          Usable, Rows, Cols, MISS, disk, place, stream
    <2> QED
      BY <2>1, <2>2, <2>3, <2>4, <2>5 DEF IInv
  <1>11. CASE CommitFullRow
    <2>1. Settled /\ pc # "append" /\ UpdateRowHeader /\ hdr' = hdr /\ mdfile \in Files
      BY <1>11 DEF CommitFullRow, IInv, Stages, Settled
    <2>2. TypeOK'
      BY <1>11, <2>1, RowHeaderWritten DEF CommitFullRow, IInv, TypeOK, PCs, place, stream, history
    <2>3. Stages' /\ RecRange'
      BY <1>11, <2>1 DEF CommitFullRow, IInv, TypeOK, Stages, RecRange,
                         Settled, Usable, PCs, place, stream, history
    <2>4. InMatrix' /\ PastMatrix'
      BY <1>11, <2>1, RowHeaderWritten
      DEF CommitFullRow, IInv, TypeOK, InMatrix, PastMatrix,
          Settled, Usable, Rows, place, stream, history
    <2> QED
      BY <2>1, <2>2, <2>3, <2>4, RowHeaderWritten DEF IInv
  <1>12. CASE Exit
    <2>1. Stages' /\ RecRange' /\ InMatrix' /\ PastMatrix'
      BY <1>12 DEF Exit, ProcessGone, Stages, RecRange, InMatrix, PastMatrix,
                   Settled, Usable, PCs
    <2>2. CASE nflash > 0 /\ Usable /\ UpdateRowHeader
      <3>1. Settled /\ pc # "append" /\ UpdateRowHeader /\ hdr' = hdr
        BY <1>12, <2>2 DEF Exit, Settled
      <3>2. TypeOK'
        BY <1>12, <3>1, RowHeaderWritten DEF Exit, ProcessGone, IInv, TypeOK, PCs
      <3> QED
        BY <2>1, <3>1, <3>2, RowHeaderWritten DEF IInv
    <2>3. CASE UNCHANGED <<cmax, slots, torn>>
      <3>1. TypeOK'
        BY <1>12, <2>3 DEF Exit, ProcessGone, IInv, TypeOK, PCs
      <3>2. CmaxRange' /\ RowsFillInOrder' /\ UnmadeEmpty'
        BY <1>12, <2>3 DEF Exit, IInv, CmaxRange, RowsFillInOrder, UnmadeEmpty
      <3> QED
        BY <2>1, <3>1, <3>2 DEF IInv
    <2> QED
      BY <1>12, <2>2, <2>3 DEF Exit
  <1>13. CASE StreamFault
    <2>1. TypeOK'
      BY <1>13, FileOfType
      DEF StreamFault, IInv, TypeOK, Stages, PCs, Flash, disk, place, stream, history,
          ProcessGone
    <2>2. CmaxRange' /\ RowsFillInOrder' /\ UnmadeEmpty'
      BY <1>13
      DEF StreamFault, IInv, CmaxRange, RowsFillInOrder, UnmadeEmpty, disk, ProcessGone
    <2>3. Stages'
      BY <1>13, FileOfType
      DEF StreamFault, RoomLeft, NextRow, NextCol, IInv, TypeOK, Stages, Settled, Usable,
          PCs, disk, place, stream, history, ProcessGone
    <2>4. RecRange'
      BY <1>13
      DEF StreamFault, RoomLeft, NextRow, NextCol, IInv, RecRange, place, ProcessGone
    <2>5. InMatrix' /\ PastMatrix'
      BY <1>13
      DEF StreamFault, RoomLeft, NextRow, NextCol, IInv, TypeOK, Stages, InMatrix,
          PastMatrix, Settled, Usable, disk, place, stream, history, Rows, ProcessGone
    <2> QED
      BY <2>1, <2>2, <2>3, <2>4, <2>5 DEF IInv
  <1>14. CASE Crash
    <2>1. TypeOK'
      BY <1>14, FileOfType
      DEF Crash, IInv, TypeOK, Stages, PCs, Flash, disk, place, stream, history,
          ProcessGone
    <2>2. CmaxRange' /\ RowsFillInOrder' /\ UnmadeEmpty'
      BY <1>14 DEF Crash, IInv, CmaxRange, RowsFillInOrder, UnmadeEmpty, disk, ProcessGone
    <2>3. Stages'
      BY <1>14, FileOfType
      DEF Crash, IInv, TypeOK, Stages, Settled, Usable, PCs, disk, place, stream, history,
          ProcessGone
    <2>4. RecRange'
      BY <1>14 DEF Crash, IInv, RecRange, place, ProcessGone
    <2>5. InMatrix' /\ PastMatrix'
      BY <1>14
      DEF Crash, IInv, TypeOK, Stages, InMatrix, PastMatrix, Settled, Usable, disk, place,
          stream, history, Rows, ProcessGone
    <2> QED
      BY <2>1, <2>2, <2>3, <2>4, <2>5 DEF IInv
  <1>15. ASSUME NEW day \in Days, ReceiveFlash(day)
        PROVE  IInv'
    <2>1. TypeOK'
      BY <1>15, FileOfType
      DEF ReceiveFlash, IInv, TypeOK, Stages, PCs, Flash, disk, place, stream, history
    <2>2. CmaxRange' /\ RowsFillInOrder' /\ UnmadeEmpty'
      BY <1>15 DEF ReceiveFlash, IInv, CmaxRange, RowsFillInOrder, UnmadeEmpty, disk
    <2>3. Stages'
      <3>1. cur' \in Flash /\ FileOf(day) \in Files
        BY <1>15, FileOfType DEF ReceiveFlash, IInv, TypeOK, Flash
      <3> QED
        BY <1>15, <3>1 DEF ReceiveFlash, IInv, TypeOK, Stages, Settled, Usable, PCs, disk,
                           place, stream, history, Files
    <2>4. RecRange'
      BY <1>15 DEF ReceiveFlash, IInv, RecRange, place
    <2>5. InMatrix' /\ PastMatrix'
      BY <1>15
      DEF ReceiveFlash, IInv, TypeOK, Stages, InMatrix, PastMatrix, Settled, Usable, disk,
          place, stream, history, Rows
    <2> QED
      BY <2>1, <2>2, <2>3, <2>4, <2>5 DEF IInv
  <1>16. CASE UNCHANGED vars
    <2>1. TypeOK'
      BY <1>16, FileOfType
      DEF vars, IInv, TypeOK, Stages, PCs, Flash, disk, place, stream, history
    <2>2. CmaxRange' /\ RowsFillInOrder' /\ UnmadeEmpty'
      BY <1>16 DEF vars, IInv, CmaxRange, RowsFillInOrder, UnmadeEmpty, disk
    <2>3. Stages'
      BY <1>16, FileOfType
      DEF vars, IInv, TypeOK, Stages, Settled, Usable, PCs, disk, place, stream, history
    <2>4. RecRange'
      BY <1>16 DEF vars, IInv, RecRange, Settled, Usable, disk, place, stream
    <2>5. InMatrix' /\ PastMatrix'
      BY <1>16
      DEF vars, IInv, TypeOK, Stages, InMatrix, PastMatrix, Settled, Usable, disk, place,
          stream, history, Rows
    <2> QED
      BY <2>1, <2>2, <2>3, <2>4, <2>5 DEF IInv
  <1> QED
    BY <1>1, <1>2, <1>3, <1>4, <1>5, <1>6, <1>7, <1>8, <1>9, <1>10, <1>11, <1>12, <1>13, <1>14, <1>15, <1>16 DEF Next

-----------------------------------------------------------------------------
(* Everything a decoder does, over any number of processes and kills,      *)
(* keeps the types (decode_lgt.c:711-914).                                 *)
THEOREM TypeCorrect == Spec => []TypeOK
  <1>1. IInv => TypeOK
    BY DEF IInv
  <1> QED
    BY <1>1, InitInv, StepInv, PTL DEF Spec

(* Rows fill in order in every MD file, so that the scan of the row headers *)
(* finds the place to continue (decode_lgt.c:815-825).                     *)
THEOREM RowsInOrder == Spec => []RowsFillInOrder
  <1>1. IInv => RowsFillInOrder
    BY DEF IInv
  <1> QED
    BY <1>1, InitInv, StepInv, PTL DEF Spec

(* Row headers and slots change in three ways only. *)
LEMMA DiskSteps ==
  ASSUME IInv, [Next]_vars
  PROVE  \/ UNCHANGED <<cmax, slots>>
         \/ Settled /\ pc # "append" /\ UpdateRowHeader /\ hdr' = hdr
         \/ CreateFile
         \/ FileObservation
  <1>1. CASE CloseDay
    BY <1>1 DEF CloseDay, Settled, Usable
  <1>2. CASE CommitFullRow
    BY <1>2 DEF CommitFullRow, IInv, Stages, Settled
  <1>3. CASE Exit
    BY <1>3 DEF Exit, Settled
  <1>4. ASSUME NEW day \in Days, ReceiveFlash(day)
        PROVE  UNCHANGED <<cmax, slots>>
    BY <1>4 DEF ReceiveFlash, disk
  <1>5. CASE StartDecoder \/ OpenMissing \/ OpenExisting \/ OpenBare \/ CreateFails
             \/ Overflow \/ StreamFault \/ Crash
    BY <1>5 DEF StartDecoder, OpenMissing, OpenExisting, OpenBare, CreateFails,
                Overflow, StreamFault, Crash, disk
  <1>6. CASE WriteHeader
    BY <1>6 DEF WriteHeader
  <1>7. CASE UNCHANGED vars
    BY <1>7 DEF vars, disk
  <1> QED
    BY <1>1, <1>2, <1>3, <1>4, <1>5, <1>6, <1>7 DEF Next

(* A flash is filed only in a slot that no row header covers. *)
LEMMA FiledBeyondCover ==
  ASSUME IInv, FileObservation, NextRow \in Rows
  PROVE  /\ mdfile \in Files /\ NextCol \in Cols
         /\ cmax[mdfile][NextRow] < NextCol
  <1> USE LgtMdAssumption
  <1>1. Settled /\ pc = "append" /\ mdfile \in Files
    BY DEF FileObservation, RoomLeft, Settled, Usable, IInv, Stages
  <1>2. CASE col < NCols
    BY <1>1, <1>2 DEF NextRow, NextCol, IInv, TypeOK, CmaxRange, InMatrix, Rows, Cols, MISS
  <1>3. CASE ~(col < NCols)
    <2>1. NextRow = row + 1 /\ NextCol = 1 /\ row \in Nat /\ col \in Nat
      BY <1>3 DEF NextRow, NextCol, IInv, TypeOK
    <2>2. row \in Rows
      BY <1>1, <2>1 DEF IInv, PastMatrix, Rows
    <2>3. cmax[mdfile][row + 1] = MISS
      BY <1>1, <2>1, <2>2 DEF IInv, InMatrix, Rows
    <2> QED
      BY <1>1, <2>1, <2>3 DEF MISS, Cols
  <1> QED
    BY <1>2, <1>3

(* What a reader has seen in a file that is not full stays: no restart and *)
(* no return to an earlier day goes over it (decode_lgt.c:810-848).        *)
THEOREM CoveredStay == Spec => CoveredSlotsStay
  <1>1. IInv /\ [Next]_vars => CoveredSlotsKept
    <2> SUFFICES ASSUME IInv, [Next]_vars,
                        NEW f \in Files, NEW r \in Rows, NEW c \in Cols,
                        Covered(f, r, c), ~Full(f)
                 PROVE  Covered(f, r, c)' /\ slots'[f][r][c] = slots[f][r][c]
      BY DEF CoveredSlotsKept
    <2> USE LgtMdAssumption
    <2>1. cmax[f][r] \in Cols /\ c \in Nat /\ c >= 1
      BY DEF Covered, IInv, CmaxRange, Cols, MISS
    <2>2. CASE UNCHANGED <<cmax, slots>>
      BY <2>2 DEF Covered
    <2>3. CASE Settled /\ pc # "append" /\ UpdateRowHeader /\ hdr' = hdr
      <3>1. mdfile \in Files /\ cmax \in [Files -> [Rows -> Int]] /\ col \in Nat
        BY <2>3 DEF IInv, Stages, TypeOK
      <3>2. CASE row \in Rows
        <4>1. cmax' = [cmax EXCEPT ![mdfile][row] = col] /\ slots' = slots
          BY <2>3, <3>2, RowHeaderWritten DEF UpdateRowHeader
        <4>2. cmax[mdfile][row] <= col
          BY <2>3, <3>2 DEF IInv, InMatrix
        <4> QED
          BY <2>1, <3>1, <3>2, <4>1, <4>2 DEF Covered
      <3>3. CASE row \notin Rows
        <4>1. cmax' = cmax /\ (slots'[f] = slots[f] \/ f = mdfile)
          BY <2>3, <3>1, <3>3 DEF UpdateRowHeader, IInv, TypeOK
        <4>2. f # mdfile
          BY <2>3, <3>3 DEF IInv, PastMatrix, Full, HasRoom
        <4> QED
          BY <2>1, <4>1, <4>2, <3>3, <2>3 DEF Covered, UpdateRowHeader
      <3> QED
        BY <3>2, <3>3
    <2>4. CASE CreateFile
      <3>1. mdfile \in Files /\ cmax[mdfile][r] = MISS
        BY <2>4 DEF CreateFile, IInv, Stages, UnmadeEmpty
      <3>2. f # mdfile
        BY <2>1, <3>1 DEF MISS, Cols
      <3> QED
        BY <2>1, <2>4, <3>1, <3>2 DEF CreateFile, Covered, IInv, TypeOK
    <2>5. CASE FileObservation
      <3>1. cmax' = cmax
        BY <2>5 DEF FileObservation
      <3>2. CASE slots' = slots
        BY <3>1, <3>2 DEF Covered
      <3>3. CASE NextRow \in Rows
                 /\ slots' = [slots EXCEPT ![mdfile][NextRow][NextCol] = cur]
        <4>1. mdfile \in Files /\ NextCol \in Cols /\ cmax[mdfile][NextRow] < NextCol
          BY <2>5, <3>3, FiledBeyondCover
        <4>2. ~(f = mdfile /\ r = NextRow /\ c = NextCol)
          BY <2>1, <4>1 DEF Covered, Cols
        <4> QED
          BY <3>1, <3>3, <4>1, <4>2 DEF Covered, IInv, TypeOK
      <3> QED
        BY <2>5, <3>2, <3>3 DEF FileObservation
    <2> QED
      BY <2>2, <2>3, <2>4, <2>5, DiskSteps
  <1>2. IInv /\ UNCHANGED vars => CoveredSlotsKept
    BY <1>1
  <1> QED
    BY <1>1, <1>2, InitInv, StepInv, PTL DEF Spec, CoveredSlotsStay

-----------------------------------------------------------------------------
(* What the two properties about slots need: the slots of the current row  *)
(* are written as far as the decoder has come; and every flash the process *)
(* has filed is visible or will be once the current row header is written. *)
RowWritten ==
  Settled /\ row \in Rows =>
    \A c \in Cols : c <= col => slots[mdfile][row][c] # NONE

HInv == IInv /\ NoHoles /\ RowWritten

(* A slot that has been written stays written. *)
LEMMA WrittenStays ==
  ASSUME IInv, [Next]_vars, NEW f \in Files, NEW r \in Rows, NEW c \in Cols,
         slots[f][r][c] # NONE
  PROVE  slots'[f][r][c] # NONE
  <1> USE LgtMdAssumption
  <1>1. CASE slots' = slots
    BY <1>1
  <1>2. CASE Settled /\ UpdateRowHeader
    <2>1. mdfile \in Files
      BY <1>2 DEF IInv, Stages
    <2>2. slots' = slots \/ slots'[f] = slots[f] \/ f = mdfile
      BY <1>2, <2>1 DEF UpdateRowHeader, IInv, TypeOK
    <2> QED
      BY <1>2, <2>1, <2>2 DEF UpdateRowHeader, IInv, TypeOK
  <1>3. CASE FileObservation
    <2>1. cur # NONE /\ mdfile \in Files
      BY <1>3 DEF FileObservation, IInv, Stages, PCs
    <2>2. CASE NextRow \in Rows /\ slots' = [slots EXCEPT ![mdfile][NextRow][NextCol] = cur]
      <3>1. NextCol \in Cols
        BY <1>3, <2>2, FiledBeyondCover
      <3> QED
        BY <2>1, <2>2, <3>1 DEF IInv, TypeOK
    <2> QED
      BY <1>1, <1>3, <2>2 DEF FileObservation
  <1>4. CASE CreateFile
    BY <1>4 DEF CreateFile
  <1> QED
    BY <1>1, <1>2, <1>3, <1>4, DiskSteps

(* As long as every write reaches the file, no step makes a hole. *)
LEMMA StepNoHoles == ~WriteMayFail /\ HInv /\ [Next]_vars => HInv'
  <1> SUFFICES ASSUME ~WriteMayFail, HInv, [Next]_vars
               PROVE  HInv'
    OBVIOUS
  <1> USE LgtMdAssumption
  <1>1. IInv /\ IInv' /\ NoHoles /\ RowWritten
    BY StepInv DEF HInv
  <1>2. NoHoles'
    <2> SUFFICES ASSUME NEW f \in Files, NEW r \in Rows, NEW c \in Cols, Covered(f, r, c)'
                 PROVE  slots'[f][r][c] # NONE
      BY DEF NoHoles
    <2>1. CASE Covered(f, r, c)
      BY <1>1, <2>1, WrittenStays DEF NoHoles
    <2>2. CASE ~Covered(f, r, c)
      <3>1. cmax' # cmax
        BY <2>2 DEF Covered
      <3>2. CASE Settled /\ pc # "append" /\ UpdateRowHeader /\ hdr' = hdr
        <4>1. row \in Rows /\ mdfile \in Files
          BY <3>1, <3>2 DEF UpdateRowHeader, IInv, HInv, Stages
        <4>2. cmax' = [cmax EXCEPT ![mdfile][row] = col]
          BY <1>1, <3>2, <4>1, RowHeaderWritten
        <4>3. f = mdfile /\ r = row /\ c <= col
          BY <1>1, <2>2, <4>1, <4>2 DEF Covered, IInv, TypeOK
        <4> QED
          BY <1>1, <3>2, <4>1, <4>3, WrittenStays DEF RowWritten
      <3>3. CASE CreateFile
        <4>1. mdfile \in Files
          BY <1>1, <3>3 DEF CreateFile, IInv, Stages
        <4>2. cmax'[f][r] = MISS \/ cmax'[f][r] = cmax[f][r]
          BY <1>1, <3>3, <4>1 DEF CreateFile, IInv, TypeOK
        <4> QED
          BY <2>2, <4>2 DEF Covered, MISS, Cols
      <3> QED
        BY <1>1, <3>1, <3>2, <3>3, DiskSteps DEF FileObservation
    <2> QED
      BY <2>1, <2>2
  <1>3. RowWritten'
    <2> SUFFICES ASSUME Settled', row' \in Rows, NEW c \in Cols, c <= col'
                 PROVE  slots'[mdfile'][row'][c] # NONE
      BY DEF RowWritten
    <2>1. CASE Settled /\ UNCHANGED <<row, col, mdfile>>
      <3>1. mdfile \in Files
        BY <1>1, <2>1 DEF IInv, Stages
      <3> QED
        BY <1>1, <2>1, <3>1, WrittenStays DEF RowWritten
    <2>2. CASE OpenExisting
      <3>1. mdfile' \in Files /\ cmax' = cmax
        BY <1>1, <2>2 DEF OpenExisting, IInv, Stages, disk
      <3>2. col' = ScannedCol(cmax[mdfile'][row']) /\ cmax[mdfile'][row'] \in {MISS} \cup Cols
        BY <1>1, <2>2, <3>1 DEF OpenExisting, IInv, CmaxRange, Rows
      <3>3. c <= cmax'[mdfile'][row']
        BY <3>1, <3>2 DEF ScannedCol, Cols, MISS
      <3> QED
        BY <1>2, <3>1, <3>3 DEF NoHoles, Covered
    <2>3. CASE Overflow
      BY <1>1, <2>3
      DEF Overflow, RoomLeft, IInv, TypeOK, PastMatrix, Settled, Usable, Rows, stream
    <2>4. CASE WriteHeader
      BY <2>4 DEF WriteHeader, Cols
    <2>5. CASE FileObservation
      <3>1. /\ Settled /\ row' = NextRow /\ col' = NextCol /\ mdfile' = mdfile
            /\ slots' = [slots EXCEPT ![mdfile][NextRow][NextCol] = cur]
        BY <2>5 DEF FileObservation, RoomLeft, Settled, Usable
      <3>2. cur # NONE /\ mdfile \in Files /\ NextCol \in Cols
        BY <1>1, <2>5, <3>1, FiledBeyondCover DEF FileObservation, IInv, Stages, PCs
      <3>3. CASE c = NextCol
        BY <1>1, <3>1, <3>2, <3>3 DEF IInv, TypeOK
      <3>4. CASE c # NextCol
        <4>1. NextRow = row /\ c <= col
          BY <1>1, <3>1, <3>4 DEF NextRow, NextCol, IInv, TypeOK, Cols
        <4> QED
          BY <1>1, <3>1, <3>2, <4>1, WrittenStays DEF RowWritten
      <3> QED
        BY <3>3, <3>4
    <2>6. CASE CloseDay \/ CommitFullRow
      <3>1. Settled /\ UNCHANGED <<row, col, mdfile>>
        BY <1>1, <2>6 DEF CloseDay, CommitFullRow, place, stream, Settled, Usable, IInv, Stages
      <3> QED
        BY <2>1, <3>1
    <2>7. ASSUME NEW day \in Days, ReceiveFlash(day)
          PROVE  Settled /\ UNCHANGED <<row, col, mdfile>>
      BY <2>7 DEF ReceiveFlash, place, stream, Settled, Usable
    <2>8. CASE UNCHANGED vars
      BY <2>1, <2>8 DEF vars, place, stream, Settled, Usable
    <2>9. CASE OpenMissing \/ OpenBare \/ CreateFails \/ StartDecoder \/ CreateFile
               \/ Exit \/ StreamFault \/ Crash
      BY <1>1, <2>9
      DEF OpenMissing, OpenBare, CreateFails, StartDecoder, CreateFile, Exit, StreamFault,
          Crash, ProcessGone, IInv, Stages, Settled, Usable, stream
    <2> QED
      BY <2>1, <2>2, <2>3, <2>4, <2>5, <2>6, <2>7, <2>8, <2>9 DEF Next
  <1> QED
    BY <1>1, <1>2, <1>3 DEF HInv

(* No reader ever meets an empty slot below CMAX, if every write reaches   *)
(* the file (decode_lgt.c:903-911).                                        *)
THEOREM NoHolesUnlessWritesFail == ~WriteMayFail /\ Spec => []NoHoles
  <1>1. Init => HInv
    BY InitInv DEF HInv, NoHoles, RowWritten, Covered, Init, Settled, Rows, Cols, MISS
  <1>2. HInv => NoHoles
    BY DEF HInv
  <1>3. CASE ~WriteMayFail
    BY <1>1, <1>2, <1>3, StepNoHoles, PTL DEF Spec
  <1> QED
    BY <1>3

-----------------------------------------------------------------------------
(* What the process has filed in the matrix is in its slot, and visible or *)
(* within the part of the current row that its header will cover.          *)
Pending(x) ==
  Settled /\ nflash > 0 /\ x.file = mdfile /\ x.row = row /\ x.col <= col

Held(x) ==
  /\ x.row \in Rows /\ x.col \in Cols
  /\ slots[x.file][x.row][x.col] \in {x.flash, JUNK}
  /\ Covered(x.file, x.row, x.col) \/ Pending(x)

AllHeld == \A x \in filed : x.row <= NRows => Held(x)

PInv == IInv /\ AllHeld

(* A flash in its slot stays there, or is overwritten by a row header. *)
LEMMA FlashStays ==
  ASSUME IInv, [Next]_vars, NEW x \in filed, Held(x)
  PROVE  slots'[x.file][x.row][x.col] \in {x.flash, JUNK}
  <1> USE LgtMdAssumption
  <1>0. x.file \in Files /\ x.row \in Rows /\ x.col \in Cols
    BY DEF IInv, TypeOK, Held
  <1>1. CASE slots' = slots
    BY <1>1 DEF Held
  <1>2. CASE Settled /\ UpdateRowHeader
    <2>1. mdfile \in Files
      BY <1>2 DEF IInv, Stages
    <2>2. slots' = slots \/ slots'[x.file] = slots[x.file] \/ x.file = mdfile
      BY <1>0, <1>2, <2>1 DEF UpdateRowHeader, IInv, TypeOK
    <2> QED
      BY <1>0, <1>2, <2>1, <2>2 DEF UpdateRowHeader, IInv, TypeOK, Held
  <1>3. CASE FileObservation /\ slots' # slots
    <2>1. NextRow \in Rows /\ slots' = [slots EXCEPT ![mdfile][NextRow][NextCol] = cur]
      BY <1>3 DEF FileObservation
    <2>2. mdfile \in Files /\ NextCol \in Cols /\ cmax[mdfile][NextRow] < NextCol
      BY <1>3, <2>1, FiledBeyondCover
    <2>3. ~(x.file = mdfile /\ x.row = NextRow /\ x.col = NextCol)
      BY <1>0, <2>1, <2>2 DEF Held, Covered, Pending, NextRow, NextCol, IInv, TypeOK,
                              CmaxRange, Rows, Cols, MISS
    <2> QED
      BY <1>0, <2>1, <2>2, <2>3 DEF Held, IInv, TypeOK
  <1>4. CASE CreateFile
    BY <1>1, <1>4 DEF CreateFile
  <1> QED
    BY <1>1, <1>2, <1>3, <1>4, DiskSteps

(* A visible slot of the matrix stays visible: only a file that is not     *)
(* there is created.                                                       *)
LEMMA CoverStays ==
  ASSUME IInv, [Next]_vars, NEW f \in Files, NEW r \in Rows, NEW c \in Cols,
         Covered(f, r, c)
  PROVE  Covered(f, r, c)'
  <1> USE LgtMdAssumption
  <1>1. CASE cmax' = cmax
    BY <1>1 DEF Covered
  <1>2. CASE Settled /\ pc # "append" /\ UpdateRowHeader /\ hdr' = hdr /\ row \in Rows
    <2>1. mdfile \in Files /\ cmax' = [cmax EXCEPT ![mdfile][row] = col]
          /\ cmax[mdfile][row] <= col
      BY <1>2, RowHeaderWritten DEF IInv, Stages, InMatrix
    <2> QED
      BY <2>1, <1>2 DEF Covered, IInv, TypeOK, CmaxRange, Cols, MISS
  <1>3. CASE CreateFile
    <2>1. mdfile \in Files /\ cmax[mdfile][r] = MISS
      BY <1>3 DEF CreateFile, IInv, Stages, UnmadeEmpty
    <2>2. f # mdfile
      BY <2>1 DEF Covered, MISS, Cols
    <2> QED
      BY <1>3, <2>1, <2>2 DEF CreateFile, Covered, IInv, TypeOK
  <1> QED
    BY <1>1, <1>2, <1>3, DiskSteps DEF FileObservation, UpdateRowHeader

(* A flash that is visible, or is pending after the step, is held after it. *)
LEMMA HeldStays ==
  ASSUME IInv, [Next]_vars, NEW x \in filed, Held(x),
         Covered(x.file, x.row, x.col) \/ Covered(x.file, x.row, x.col)' \/ Pending(x)'
  PROVE  Held(x)'
  <1>1. x.file \in Files /\ x.row \in Rows /\ x.col \in Cols
    BY DEF IInv, TypeOK, Held
  <1>2. slots'[x.file][x.row][x.col] \in {x.flash, JUNK}
    BY FlashStays
  <1>3. Covered(x.file, x.row, x.col)' \/ Pending(x)'
    BY <1>1, CoverStays
  <1> QED
    BY <1>1, <1>2, <1>3 DEF Held

LEMMA StepHeld == PInv /\ [Next]_vars => PInv'
  <1> SUFFICES ASSUME PInv, [Next]_vars
               PROVE  AllHeld'
    BY StepInv DEF PInv
  <1> USE LgtMdAssumption
  <1>1. IInv /\ AllHeld
    BY DEF PInv
  <1>3. ASSUME filed' \subseteq filed,
               \A x \in filed : Pending(x) /\ Held(x) =>
                                 Covered(x.file, x.row, x.col)' \/ Pending(x)'
        PROVE  AllHeld'
    <2> SUFFICES ASSUME NEW x \in filed', x.row <= NRows
                 PROVE  Held(x)'
      BY DEF AllHeld
    <2>1. x \in filed /\ Held(x)
      BY <1>1, <1>3 DEF AllHeld
    <2>2. Covered(x.file, x.row, x.col) \/ Covered(x.file, x.row, x.col)' \/ Pending(x)'
      BY <1>3, <2>1 DEF Held
    <2> QED
      BY <1>1, <2>1, <2>2, HeldStays
  <1>4. CASE filed' = {}
    BY <1>4 DEF AllHeld
  <1>5. CASE Settled /\ pc # "append" /\ UpdateRowHeader /\ hdr' = hdr /\ filed' = filed
    <2>1. ASSUME NEW x \in filed, Pending(x), Held(x)
          PROVE  Covered(x.file, x.row, x.col)'
      <3>1. mdfile \in Files /\ row \in Rows /\ x.file = mdfile /\ x.row = row /\ x.col <= col
        BY <1>1, <2>1, <1>5 DEF Pending, Held, IInv, Stages
      <3>2. cmax' = [cmax EXCEPT ![mdfile][row] = col]
        BY <1>1, <1>5, <3>1, RowHeaderWritten
      <3> QED
        BY <1>1, <3>1, <3>2 DEF Covered, IInv, TypeOK
    <2> QED
      BY <1>3, <1>5, <2>1
  <1>6. CASE ~Settled /\ filed' = filed
    BY <1>3, <1>6 DEF Pending
  <1>7. CASE UNCHANGED <<filed, place>> /\ (Settled => Settled')
    BY <1>3, <1>7 DEF Pending, place
  <1>8. CASE nflash = 0 /\ filed' = filed
    BY <1>3, <1>8 DEF Pending
  <1>9. CASE Overflow
    <2>1. ASSUME NEW x \in filed, Pending(x), Held(x)
          PROVE  Covered(x.file, x.row, x.col)'
      <3>1. cmax' = cmax /\ ~RoomLeft /\ pc = "append" /\ filed' = filed
        BY <1>9 DEF Overflow, disk
      <3>2. row \in Rows /\ mdfile \in Files /\ col <= NCols /\ ~(col < NCols) /\ col \in Nat
        BY <1>1, <2>1, <3>1 DEF Pending, Held, RoomLeft, Settled, Usable, IInv, TypeOK,
                                Stages, InMatrix
      <3>3. cmax[mdfile][row] = NCols
        BY <1>1, <2>1, <3>1, <3>2 DEF Pending, IInv, InMatrix
      <3> QED
        BY <2>1, <3>1, <3>3 DEF Pending, Held, Covered, Cols
    <2> QED
      BY <1>3, <1>9, <2>1 DEF Overflow
  <1>10. CASE FileObservation
    <2>1. /\ Settled /\ Settled' /\ mdfile' = mdfile /\ mdfile \in Files /\ cmax' = cmax
          /\ row' = NextRow /\ col' = NextCol /\ pc = "append"
      BY <1>1, <1>10 DEF FileObservation, RoomLeft, Settled, Usable, stream, IInv, Stages
    <2>2. ASSUME NEW x \in filed, Held(x), nflash > 0 => nflash' > 0
          PROVE  Covered(x.file, x.row, x.col)' \/ Pending(x)'
      <3>1. CASE Covered(x.file, x.row, x.col)
        BY <2>1, <3>1 DEF Covered
      <3>2. CASE Pending(x) /\ col < NCols
        BY <1>1, <2>1, <2>2, <3>2 DEF Pending, Held, NextRow, NextCol, IInv, TypeOK, Cols
      <3>3. CASE Pending(x) /\ ~(col < NCols)
        <4>1. row \in Rows /\ col = NCols
          BY <1>1, <2>1, <2>2, <3>3 DEF Pending, Held, IInv, TypeOK, InMatrix
        <4>2. cmax[mdfile][row] = NCols
          BY <1>1, <2>1, <4>1 DEF IInv, InMatrix
        <4> QED
          BY <2>1, <2>2, <3>3, <4>2 DEF Pending, Held, Covered, Cols
      <3> QED
        BY <2>2, <3>1, <3>2, <3>3 DEF Held
    <2>3. nflash \in Nat /\ (nflash' = nflash \/ nflash' = nflash + 1)
      BY <1>1, <1>10 DEF FileObservation, IInv, TypeOK
    <2>4. CASE filed' = filed
      BY <1>3, <2>2, <2>3, <2>4
    <2>5. CASE filed' # filed
      <3> PICK new : new = [file |-> mdfile, row |-> NextRow, col |-> NextCol, flash |-> cur]
        OBVIOUS
      <3>1. filed' = filed \cup {new} /\ nflash' = nflash + 1
            /\ (NextRow \in Rows =>
                  slots' = [slots EXCEPT ![mdfile][NextRow][NextCol] = cur])
        BY <1>10, <2>5 DEF FileObservation
      <3>2. ASSUME NEW x \in filed, x.row <= NRows
            PROVE  Held(x)'
        <4>1. Held(x)
          BY <1>1, <3>2 DEF AllHeld
        <4>2. Covered(x.file, x.row, x.col)' \/ Pending(x)'
          <5>1. nflash' > 0
            BY <2>3, <3>1
          <5> QED
            BY <2>2, <3>2, <4>1, <5>1
        <4> QED
          BY <1>1, <3>2, <4>1, <4>2, HeldStays
      <3>3. ASSUME new.row <= NRows
            PROVE  Held(new)'
        <4>1. NextRow \in Nat /\ NextRow >= 1
          BY <1>1, <2>1 DEF NextRow, IInv, TypeOK, PastMatrix, Rows
        <4>2. NextRow \in Rows
          BY <3>3, <4>1 DEF Rows
        <4>3. NextCol \in Cols
          BY <1>10, <1>1, <4>2, FiledBeyondCover
        <4>4. slots'[mdfile][NextRow][NextCol] = cur
          BY <1>1, <2>1, <3>1, <4>2, <4>3 DEF IInv, TypeOK
        <4>5. Pending(new)'
          BY <2>1, <2>3, <3>1, <4>3 DEF Pending, Cols
        <4> QED
          BY <4>2, <4>3, <4>4, <4>5 DEF Held
      <3> QED
        BY <3>1, <3>2, <3>3 DEF AllHeld
    <2> QED
      BY <2>4, <2>5
  <1>11. CASE CloseDay
    <2>1. CASE head = "valid"
      BY <1>5, <1>11, <2>1 DEF CloseDay, Settled, Usable, history
    <2>2. CASE head # "valid"
      BY <1>6, <1>11, <2>2 DEF CloseDay, Settled, Usable, history
    <2> QED
      BY <2>1, <2>2
  <1>12. CASE CommitFullRow
    BY <1>1, <1>5, <1>12 DEF CommitFullRow, IInv, Stages, Settled, history
  <1>13. CASE Exit
    <2>1. CASE nflash > 0 /\ Usable /\ UpdateRowHeader
      BY <1>5, <1>13, <2>1 DEF Exit, Settled
    <2>2. CASE nflash > 0 /\ head = "none"
      BY <1>6, <1>13, <2>2 DEF Exit, Settled, Usable
    <2>3. CASE nflash = 0
      BY <1>8, <1>13, <2>3 DEF Exit
    <2> QED
      BY <1>13, <2>1, <2>2, <2>3 DEF Exit
  <1>14. CASE OpenMissing \/ OpenExisting \/ CreateFails \/ CreateFile \/ WriteHeader
    <2>1. pc \in {"open", "create", "header"} /\ filed' = filed
      BY <1>14 DEF OpenMissing, OpenExisting, CreateFails, CreateFile, WriteHeader, history
    <2>2. ~Settled
      BY <2>1 DEF Settled
    <2> QED
      BY <1>6, <2>1, <2>2
  <1>15. CASE OpenBare
    <2>1. ~Settled /\ (filed' = filed \/ filed' = {})
      BY <1>15 DEF OpenBare, Settled, history
    <2> QED
      BY <1>4, <1>6, <2>1
  <1>16. CASE StartDecoder \/ StreamFault \/ Crash
    BY <1>4, <1>16 DEF StartDecoder, StreamFault, Crash
  <1>17. ASSUME NEW day \in Days, ReceiveFlash(day)
         PROVE  AllHeld'
    <2>1. CASE pc' \in {"append", "closeday"}
      BY <1>7, <1>17, <2>1 DEF ReceiveFlash, Settled, Usable, stream, history
    <2>2. CASE pc' = "open" /\ mdfile = 0
      <3>1. ~Settled
        BY <1>1, <2>2 DEF IInv, Stages, Files
      <3> QED
        BY <1>6, <1>17, <3>1 DEF ReceiveFlash, history
    <2> QED
      BY <1>17, <2>1, <2>2 DEF ReceiveFlash
  <1>18. CASE UNCHANGED vars
    BY <1>7, <1>18 DEF vars, Settled, Usable, stream, history
  <1> QED
    BY <1>9, <1>10, <1>11, <1>12, <1>13, <1>14, <1>15, <1>16, <1>17, <1>18 DEF Next

(* Once a decoder has ended by itself, every flash it filed in the matrix  *)
(* is visible or lies under a row header written past the last row: no row *)
(* header is forgotten at a day change, a full row or the end of the input *)
(* (decode_lgt.c:744-763, 910).                                            *)
THEOREM CleanExitIsVisible == Spec => []CleanExitPublishes
  <1>1. Init => PInv
    BY InitInv DEF PInv, AllHeld, Init
  <1>2. PInv => CleanExitPublishes
    BY DEF PInv, IInv, AllHeld, Held, Pending, Settled, CleanExitPublishes, Visible
  <1> QED
    BY <1>1, <1>2, StepHeld, PTL DEF Spec

-----------------------------------------------------------------------------
(* The count goes with the place, and a file that is being made has none.  *)
SlotsInUse == (row - 1) * NCols + col

CInv ==
  /\ Settled /\ row \in Rows => nflash = SlotsInUse
  /\ pc \in {"create", "header"} => nflash = 0

(* A full row is NCols slots. *)
LEMMA RowOfSlots == \A r \in Nat : r * NCols = (r - 1) * NCols + NCols
  BY LgtMdAssumption

LEMMA StepCount == ~WriteMayFail /\ IInv /\ CInv /\ [Next]_vars => CInv'
  <1> SUFFICES ASSUME ~WriteMayFail, IInv, CInv, [Next]_vars
               PROVE  CInv'
    OBVIOUS
  <1> USE DEF CInv
  <1>1. /\ row \in Nat /\ col \in Nat /\ NRows \in Nat \ {0} /\ NCols \in Nat \ {0}
        /\ nflash \in Nat
    BY LgtMdAssumption DEF IInv, TypeOK
  <1>2. ASSUME mdfp' = "NULL", pc' \notin {"create", "header"}
        PROVE  CInv'
    BY <1>2 DEF Settled, Usable
  <1>3. CASE UNCHANGED vars \/ StartDecoder \/ \E day \in Days : ReceiveFlash(day)
    <2>1. UNCHANGED <<row, col, nflash, stream>>
          /\ (pc' = pc \/ pc' \in {"ready", "append", "closeday", "open"})
          /\ (Settled' => Settled \/ pc = "down")
      BY <1>3 DEF vars, place, StartDecoder, ReceiveFlash, Settled, Usable, stream
    <2>2. pc = "down" => ~Usable
      BY DEF IInv, Stages, Usable
    <2> QED
      BY <2>1, <2>2 DEF Settled, Usable, SlotsInUse, stream
  <1>4. CASE CloseDay \/ OpenMissing
    BY <1>4 DEF CloseDay, OpenMissing, Settled
  <1>5. CASE OpenExisting
    BY <1>5 DEF OpenExisting, SlotsInUse, Settled
  <1>6. CASE OpenBare
    BY <1>6, <1>2 DEF OpenBare, ProcessGone, Settled, Usable
  <1>7. CASE CreateFails
    <2>1. mdfp = "NULL"
      BY <1>7 DEF CreateFails, IInv, Stages
    <2> QED
      BY <1>2, <1>7, <2>1 DEF CreateFails
  <1>8. CASE CreateFile
    BY <1>8 DEF CreateFile, place, Settled
  <1>9. CASE WriteHeader
    <2>1. nflash' = 0 /\ row' = 1 /\ col' = 0 /\ pc' = "append"
      BY <1>9 DEF WriteHeader
    <2>2. (1 - 1) * NCols + 0 = 0
      BY <1>1
    <2> QED
      BY <2>1, <2>2 DEF SlotsInUse
  <1>10. CASE Overflow
    <2>1. Usable' => row' \notin Rows
      BY <1>1, <1>10 DEF Overflow, RoomLeft, Usable, stream, Rows
    <2> QED
      BY <1>10, <2>1 DEF Overflow, Settled
  <1>11. CASE FileObservation
    <2>1. /\ Settled /\ row' = NextRow /\ col' = NextCol /\ nflash' = nflash + 1
          /\ pc' \in {"commit", "ready"}
      BY <1>11 DEF FileObservation, RoomLeft, Settled, Usable
    <2>2. CASE row \in Rows
      <3>1. col <= NCols /\ nflash = (row - 1) * NCols + col
        BY <2>1, <2>2 DEF IInv, InMatrix, SlotsInUse
      <3>2. CASE col < NCols
        <4>1. row' = row /\ col' = col + 1
          BY <2>1, <3>2 DEF NextRow, NextCol
        <4>2. (row - 1) * NCols \in Int
          BY <1>1
        <4>3. nflash' = (row' - 1) * NCols + col'
          BY <1>1, <2>1, <3>1, <4>1, <4>2
        <4> QED
          BY <2>1, <4>3 DEF SlotsInUse
      <3>3. CASE col = NCols
        <4>1. row' = row + 1 /\ col' = 1
          BY <1>1, <2>1, <3>3 DEF NextRow, NextCol
        <4>2. row' - 1 = row
          BY <1>1, <4>1
        <4>3. (row - 1) * NCols \in Int /\ row * NCols = (row - 1) * NCols + NCols
          BY <1>1, RowOfSlots
        <4>4. nflash' = (row' - 1) * NCols + col'
          BY <1>1, <2>1, <3>1, <3>3, <4>1, <4>2, <4>3
        <4> QED
          BY <2>1, <4>4 DEF SlotsInUse
      <3> QED
        BY <1>1, <3>1, <3>2, <3>3
    <2>3. CASE row \notin Rows
      <3>1. row > NRows
        BY <2>1, <2>3 DEF IInv, PastMatrix
      <3>2. row' \notin Rows
        BY <1>1, <2>1, <3>1 DEF NextRow, Rows
      <3> QED
        BY <2>1, <3>2
    <2> QED
      BY <2>2, <2>3
  <1>12. CASE CommitFullRow
    <2>1. Settled' => Settled
      BY <1>12 DEF CommitFullRow, Settled, Usable, stream
    <2> QED
      BY <1>12, <2>1 DEF CommitFullRow, place, SlotsInUse
  <1>13. CASE Exit \/ StreamFault \/ Crash
    BY <1>2, <1>13 DEF Exit, StreamFault, Crash, ProcessGone
  <1> QED
    BY <1>3, <1>4, <1>5, <1>6, <1>7, <1>8, <1>9, <1>10, <1>11, <1>12, <1>13 DEF Next

(* The count of flashes that the decoder logs is that of the slots in use, *)
(* whoever filed them, as long as writes reach the disk                    *)
(* (decode_lgt.c:812-825, 905-908).                                        *)
THEOREM CountUnlessWritesFail == ~WriteMayFail /\ Spec => []CountIsSlotsInUse
  <1>1. Init => IInv /\ CInv
    BY InitInv DEF CInv, Init, Settled, Usable
  <1>2. IInv /\ CInv => CountIsSlotsInUse
    BY DEF CInv, CountIsSlotsInUse, Settled, SlotsInUse
  <1>3. CASE ~WriteMayFail
    BY <1>1, <1>2, <1>3, StepInv, StepCount, PTL DEF Spec
  <1> QED
    BY <1>3

-----------------------------------------------------------------------------
(* What was filed becomes visible (FiledIsPublished), for one flash n.     *)
FiledFlash(n) == \E x \in filed : x.flash.id = n /\ x.row <= NRows
Published(n) ==
  \E f \in Files : \E r \in Rows : \E c \in Cols :
    /\ Covered(f, r, c)
    /\ slots[f][r][c] # NONE
    /\ (slots[f][r][c] = JUNK \/ slots[f][r][c].id = n)

(* A filed flash that waits for no row header is visible. *)
LEMMA WaitsOrIsPublished ==
  ASSUME PInv, ~Settled, NEW n, FiledFlash(n)
  PROVE  Published(n)
  <1>1. PICK x \in filed : x.flash.id = n /\ x.row <= NRows
    BY DEF FiledFlash
  <1>2. Held(x) /\ ~Pending(x) /\ x.file \in Files /\ x.flash \in Flash
    BY <1>1 DEF PInv, AllHeld, IInv, TypeOK, Pending
  <1>3. /\ x.row \in Rows /\ x.col \in Cols /\ Covered(x.file, x.row, x.col)
        /\ slots[x.file][x.row][x.col] \in {x.flash, JUNK}
    BY <1>2 DEF Held
  <1> QED
    BY <1>1, <1>2, <1>3, LgtMdAssumption DEF Published

(* A decoder that is not killed forgets what it has filed only when there  *)
(* is no row header left to write.                                         *)
LEMMA FiledUntilPublished ==
  ASSUME PInv, ~CrashMayHappen, [Next]_vars, NEW n, FiledFlash(n)
  PROVE  FiledFlash(n)' \/ Published(n)
  <1>1. CASE filed \subseteq filed'
    BY <1>1 DEF FiledFlash
  <1>2. CASE ~Settled
    BY <1>2, WaitsOrIsPublished
  <1>3. CASE StartDecoder \/ OpenBare \/ StreamFault
    BY <1>2, <1>3 DEF StartDecoder, OpenBare, StreamFault, Settled, Usable
  <1>4. CASE FileObservation
    BY <1>1, <1>4 DEF FileObservation
  <1>5. CASE UNCHANGED vars \/ \E day \in Days : ReceiveFlash(day)
    BY <1>1, <1>5 DEF ReceiveFlash, vars, history
  <1>6. CASE CloseDay \/ OpenMissing \/ OpenExisting \/ CreateFails \/ CreateFile
             \/ WriteHeader
    BY <1>1, <1>6 DEF CloseDay, OpenMissing, OpenExisting, CreateFails, CreateFile,
                      WriteHeader, history
  <1>7. CASE Overflow \/ CommitFullRow \/ Exit
    BY <1>1, <1>7 DEF Overflow, CommitFullRow, Exit, history
  <1>8. CASE Crash
    BY <1>8 DEF Crash
  <1> QED
    BY <1>3, <1>4, <1>5, <1>6, <1>7, <1>8 DEF Next

(* The decoder is about to use a stream that is not there. *)
Stuck ==
  /\ mdfp = "NULL"
  /\ (pc = "append" /\ RoomLeft) \/ pc = "closeday" \/ (pc = "ready" /\ nflash > 0)

(* The input ends: from some time on no flash is read.  MaxFlash bounds    *)
(* the model's input, so that every behaviour has this end; that a counter *)
(* below a bound comes to rest is induction over a temporal formula, and   *)
(* is a hypothesis here.                                                   *)
NothingRead == nread' = nread
FeedEnds == <>[][NothingRead]_vars

(* Every step of a decoder whose input has ended leads on to its end. *)
LEMMA Onward ==
  ASSUME IInv, [Next]_vars
  PROVE  /\ pc = "ready" /\ NothingRead =>
               (pc' = "ready" /\ (Stuck' <=> Stuck)) \/ pc' = "down"
         /\ pc = "closeday" =>
               (pc' = "closeday" /\ (Stuck' <=> Stuck)) \/ pc' \in {"open", "down"}
         /\ pc = "open"   => pc' \in {"open", "create", "append", "down"}
         /\ pc = "create" => pc' \in {"create", "header", "ready", "down"}
         /\ pc = "header" => pc' \in {"header", "append", "down"}
         /\ pc = "append" =>
               (pc' = "append" /\ (Stuck' <=> Stuck)) \/ pc' \in {"commit", "ready", "down"}
         /\ pc = "commit" => pc' \in {"commit", "ready", "down"}
  <1>1. CASE UNCHANGED vars
    BY <1>1 DEF vars, place, stream, Stuck, RoomLeft
  <1>2. CASE \E day \in Days : ReceiveFlash(day)
    BY <1>2 DEF ReceiveFlash, NothingRead, IInv, TypeOK
  <1>3. CASE CloseDay \/ OpenMissing \/ OpenExisting \/ OpenBare
    BY <1>3 DEF CloseDay, OpenMissing, OpenExisting, OpenBare, ProcessGone
  <1>4. CASE CreateFails \/ CreateFile \/ WriteHeader
    BY <1>4 DEF CreateFails, CreateFile, WriteHeader
  <1>5. CASE Overflow \/ FileObservation \/ CommitFullRow
    BY <1>5 DEF Overflow, FileObservation, CommitFullRow
  <1>6. CASE StartDecoder \/ Exit \/ StreamFault \/ Crash
    BY <1>6 DEF StartDecoder, Exit, StreamFault, Crash, ProcessGone
  <1> QED
    BY <1>1, <1>2, <1>3, <1>4, <1>5, <1>6 DEF Next

(* What the steps that are scheduled lead to. *)
LEMMA StepsLead ==
  /\ Opens =>
       /\ pc = "closeday" => pc' = "open"
       /\ pc = "open" => pc' \in {"create", "append", "down"}
  /\ Creates =>
       /\ pc = "create" => pc' \in {"header", "ready"}
       /\ pc = "header" => pc' = "append"
  /\ Writes =>
       /\ pc = "append" => pc' \in {"commit", "ready"}
       /\ pc = "commit" => pc' = "ready"
  /\ Exit \/ StreamFault => pc' = "down"
  BY DEF Opens, CloseDay, OpenMissing, OpenExisting, OpenBare, Creates, CreateFails,
         CreateFile, WriteHeader, Writes, Overflow, FileObservation, CommitFullRow,
         Exit, StreamFault, ProcessGone

(* Wherever the decoder is, the step that the code takes there can be taken. *)
StepsPossible ==
  /\ Stuck => ENABLED <<StreamFault>>_vars
  /\ pc \in {"closeday", "open"} /\ ~Stuck => ENABLED <<Opens>>_vars
  /\ pc \in {"create", "header"} => ENABLED <<Creates>>_vars
  /\ pc \in {"append", "commit"} /\ ~Stuck => ENABLED <<Writes>>_vars
  /\ pc = "ready" /\ ~Stuck => ENABLED <<Exit>>_vars

(* A decoder comes to its end when its input does. *)
LEMMA DecoderEnds ==
  FairSpec /\ FeedEnds /\ []StepsPossible => []<>(pc = "down")
  <1>1. IInv => \/ pc = "down" \/ pc = "ready" \/ pc = "closeday" \/ pc = "open"
                \/ pc = "create" \/ pc = "header" \/ pc = "append" \/ pc = "commit"
    BY DEF IInv, TypeOK, PCs
  <1>2. IInv /\ [Next]_vars =>
          /\ pc = "ready" /\ [NothingRead]_vars =>
                ((pc = "ready")' /\ (Stuck' <=> Stuck)) \/ (pc = "down")'
          /\ pc = "closeday" =>
                ((pc = "closeday")' /\ (Stuck' <=> Stuck)) \/ (pc = "open")' \/ (pc = "down")'
          /\ pc = "open" => (pc = "open")' \/ (pc = "create")' \/ (pc = "append")' \/ (pc = "down")'
          /\ pc = "create" => (pc = "create")' \/ (pc = "header")' \/ (pc = "ready")' \/ (pc = "down")'
          /\ pc = "header" => (pc = "header")' \/ (pc = "append")' \/ (pc = "down")'
          /\ pc = "append" =>
                \/ (pc = "append")' /\ (Stuck' <=> Stuck)
                \/ (pc = "commit")' \/ (pc = "ready")' \/ (pc = "down")'
          /\ pc = "commit" => (pc = "commit")' \/ (pc = "ready")' \/ (pc = "down")'
    BY Onward DEF vars, NothingRead
  <1>3. <<Opens>>_vars =>
          /\ pc = "closeday" => (pc = "open")'
          /\ pc = "open" => (pc = "create")' \/ (pc = "append")' \/ (pc = "down")'
    BY StepsLead
  <1>4. <<Creates>>_vars =>
          /\ pc = "create" => (pc = "header")' \/ (pc = "ready")'
          /\ pc = "header" => (pc = "append")'
    BY StepsLead
  <1>5. <<Writes>>_vars =>
          /\ pc = "append" => (pc = "commit")' \/ (pc = "ready")'
          /\ pc = "commit" => (pc = "ready")'
    BY StepsLead
  <1>6. /\ <<Exit>>_vars => (pc = "down")'
        /\ <<StreamFault>>_vars => (pc = "down")'
    BY StepsLead
  <1>7. StepsPossible =>
          /\ Stuck => ENABLED <<StreamFault>>_vars
          /\ pc = "closeday" /\ ~Stuck => ENABLED <<Opens>>_vars
          /\ pc = "open" => ENABLED <<Opens>>_vars
          /\ pc = "create" \/ pc = "header" => ENABLED <<Creates>>_vars
          /\ pc = "append" /\ ~Stuck => ENABLED <<Writes>>_vars
          /\ pc = "commit" => ENABLED <<Writes>>_vars
          /\ pc = "ready" /\ ~Stuck => ENABLED <<Exit>>_vars
    BY DEF StepsPossible, Stuck
  <1>8. Spec => []IInv
    BY InitInv, StepInv, PTL DEF Spec
  <1> QED
    BY <1>1, <1>2, <1>3, <1>4, <1>5, <1>6, <1>7, <1>8, PTL
    DEF FairSpec, Spec, Fairness, FeedEnds

(* Every flash that is filed becomes visible, for files of any size, if    *)
(* the decoder is scheduled, not killed, and its input ends: at each day   *)
(* change, full row and end of the input the row header is written, even   *)
(* if some writes of slots fail (decode_lgt.c:93-117, 744-763, 910).       *)
THEOREM WhatIsFiledIsPublished ==
  ~CrashMayHappen /\ FairSpec /\ FeedEnds /\ []StepsPossible => FiledIsPublished
  <1>1. FairSpec => Spec
    BY DEF FairSpec
  <1>2. ASSUME ~CrashMayHappen, NEW n \in 1..MaxFlash
        PROVE  Spec /\ []<>(pc = "down") => (FiledFlash(n) ~> Published(n))
    <2>1. Init => PInv
      BY InitInv DEF PInv, AllHeld, Init
    <2>2. PInv /\ FiledFlash(n) /\ [Next]_vars => FiledFlash(n)' \/ Published(n)
      BY <1>2, FiledUntilPublished
    <2>3. PInv /\ FiledFlash(n) /\ pc = "down" => Published(n)
      BY WaitsOrIsPublished DEF Settled
    <2> QED
      BY <2>1, <2>2, <2>3, StepHeld, PTL DEF Spec
  <1>3. ~CrashMayHappen /\ Spec /\ []<>(pc = "down") =>
          \A n \in 1..MaxFlash : (FiledFlash(n) ~> Published(n))
    BY <1>2
  <1>4. (\A n \in 1..MaxFlash : (FiledFlash(n) ~> Published(n))) => FiledIsPublished
    BY DEF FiledIsPublished, FiledFlash, Published
  <1> QED
    BY <1>1, <1>3, <1>4, DecoderEnds
=============================================================================
