---------------------------- MODULE LgtLogProofs ----------------------------
(***************************************************************************)
(* The lightning decoder implements the readers' log, for MD files of any  *)
(* size, any feed and every order of kills and restarts, as long as writes *)
(* reach the disk.                                                         *)
(*                                                                         *)
(* Two things are added to IInv.  Flashes are numbered as they arrive: in  *)
(* a file that no row header has damaged, the slots in use (covered by a   *)
(* row header, or to be covered by the next) hold flashes whose numbers    *)
(* grow from slot to slot and are smaller than that of the flash at hand.  *)
(* And a slot's place in the log is its place in the matrix, row after     *)
(* row, so that the log is as long as what the row headers cover.          *)
(***************************************************************************)
EXTENDS LgtMdProofs, SequenceTheorems

(* The number of the last flash that may be in a slot. *)
LastId == IF pc \in {"closeday", "open", "create", "header", "append"} THEN nread - 1 ELSE nread

InUse(f, r, c) == Covered(f, r, c) \/ (Settled /\ f = mdfile /\ r = row /\ c <= col)

Earlier(r, c, q, d) == r < q \/ (r = q /\ c < d)

Numbered ==
  \A f \in Files \ torn : \A r \in Rows : \A c \in Cols :
    InUse(f, r, c) => slots[f][r][c] \in Flash /\ slots[f][r][c].id <= LastId

Ordered ==
  \A f \in Files \ torn : \A r, q \in Rows : \A c, d \in Cols :
    InUse(f, r, c) /\ InUse(f, q, d) /\ Earlier(r, c, q, d) =>
      slots[f][r][c].id < slots[f][q][d].id

TornIsFull == \A f \in torn : \A r \in Rows : cmax[f][r] = NCols

CurIsLast == pc \in {"closeday", "open", "create", "header", "append"} => cur.id = nread

(* The scan of the row headers comes to a row with room, if there is one.  *)
ScanEnds == \A f \in Files : Full(f) \/ \E r \in Rows : StopsAt(f, r)

SInv == Numbered /\ Ordered /\ TornIsFull /\ CurIsLast /\ ScanEnds

-----------------------------------------------------------------------------
LEMMA InitLogInv == Init => SInv
  <1> SUFFICES ASSUME Init
               PROVE  SInv
    OBVIOUS
  <1> USE LgtMdAssumption
  <1>1. \A f \in Files : \A r \in Rows : cmax[f][r] = MISS
    BY DEF Init
  <1>2. \A f \in Files : \A r \in Rows : \A c \in Cols : ~InUse(f, r, c)
    BY <1>1 DEF Init, InUse, Covered, Settled, Cols, MISS
  <1>3. Numbered /\ Ordered
    BY <1>2 DEF Numbered, Ordered
  <1>4. TornIsFull /\ CurIsLast
    BY DEF Init, TornIsFull, CurIsLast
  <1>5. ASSUME NEW f \in Files
        PROVE  StopsAt(f, 1) /\ 1 \in Rows
    BY <1>1, <1>5 DEF StopsAt, Rows, MISS
  <1> QED
    BY <1>3, <1>4, <1>5 DEF SInv, ScanEnds

(* Only a flash that is filed takes a slot into use. *)
LEMMA UseBeginsWithFiling ==
  ASSUME IInv, IInv', [Next]_vars, ~FileObservation,
         NEW f \in Files, NEW r \in Rows, NEW c \in Cols, InUse(f, r, c)'
  PROVE  InUse(f, r, c)
  <1> USE LgtMdAssumption
  <1>1. c \in Nat /\ c >= 1
    BY DEF Cols
  <1>2. CASE Covered(f, r, c)'
    <2> SUFFICES ASSUME ~Covered(f, r, c)
                 PROVE  Settled /\ f = mdfile /\ r = row /\ c <= col
      BY DEF InUse
    <2>1. cmax' # cmax
      BY <1>2 DEF Covered
    <2>2. CASE Settled /\ pc # "append" /\ UpdateRowHeader /\ hdr' = hdr
      <3>1. row \in Rows /\ mdfile \in Files
        BY <2>1, <2>2 DEF UpdateRowHeader, IInv, Stages
      <3>2. cmax' = [cmax EXCEPT ![mdfile][row] = col]
        BY <2>2, <3>1, RowHeaderWritten
      <3> QED
        BY <1>2, <2>2, <3>1, <3>2 DEF Covered, IInv, TypeOK
    <2>3. CASE CreateFile
      <3>1. mdfile \in Files
        BY <2>3 DEF CreateFile, IInv, Stages
      <3>2. cmax'[f][r] = MISS \/ cmax'[f][r] = cmax[f][r]
        BY <2>3, <3>1 DEF CreateFile, IInv, TypeOK
      <3> QED
        BY <1>1, <1>2, <3>2 DEF Covered, MISS
    <2> QED
      BY <2>1, <2>2, <2>3, DiskSteps
  <1>3. CASE Settled' /\ f = mdfile' /\ r = row' /\ c <= col'
    <2>1. CASE Settled /\ UNCHANGED <<row, col, mdfile>>
      BY <1>3, <2>1 DEF InUse
    <2>2. CASE OpenExisting
      <3>1. cmax' = cmax /\ mdfile' = FileOf(cur.day)
        BY <2>2 DEF OpenExisting, disk
      <3>2. col' = ScannedCol(cmax[f][r]) /\ cmax[f][r] \in {MISS} \cup Cols
        BY <1>3, <2>2, <3>1 DEF OpenExisting, IInv, CmaxRange, Rows
      <3> QED
        BY <1>1, <1>3, <3>2 DEF ScannedCol, Cols, MISS, InUse, Covered
    <2>3. CASE Overflow
      BY <1>3, <2>3
      DEF Overflow, RoomLeft, IInv, TypeOK, PastMatrix, Settled, Usable, Rows, stream
    <2>4. CASE WriteHeader
      BY <1>1, <1>3, <2>4 DEF WriteHeader
    <2>5. CASE CloseDay \/ CommitFullRow
      <3>1. Settled /\ UNCHANGED <<row, col, mdfile>>
        BY <1>3, <2>5 DEF CloseDay, CommitFullRow, place, stream, Settled, Usable, IInv, Stages
      <3> QED
        BY <2>1, <3>1
    <2>6. ASSUME NEW day \in Days, ReceiveFlash(day)
          PROVE  Settled /\ UNCHANGED <<row, col, mdfile>>
      BY <1>3, <2>6 DEF ReceiveFlash, place, stream, Settled, Usable
    <2>7. CASE UNCHANGED vars
      BY <1>3, <2>1, <2>7 DEF vars, place, stream, Settled, Usable
    <2>8. CASE OpenMissing \/ OpenBare \/ CreateFails \/ StartDecoder \/ CreateFile
               \/ Exit \/ StreamFault \/ Crash
      BY <1>3, <2>8
      DEF OpenMissing, OpenBare, CreateFails, StartDecoder, CreateFile, Exit, StreamFault,
          Crash, ProcessGone, IInv, Stages, Settled, Usable, stream
    <2> QED
      BY <2>1, <2>2, <2>3, <2>4, <2>5, <2>6, <2>7, <2>8 DEF Next
  <1> QED
    BY <1>2, <1>3 DEF InUse

(* A flash is filed behind every slot in use of its file. *)
LEMMA FiledBehindUse ==
  ASSUME IInv, FileObservation, NextRow \in Rows,
         NEW q \in Rows, NEW d \in Cols, InUse(mdfile, q, d)
  PROVE  Earlier(q, d, NextRow, NextCol)
  <1> USE LgtMdAssumption
  <1>1. /\ Settled /\ pc = "append" /\ mdfile \in Files
        /\ row \in Nat /\ col \in Nat /\ q \in Nat /\ d \in Nat /\ d >= 1
    BY DEF FileObservation, RoomLeft, Settled, Usable, IInv, TypeOK, Stages, Rows, Cols
  <1>2. row \in Rows
    BY <1>1 DEF NextRow, IInv, PastMatrix, Rows
  <1>3. /\ \A p \in Rows : p > row => cmax[mdfile][p] = MISS
        /\ col <= NCols /\ cmax[mdfile][row] <= col
    BY <1>1, <1>2 DEF IInv, InMatrix
  <1>4. q <= row /\ (q = row => d <= col)
    <2>1. CASE Covered(mdfile, q, d)
      <3>1. ~(q > row)
        BY <1>1, <1>3, <2>1 DEF Covered, MISS
      <3>2. q = row => d <= col
        BY <1>1, <1>2, <1>3, <2>1 DEF Covered, IInv, TypeOK
      <3> QED
        BY <1>1, <3>1, <3>2
    <2> QED
      BY <1>1, <2>1 DEF InUse
  <1>5. (NextRow = row /\ NextCol = col + 1) \/ NextRow = row + 1
    BY DEF NextRow, NextCol
  <1> QED
    BY <1>1, <1>4, <1>5 DEF Earlier

(* Flashes get larger numbers as they arrive. *)
LEMMA LastIdGrows ==
  ASSUME IInv, IInv', [Next]_vars
  PROVE  LastId \in Int /\ LastId' \in Int /\ LastId <= LastId'
  <1>1. nread \in Nat /\ nread' \in Nat
    BY LgtMdAssumption DEF IInv, TypeOK
  <1>2. CASE nread' = nread /\ (pc' \notin {"closeday", "open", "create", "header", "append"}
                                 \/ pc \in {"closeday", "open", "create", "header", "append"})
    BY <1>1, <1>2 DEF LastId
  <1>3. ASSUME NEW day \in Days, ReceiveFlash(day)
        PROVE  LastId = nread /\ LastId' = nread
    BY <1>1, <1>3 DEF ReceiveFlash, LastId
  <1>4. CASE CloseDay \/ OpenMissing \/ OpenExisting \/ OpenBare \/ CreateFails
             \/ CreateFile \/ WriteHeader
    BY <1>2, <1>4 DEF CloseDay, OpenMissing, OpenExisting, OpenBare, CreateFails, CreateFile,
                      WriteHeader, ProcessGone
  <1>5. CASE StartDecoder \/ Overflow \/ FileObservation \/ CommitFullRow \/ Exit
             \/ StreamFault \/ Crash
    BY <1>2, <1>5 DEF StartDecoder, Overflow, FileObservation, CommitFullRow, Exit,
                      StreamFault, Crash, ProcessGone
  <1>6. CASE UNCHANGED vars
    BY <1>2, <1>6 DEF vars
  <1> QED
    BY <1>1, <1>3, <1>2, <1>4, <1>5, <1>6 DEF Next

LEMMA StepLogInv ==
  ASSUME ~WriteMayFail, IInv, IInv', SInv, [Next]_vars
  PROVE  SInv'
  <1> USE LgtMdAssumption
  <1>1. Numbered /\ Ordered /\ TornIsFull /\ CurIsLast /\ ScanEnds
    BY DEF SInv
  <1>2. torn \subseteq torn'
    <2>1. torn' = torn \/ UpdateRowHeader
      BY DEF Next, StartDecoder, ReceiveFlash, CloseDay, OpenMissing, OpenExisting, OpenBare,
             CreateFails, CreateFile, WriteHeader, Overflow, FileObservation, CommitFullRow,
             Exit, StreamFault, Crash, vars, disk
    <2> QED
      BY <2>1 DEF UpdateRowHeader
  <1>3. LastId \in Int /\ LastId' \in Int /\ LastId <= LastId'
    BY LastIdGrows
  <1>4. ASSUME ~FileObservation
        PROVE  Numbered' /\ Ordered'
    <2>1. \A f \in Files : \A r \in Rows : \A c \in Cols :
            InUse(f, r, c)' => InUse(f, r, c)
      BY <1>4, UseBeginsWithFiling
    <2>2. ASSUME NEW f \in Files \ torn'
          PROVE  f \notin torn /\ slots'[f] = slots[f]
      <3>1. CASE Settled /\ UpdateRowHeader
        <4>1. mdfile \in Files
          BY <3>1 DEF IInv, Stages
        <4> QED
          BY <1>2, <2>2, <3>1, <4>1 DEF UpdateRowHeader, IInv, TypeOK
      <3> QED
        BY <1>2, <1>4, <2>2, <3>1, DiskSteps DEF CreateFile
    <2>3. Numbered'
      <3> SUFFICES ASSUME NEW f \in Files \ torn', NEW r \in Rows, NEW c \in Cols,
                          InUse(f, r, c)'
                   PROVE  slots'[f][r][c] \in Flash /\ slots'[f][r][c].id <= LastId'
        BY DEF Numbered
      <3>1. slots[f][r][c] \in Flash /\ slots[f][r][c].id <= LastId
        BY <1>1, <2>1, <2>2 DEF Numbered
      <3>2. slots[f][r][c].id \in Nat
        BY <3>1 DEF Flash
      <3> QED
        BY <1>3, <2>2, <3>1, <3>2
    <2>4. Ordered'
      <3> SUFFICES ASSUME NEW f \in Files \ torn', NEW r \in Rows, NEW q \in Rows,
                          NEW c \in Cols, NEW d \in Cols,
                          InUse(f, r, c)', InUse(f, q, d)', Earlier(r, c, q, d)
                   PROVE  slots'[f][r][c].id < slots'[f][q][d].id
        BY DEF Ordered, Earlier
      <3> QED
        BY <1>1, <2>1, <2>2 DEF Ordered
    <2> QED
      BY <2>3, <2>4
  <1>5. ASSUME FileObservation
        PROVE  Numbered' /\ Ordered'
    <2>1. /\ cmax' = cmax /\ mdfile' = mdfile /\ row' = NextRow /\ col' = NextCol /\ torn' = torn
          /\ slots' = IF NextRow \in Rows
                      THEN [slots EXCEPT ![mdfile][NextRow][NextCol] = cur] ELSE slots
          /\ Settled /\ mdfile \in Files /\ cur \in Flash
          /\ row \in Nat /\ col \in Nat /\ pc = "append" /\ LastId' = nread
      BY <1>5 DEF FileObservation, RoomLeft, Settled, Usable, IInv, TypeOK, Stages, PCs, LastId
    <2>2. cur.id = nread /\ LastId = nread - 1 /\ nread \in Nat
      BY <1>1, <2>1 DEF CurIsLast, LastId, IInv, TypeOK
    <2> DEFINE New(f, r, c) == f = mdfile /\ r = NextRow /\ c = NextCol
    <2>3. ASSUME NEW f \in Files, NEW r \in Rows, NEW c \in Cols, InUse(f, r, c)'
          PROVE  InUse(f, r, c) \/ New(f, r, c)
      <3>1. CASE Covered(f, r, c)'
        BY <2>1, <3>1 DEF Covered, InUse
      <3>2. CASE f = mdfile /\ r = NextRow /\ c <= NextCol
        <4>1. CASE col < NCols
          BY <2>1, <3>2, <4>1 DEF NextRow, NextCol, InUse, Cols
        <4>2. CASE ~(col < NCols)
          BY <2>1, <3>2, <4>2 DEF NextRow, NextCol, Cols
        <4> QED
          BY <4>1, <4>2
      <3> QED
        BY <2>1, <2>3, <3>1, <3>2 DEF InUse
    <2>4. ASSUME NEW f \in Files, NEW r \in Rows, NEW c \in Cols, New(f, r, c)
          PROVE  slots'[f][r][c] = cur
      BY <2>1, <2>4 DEF IInv, TypeOK
    <2>5. ASSUME NEW f \in Files, NEW r \in Rows, NEW c \in Cols, ~New(f, r, c)
          PROVE  slots'[f][r][c] = slots[f][r][c]
      <3>1. NextRow \in Rows => NextCol \in Cols
        BY <1>5, FiledBeyondCover
      <3> QED
        BY <2>1, <2>5, <3>1 DEF IInv, TypeOK
    <2> HIDE DEF New
    <2>6. Numbered'
      <3> SUFFICES ASSUME NEW f \in Files \ torn', NEW r \in Rows, NEW c \in Cols,
                          InUse(f, r, c)'
                   PROVE  slots'[f][r][c] \in Flash /\ slots'[f][r][c].id <= LastId'
        BY DEF Numbered
      <3>1. CASE New(f, r, c)
        BY <2>1, <2>2, <2>4, <3>1
      <3>2. CASE ~New(f, r, c)
        <4>1. slots[f][r][c] \in Flash /\ slots[f][r][c].id <= LastId
          BY <1>1, <2>1, <2>3, <3>2 DEF Numbered
        <4>2. slots[f][r][c].id \in Nat
          BY <4>1 DEF Flash
        <4> QED
          BY <1>3, <2>5, <3>2, <4>1, <4>2
      <3> QED
        BY <3>1, <3>2
    <2>7. Ordered'
      <3> SUFFICES ASSUME NEW f \in Files \ torn', NEW r \in Rows, NEW q \in Rows,
                          NEW c \in Cols, NEW d \in Cols,
                          InUse(f, r, c)', InUse(f, q, d)', Earlier(r, c, q, d)
                   PROVE  slots'[f][r][c].id < slots'[f][q][d].id
        BY DEF Ordered, Earlier
      <3>1. f \in Files \ torn
        BY <2>1
      <3>2. r \in Nat /\ q \in Nat /\ c \in Nat /\ d \in Nat
        BY DEF Rows, Cols
      <3>3. CASE New(f, r, c)
        <4>1. ~New(f, q, d)
          BY <3>2, <3>3 DEF New, Earlier
        <4>2. Earlier(q, d, r, c)
          BY <1>5, <2>3, <3>3, <4>1, FiledBehindUse DEF New
        <4> QED
          BY <3>2, <4>2 DEF Earlier
      <3>4. CASE ~New(f, r, c) /\ New(f, q, d)
        <4>1. slots[f][r][c] \in Flash /\ slots[f][r][c].id <= nread - 1
          BY <1>1, <2>2, <2>3, <3>1, <3>4 DEF Numbered
        <4>2. slots[f][r][c].id \in Nat
          BY <4>1 DEF Flash
        <4>3. slots'[f][r][c] = slots[f][r][c] /\ slots'[f][q][d] = cur
          BY <2>4, <2>5, <3>4
        <4> QED
          BY <2>2, <4>1, <4>2, <4>3
      <3>5. CASE ~New(f, r, c) /\ ~New(f, q, d)
        <4>1. slots[f][r][c].id < slots[f][q][d].id
          BY <1>1, <2>3, <3>1, <3>5 DEF Ordered
        <4>2. slots'[f][r][c] = slots[f][r][c] /\ slots'[f][q][d] = slots[f][q][d]
          BY <2>5, <3>5
        <4> QED
          BY <4>1, <4>2
      <3> QED
        BY <3>3, <3>4, <3>5
    <2> QED
      BY <2>6, <2>7
  <1>6. TornIsFull'
    <2>1. CASE Settled /\ pc # "append" /\ UpdateRowHeader /\ hdr' = hdr
      <3>1. mdfile \in Files /\ cmax \in [Files -> [Rows -> Int]]
        BY <2>1 DEF IInv, Stages, TypeOK
      <3>2. CASE row \in Rows
        <4>1. cmax' = [cmax EXCEPT ![mdfile][row] = col] /\ torn' = torn
          BY <2>1, <3>2, RowHeaderWritten DEF UpdateRowHeader
        <4>2. col \in Nat /\ col <= NCols /\ cmax[mdfile][row] <= col
          BY <2>1, <3>2 DEF IInv, TypeOK, InMatrix
        <4>3. mdfile \in torn => col = NCols
          BY <1>1, <3>2, <4>2 DEF TornIsFull
        <4> QED
          BY <1>1, <3>1, <4>1, <4>3 DEF TornIsFull, IInv, TypeOK
      <3>3. CASE row \notin Rows
        <4>1. cmax' = cmax /\ torn' = torn \cup {mdfile}
          BY <2>1, <3>3 DEF UpdateRowHeader
        <4>2. \A q \in Rows : cmax[mdfile][q] = NCols
          BY <2>1, <3>3 DEF IInv, PastMatrix
        <4> QED
          BY <1>1, <4>1, <4>2 DEF TornIsFull
      <3> QED
        BY <3>2, <3>3
    <2>2. CASE CreateFile
      <3>1. mdfile \in Files /\ \A r \in Rows : cmax[mdfile][r] = MISS
        BY <2>2 DEF CreateFile, IInv, Stages, UnmadeEmpty
      <3>2. mdfile \notin torn
        BY <1>1, <3>1 DEF TornIsFull, Rows, MISS
      <3> QED
        BY <1>1, <2>2, <3>1, <3>2 DEF CreateFile, TornIsFull, IInv, TypeOK
    <2>3. CASE cmax' = cmax /\ torn' = torn
      BY <1>1, <2>3 DEF TornIsFull
    <2>4. torn' = torn \/ (Settled /\ pc # "append" /\ UpdateRowHeader /\ hdr' = hdr)
      <3>1. CASE CloseDay \/ Exit
        BY <3>1 DEF CloseDay, Exit, Settled, Usable
      <3>2. CASE CommitFullRow
        BY <3>2 DEF CommitFullRow, IInv, Stages, Settled
      <3> QED
        BY <3>1, <3>2
        DEF Next, StartDecoder, ReceiveFlash, OpenMissing, OpenExisting, OpenBare,
            CreateFails, CreateFile, WriteHeader, Overflow, FileObservation,
            StreamFault, Crash, vars, disk
    <2> QED
      BY <2>1, <2>2, <2>3, <2>4, DiskSteps DEF FileObservation
  <1>7. CurIsLast'
    BY <1>1 DEF CurIsLast, Next, StartDecoder, ReceiveFlash, CloseDay, OpenMissing,
                OpenExisting, OpenBare, CreateFails, CreateFile, WriteHeader, Overflow,
                FileObservation, CommitFullRow, Exit, StreamFault, Crash, ProcessGone, vars
  <1>8. ScanEnds'
    <2>1. CASE cmax' = cmax
      BY <1>1, <2>1 DEF ScanEnds, StopsAt, Full, HasRoom
    <2>2. CASE Settled /\ pc # "append" /\ UpdateRowHeader /\ hdr' = hdr /\ row \in Rows
      <3>1. mdfile \in Files /\ cmax \in [Files -> [Rows -> Int]]
            /\ cmax' = [cmax EXCEPT ![mdfile][row] = col] /\ col \in Nat
        BY <2>2, RowHeaderWritten DEF IInv, Stages, TypeOK
      <3>2. /\ \A q \in Rows : q < row => cmax[mdfile][q] = NCols
            /\ \A q \in Rows : q > row => cmax[mdfile][q] = MISS
        BY <2>2 DEF IInv, InMatrix
      <3>3. row \in Nat /\ \A q \in Rows : cmax'[mdfile][q] = IF q = row THEN col ELSE cmax[mdfile][q]
        BY <2>2, <3>1 DEF Rows
      <3>4. ASSUME NEW f \in Files, f # mdfile
            PROVE  Full(f)' \/ \E r \in Rows : StopsAt(f, r)'
        <4>1. cmax'[f] = cmax[f]
          BY <3>1, <3>4
        <4> QED
          BY <1>1, <4>1 DEF ScanEnds, StopsAt, Full, HasRoom
      <3>5. CASE col # NCols
        <4>1. cmax'[mdfile][row] # NCols /\ \A q \in 1..(row - 1) : cmax'[mdfile][q] = NCols
          BY <2>2, <3>2, <3>3, <3>5 DEF Rows
        <4> QED
          BY <2>2, <3>4, <4>1 DEF ScanEnds, StopsAt
      <3>6. CASE col = NCols /\ row + 1 \in Rows
        <4>1. /\ cmax'[mdfile][row + 1] # NCols
              /\ \A q \in 1..((row + 1) - 1) : cmax'[mdfile][q] = NCols
          BY <2>2, <3>2, <3>3, <3>6 DEF Rows, MISS
        <4> QED
          BY <3>4, <3>6, <4>1 DEF ScanEnds, StopsAt
      <3>7. CASE col = NCols /\ row + 1 \notin Rows
        <4>1. \A q \in Rows : cmax'[mdfile][q] = NCols
          BY <2>2, <3>2, <3>3, <3>7 DEF Rows
        <4> QED
          BY <3>4, <4>1 DEF ScanEnds, Full, HasRoom
      <3> QED
        BY <3>5, <3>6, <3>7
    <2>3. CASE CreateFile
      <3>1. mdfile \in Files /\ \A r \in Rows : cmax[mdfile][r] = MISS
        BY <2>3 DEF CreateFile, IInv, Stages, UnmadeEmpty
      <3>2. \A f \in Files : \A r \in Rows : cmax'[f][r] = cmax[f][r]
        BY <2>3, <3>1 DEF CreateFile, IInv, TypeOK
      <3> QED
        BY <1>1, <3>2 DEF ScanEnds, StopsAt, Full, HasRoom, Rows
    <2> QED
      BY <2>1, <2>2, <2>3, DiskSteps DEF FileObservation, UpdateRowHeader
  <1> QED
    BY <1>4, <1>5, <1>6, <1>7, <1>8 DEF SInv

-----------------------------------------------------------------------------
(* Entry i of the log is in this row and column. *)
RowOf(i) == ((i - 1) \div NCols) + 1
ColOf(i) == ((i - 1) % NCols) + 1
Place(r, c) == (r - 1) * NCols + c
Capacity == NRows * NCols

LEMMA CapacityType == Capacity \in Nat /\ Capacity >= 1
  BY LgtMdAssumption DEF Capacity

(* A row after another begins behind its end. *)
LEMMA RowsApart ==
  ASSUME NEW a \in Int, NEW b \in Int, a < b
  PROVE  /\ a * NCols \in Int /\ b * NCols \in Int
         /\ a * NCols + NCols <= b * NCols
  <1>1. NCols \in Nat /\ b - a - 1 \in Nat
    BY LgtMdAssumption
  <1>2. \A k \in Nat, n \in Nat : k * n \in Nat
    OBVIOUS
  <1>3. (b - a - 1) * NCols \in Nat
    BY <1>1, <1>2
  <1>4. (b - a - 1) * NCols = b * NCols - a * NCols - NCols
    BY <1>1
  <1> QED
    BY <1>1, <1>3, <1>4

(* Every entry of a full log has a slot, and its place is its number. *)
LEMMA PlaceOfEntry ==
  ASSUME NEW i \in 1..Capacity
  PROVE  RowOf(i) \in Rows /\ ColOf(i) \in Cols /\ Place(RowOf(i), ColOf(i)) = i
  <1> DEFINE d == (i - 1) \div NCols
             m == (i - 1) % NCols
  <1>1. NCols \in Nat \ {0} /\ NRows \in Nat \ {0} /\ i - 1 \in Nat
        /\ i - 1 < NRows * NCols
    BY LgtMdAssumption, CapacityType DEF Capacity
  <1>2. d \in Int /\ m \in 0..(NCols - 1) /\ i - 1 = d * NCols + m
    BY <1>1
  <1> HIDE DEF d, m
  <1>3. d >= 0
    <2> SUFFICES ASSUME d < 0
                 PROVE  FALSE
      BY <1>2
    <2>1. d * NCols + NCols <= 0 * NCols /\ d * NCols \in Int
      BY <1>2, RowsApart
    <2> QED
      BY <1>1, <1>2, <2>1
  <1>4. d < NRows
    <2> SUFFICES ASSUME d >= NRows
                 PROVE  FALSE
      BY <1>1, <1>2
    <2>1. NRows * NCols <= d * NCols /\ d * NCols \in Int
      <3>1. CASE d = NRows
        BY <1>1, <1>2, <3>1
      <3>2. CASE d # NRows
        BY <1>1, <1>2, <3>2, RowsApart
      <3> QED
        BY <3>1, <3>2
    <2> QED
      BY <1>1, <1>2, <2>1
  <1>5. RowOf(i) = d + 1 /\ ColOf(i) = m + 1
    BY DEF RowOf, ColOf, d, m
  <1>6. RowOf(i) - 1 = d
    BY <1>2, <1>5
  <1>7. Place(RowOf(i), ColOf(i)) = d * NCols + (m + 1)
    BY <1>5, <1>6 DEF Place
  <1>8. d * NCols \in Int
    BY <1>1, <1>2
  <1> QED
    BY <1>1, <1>2, <1>3, <1>4, <1>5, <1>7, <1>8 DEF Rows, Cols

(* A slot of an earlier row, or an earlier slot of a row, has an earlier place. *)
LEMMA PlacesInOrder ==
  ASSUME NEW r \in Rows, NEW q \in Rows, NEW c \in Cols, NEW d \in Cols
  PROVE  /\ Place(r, c) \in 1..Capacity
         /\ Earlier(r, c, q, d) <=> Place(r, c) < Place(q, d)
  <1>1. /\ NCols \in Nat \ {0} /\ NRows \in Nat \ {0} /\ r \in Nat /\ q \in Nat /\ c \in Nat /\ d \in Nat
        /\ r >= 1 /\ q >= 1 /\ c >= 1 /\ d >= 1 /\ c <= NCols /\ d <= NCols /\ r <= NRows
    BY LgtMdAssumption DEF Rows, Cols
  <1>2. (r - 1) * NCols \in Nat /\ (q - 1) * NCols \in Nat
    BY <1>1
  <1>3. (r - 1) * NCols + NCols <= NRows * NCols
    BY <1>1, RowsApart
  <1>4. r < q => (r - 1) * NCols + NCols <= (q - 1) * NCols
    BY <1>1, RowsApart
  <1>5. q < r => (q - 1) * NCols + NCols <= (r - 1) * NCols
    BY <1>1, RowsApart
  <1>6. q = r => (q - 1) * NCols = (r - 1) * NCols
    OBVIOUS
  <1>7. Place(r, c) \in 1..Capacity
    BY <1>1, <1>2, <1>3, CapacityType DEF Place, Capacity
  <1>8. CASE r < q
    BY <1>1, <1>2, <1>4, <1>7, <1>8 DEF Place, Earlier
  <1>9. CASE q < r
    BY <1>1, <1>2, <1>5, <1>7, <1>9 DEF Place, Earlier
  <1>10. CASE q = r
    BY <1>1, <1>2, <1>6, <1>7, <1>10 DEF Place, Earlier
  <1> QED
    BY <1>1, <1>8, <1>9, <1>10

(* The log of a file is as long as what its row headers cover. *)
LogShape ==
  \A f \in Files :
    /\ LogLength(f) \in 0..Capacity
    /\ \A r \in Rows : \A c \in Cols : Place(r, c) <= LogLength(f) <=> Covered(f, r, c)

LEMMA LogIsCovered == IInv /\ ScanEnds => LogShape
  <1> SUFFICES ASSUME IInv, ScanEnds, NEW f \in Files
               PROVE  /\ LogLength(f) \in 0..Capacity
                      /\ \A r \in Rows : \A c \in Cols :
                           Place(r, c) <= LogLength(f) <=> Covered(f, r, c)
    BY DEF LogShape
  <1>1. /\ NCols \in Nat \ {0} /\ NRows \in Nat \ {0} /\ Capacity \in Nat
        /\ \A r \in Rows : cmax[f][r] \in {MISS} \cup Cols
    BY LgtMdAssumption, CapacityType DEF IInv, CmaxRange
  <1>2. CASE Full(f)
    <2>1. LogLength(f) = Capacity
      BY <1>2 DEF LogLength, Capacity
    <2>2. \A r \in Rows : cmax[f][r] = NCols
      BY <1>2 DEF Full, HasRoom
    <2>3. ASSUME NEW r \in Rows, NEW c \in Cols
          PROVE  Place(r, c) <= Capacity /\ Covered(f, r, c)
      BY <1>1, <2>2, <2>3, PlacesInOrder DEF Covered, Cols
    <2> QED
      BY <1>1, <2>1, <2>3
  <1>3. CASE ~Full(f)
    <2> DEFINE q == CHOOSE r \in Rows : StopsAt(f, r)
               k == IF cmax[f][q] = MISS THEN 0 ELSE cmax[f][q]
    <2>1. q \in Rows /\ StopsAt(f, q)
      BY <1>3 DEF ScanEnds
    <2>2. LogLength(f) = (q - 1) * NCols + k
      BY <1>3 DEF LogLength
    <2> HIDE DEF q
    <2>3. q \in Nat /\ q >= 1 /\ q <= NRows /\ cmax[f][q] # NCols
          /\ \A p \in Rows : p < q => cmax[f][p] = NCols
      BY <2>1 DEF StopsAt, Rows
    <2>4. cmax[f][q] \in {MISS} \cup Cols
      BY <1>1, <2>1
    <2>5. k \in 0..(NCols - 1)
      BY <1>1, <2>3, <2>4 DEF Cols, MISS
    <2>6. \A c \in Cols : c <= k <=> Covered(f, q, c)
      BY <1>1, <2>4 DEF Covered, Cols, MISS
    <2>7. ASSUME NEW r \in Rows, r > q
          PROVE  cmax[f][r] = MISS
      <3>1. q \in 1..(r - 1)
        BY <2>3, <2>7 DEF Rows
      <3> QED
        BY <2>3, <3>1 DEF IInv, RowsFillInOrder
    <2> HIDE DEF k
    <2>8. (q - 1) * NCols \in Nat
      BY <1>1, <2>3
    <2>9. (q - 1) * NCols + NCols <= NRows * NCols
      BY <1>1, <2>3, RowsApart
    <2>10. LogLength(f) \in 0..Capacity
      BY <1>1, <2>2, <2>5, <2>8, <2>9 DEF Capacity
    <2>11. ASSUME NEW r \in Rows, NEW c \in Cols
           PROVE  Place(r, c) <= LogLength(f) <=> Covered(f, r, c)
      <3>1. r \in Nat /\ c \in Nat /\ c >= 1 /\ c <= NCols /\ (r - 1) * NCols \in Int
        BY <1>1 DEF Rows, Cols
      <3>2. CASE r < q
        <4>1. (r - 1) * NCols + NCols <= (q - 1) * NCols
          BY <2>3, <3>1, <3>2, RowsApart
        <4>2. Covered(f, r, c)
          BY <2>3, <3>1, <3>2 DEF Covered
        <4> QED
          BY <1>1, <2>2, <2>5, <2>8, <3>1, <4>1, <4>2 DEF Place
      <3>3. CASE r = q
        BY <1>1, <2>2, <2>5, <2>6, <2>8, <3>1, <3>3 DEF Place
      <3>4. CASE r > q
        <4>1. (q - 1) * NCols + NCols <= (r - 1) * NCols
          BY <2>3, <3>1, <3>4, RowsApart
        <4>2. ~Covered(f, r, c)
          BY <2>7, <3>1, <3>4 DEF Covered, MISS
        <4> QED
          BY <1>1, <2>2, <2>5, <2>8, <3>1, <4>1, <4>2 DEF Place
      <3> QED
        BY <2>3, <3>1, <3>2, <3>3, <3>4
    <2> QED
      BY <2>10, <2>11
  <1> QED
    BY <1>2, <1>3

LEMMA SameInterval ==
  ASSUME NEW a \in Nat, NEW b \in Nat, 1..a = 1..b
  PROVE  a = b
  <1>1. ~(a < b)
    <2> SUFFICES ASSUME a < b
                 PROVE  FALSE
      OBVIOUS
    <2>1. b \in 1..b /\ b \notin 1..a
      OBVIOUS
    <2> QED
      BY <2>1
  <1>2. ~(b < a)
    <2> SUFFICES ASSUME b < a
                 PROVE  FALSE
      OBVIOUS
    <2>1. a \in 1..a /\ a \notin 1..b
      OBVIOUS
    <2> QED
      BY <2>1
  <1> QED
    BY <1>1, <1>2

(* The log of a file, and what its entries may be. *)
LogOf(f) == [i \in 1..LogLength(f) |-> Entry(f, i)]
Slot == Flash \cup {NONE, JUNK}

LogsAreSeqs == \A f \in Files : LogOf(f) \in Seq(Slot) /\ Len(LogOf(f)) = LogLength(f)

LEMMA LogType == IInv /\ LogShape => LogsAreSeqs
  <1> SUFFICES ASSUME IInv, LogShape, NEW f \in Files
               PROVE  LogOf(f) \in Seq(Slot) /\ Len(LogOf(f)) = LogLength(f)
    BY DEF LogsAreSeqs
  <1> DEFINE n == LogLength(f)
  <1>1. n \in Nat /\ n \in 0..Capacity
    BY CapacityType DEF LogShape
  <1>2. ASSUME NEW i \in 1..n
        PROVE  Entry(f, i) \in Slot
    <2>1. RowOf(i) \in Rows /\ ColOf(i) \in Cols
      BY <1>1, <1>2, CapacityType, PlaceOfEntry
    <2>2. Entry(f, i) = slots[f][RowOf(i)][ColOf(i)]
      BY DEF Entry, RowOf, ColOf
    <2>3. slots \in [Files -> [Rows -> [Cols -> Slot]]]
      BY DEF IInv, TypeOK, Slot
    <2> QED
      BY <2>1, <2>2, <2>3
  <1>3. LogOf(f) \in [1..n -> Slot]
    BY <1>2 DEF LogOf
  <1>4. LogOf(f) \in Seq(Slot)
    BY <1>1, <1>3, SeqDef
  <1>5. Len(LogOf(f)) \in Nat /\ DOMAIN LogOf(f) = 1..Len(LogOf(f))
    BY <1>4, LenProperties
  <1>6. DOMAIN LogOf(f) = 1..n
    BY <1>3
  <1>7. 1..Len(LogOf(f)) = 1..n
    BY <1>5, <1>6
  <1> HIDE DEF n
  <1>8. Len(LogOf(f)) = n
    BY <1>1, <1>5, <1>7, SameInterval
  <1> QED
    BY <1>4, <1>8 DEF n

-----------------------------------------------------------------------------
(* What is known before and after every step. *)
Known == SInv /\ IInv /\ LogShape /\ LogsAreSeqs

(* Entries below the length are in covered slots. *)
LEMMA EntryIsCovered ==
  ASSUME Known, NEW f \in Files, NEW i \in 1..LogLength(f)
  PROVE  /\ i \in 1..Capacity /\ RowOf(i) \in Rows /\ ColOf(i) \in Cols
         /\ Covered(f, RowOf(i), ColOf(i))
         /\ Entry(f, i) = slots[f][RowOf(i)][ColOf(i)]
  <1>1. i \in 1..Capacity
    BY CapacityType DEF Known, LogShape
  <1>2. RowOf(i) \in Rows /\ ColOf(i) \in Cols /\ Place(RowOf(i), ColOf(i)) = i
    BY <1>1, PlaceOfEntry
  <1>3. LogLength(f) \in Nat /\ i <= LogLength(f)
    BY CapacityType DEF Known, LogShape
  <1> QED
    BY <1>1, <1>2, <1>3 DEF Known, LogShape, Entry, RowOf, ColOf

(* The log grows with what is covered. *)
LEMMA LengthGrows ==
  ASSUME Known, Known', NEW f \in Files,
         \A r \in Rows : \A c \in Cols : Covered(f, r, c) => Covered(f, r, c)'
  PROVE  LogLength(f) <= LogLength(f)'
  <1> DEFINE n == LogLength(f)
  <1>1. n \in 0..Capacity /\ n' \in 0..Capacity /\ Capacity \in Nat
    BY CapacityType DEF Known, LogShape
  <1>2. CASE n = 0
    BY <1>1, <1>2
  <1>3. CASE n # 0
    <2>1. n \in 1..Capacity
      BY <1>1, <1>3
    <2>2. RowOf(n) \in Rows /\ ColOf(n) \in Cols /\ Place(RowOf(n), ColOf(n)) = n
      BY <2>1, PlaceOfEntry
    <2> DEFINE r == RowOf(n)
               c == ColOf(n)
    <2>3. Place(r, c) <= n
      BY <1>1, <2>2
    <2>4. Covered(f, r, c)
      BY <2>2, <2>3 DEF Known, LogShape
    <2>5. PICK p \in Rows, d \in Cols : p = r /\ d = c
      BY <2>2
    <2>6. Covered(f, p, d)'
      BY <2>4, <2>5
    <2>7. Place(p, d) <= n'
      BY <2>6 DEF Known, LogShape, Place
    <2> QED
      BY <2>2, <2>5, <2>7
  <1> QED
    BY <1>2, <1>3

(* Entries stay when their slots do. *)
LEMMA EntriesStay ==
  ASSUME Known, Known', NEW f \in Files,
         \A r \in Rows : \A c \in Cols : Covered(f, r, c) => slots'[f][r][c] = slots[f][r][c]
  PROVE  \A i \in 1..LogLength(f) : Entry(f, i)' = Entry(f, i)
  <1> SUFFICES ASSUME NEW i \in 1..LogLength(f)
               PROVE  Entry(f, i)' = Entry(f, i)
    OBVIOUS
  <1>1. /\ RowOf(i) \in Rows /\ ColOf(i) \in Cols /\ Covered(f, RowOf(i), ColOf(i))
        /\ Entry(f, i) = slots[f][RowOf(i)][ColOf(i)]
    BY EntryIsCovered
  <1>2. Entry(f, i)' = slots'[f][RowOf(i)][ColOf(i)]
    BY DEF Entry, RowOf, ColOf
  <1> QED
    BY <1>1, <1>2

(* A file whose row headers and covered slots stay keeps its log. *)
LEMMA LogStays ==
  ASSUME Known, Known', NEW f \in Files,
         \A r \in Rows : cmax'[f][r] = cmax[f][r],
         \A r \in Rows : \A c \in Cols : Covered(f, r, c) => slots'[f][r][c] = slots[f][r][c]
  PROVE  LogOf(f)' = LogOf(f)
  <1> DEFINE n == LogLength(f)
  <1>1. \A r \in Rows : \A c \in Cols : Covered(f, r, c)' <=> Covered(f, r, c)
    BY DEF Covered
  <1>2. n <= n'
    BY <1>1, LengthGrows
  <1>3. n' <= n
    <2> SUFFICES ASSUME n < n'
                 PROVE  FALSE
      BY <1>2, CapacityType DEF Known, LogShape
    <2>1. n' \in 1..Capacity /\ n \in Nat /\ n' \in Nat
      BY CapacityType DEF Known, LogShape
    <2>2. PICK i \in 1..Capacity : i = n'
      BY <2>1
    <2>3. PICK r \in Rows, c \in Cols : r = RowOf(i) /\ c = ColOf(i) /\ Place(r, c) = i
      BY PlaceOfEntry
    <2>4. Place(r, c) <= n'
      BY <2>1, <2>2, <2>3
    <2>5. Covered(f, r, c)'
      BY <2>4 DEF Known, LogShape, Place
    <2>6. Place(r, c) <= n
      BY <1>1, <2>5 DEF Known, LogShape
    <2> QED
      BY <2>1, <2>2, <2>3, <2>6
  <1>4. n' = n
    BY <1>2, <1>3, CapacityType DEF Known, LogShape
  <1>5. \A i \in 1..n : Entry(f, i)' = Entry(f, i)
    BY EntriesStay
  <1> HIDE DEF n
  <1>6. LogOf(f)' = [i \in 1..n' |-> Entry(f, i)'] /\ LogOf(f) = [i \in 1..n |-> Entry(f, i)]
    BY DEF LogOf, n
  <1> QED
    BY <1>4, <1>5, <1>6

-----------------------------------------------------------------------------
(* The steps of the readers' log, for the log of one file. *)
Grows(f) ==
  /\ Len(LogOf(f)) < Len(LogOf(f)') /\ Len(LogOf(f)') <= Capacity
  /\ SubSeq(LogOf(f)', 1, Len(LogOf(f))) = LogOf(f)
  /\ \A i, j \in DOMAIN (LogOf(f)') : i < j => LogOf(f)'[i].id < LogOf(f)'[j].id

StaysFull(f) == Len(LogOf(f)) = Capacity /\ Len(LogOf(f)') = Capacity

(* A row header that covers more slots publishes them at the end of the    *)
(* log, in the order of arrival.                                           *)
LEMMA HeaderPublishes ==
  ASSUME Known, Known', NEW g \in Files, row \in Rows, col \in Cols, cmax[g][row] < col,
         cmax' = [cmax EXCEPT ![g][row] = col], slots' = slots, torn' = torn
  PROVE  Grows(g)
  <1> USE LgtMdAssumption
  <1> DEFINE n == LogLength(g)
  <1>1. /\ cmax \in [Files -> [Rows -> Int]] /\ col \in Nat /\ col <= NCols
        /\ Capacity \in Nat
    BY CapacityType DEF Known, IInv, TypeOK, Cols
  <1>2. g \notin torn'
    BY <1>1 DEF Known, SInv, TornIsFull
  <1>3. \A r \in Rows : \A c \in Cols : Covered(g, r, c) => Covered(g, r, c)'
    BY <1>1 DEF Covered, Cols
  <1>4. n \in 0..Capacity /\ LogLength(g)' \in 0..Capacity
    BY DEF Known, LogShape
  <1>5. Len(LogOf(g)) = n /\ Len(LogOf(g)') = LogLength(g)'
        /\ LogOf(g) \in Seq(Slot) /\ LogOf(g)' \in Seq(Slot)
    BY DEF Known, LogsAreSeqs, Slot, Flash
  <1>6. n < LogLength(g)'
    <2>1. ~Covered(g, row, col) /\ Place(row, col) \in Nat
      BY <1>1, PlacesInOrder DEF Covered
    <2>2. ~(Place(row, col) <= n)
      BY <1>4, <2>1 DEF Known, LogShape
    <2>3. PICK r \in Rows, c \in Cols : r = row /\ c = col
      OBVIOUS
    <2>4. Covered(g, r, c)'
      BY <1>1, <2>3 DEF Covered
    <2>5. Place(r, c) <= LogLength(g)'
      BY <2>4 DEF Known, LogShape, Place
    <2> QED
      BY <1>4, <2>1, <2>2, <2>3, <2>5
  <1>7. \A i \in 1..LogLength(g) : Entry(g, i)' = Entry(g, i)
    BY EntriesStay
  <1>8. SubSeq(LogOf(g)', 1, n) = LogOf(g)
    <2> DEFINE new == LogOf(g)'
               old == LogOf(g)
    <2>1. \A i \in 1..n : new[i] = old[i] /\ new[i] \in Slot
      <3>1. \A i \in 1..n : i \in 1..LogLength(g)'
        BY <1>4, <1>6
      <3>2. \A i \in 1..n : new[i] = Entry(g, i)' /\ old[i] = Entry(g, i)
        BY <1>4, <3>1 DEF LogOf
      <3>3. \A i \in 1..n : old[i] \in Slot
        BY <1>5, ElementOfSeq
      <3> QED
        BY <1>4, <1>7, <3>2, <3>3
    <2> HIDE DEF new, old, n
    <2>2. n \in Int /\ n >= 0
      BY <1>4
    <2>3. /\ SubSeq(new, 1, n) \in Seq(Slot)
          /\ Len(SubSeq(new, 1, n)) = IF 1 <= n THEN n - 1 + 1 ELSE 0
          /\ \A i \in 1..(n - 1 + 1) : SubSeq(new, 1, n)[i] = new[1 + i - 1]
      BY <2>1, <2>2, SubSeqProperties
    <2>4. Len(SubSeq(new, 1, n)) = Len(old) /\ Len(old) = n /\ old \in Seq(Slot)
      BY <1>5, <2>2, <2>3 DEF old
    <2>5. \A i \in 1..n : SubSeq(new, 1, n)[i] = old[i]
      BY <2>1, <2>2, <2>3
    <2>6. SubSeq(new, 1, n) = old
      BY <2>3, <2>4, <2>5, SeqEqual
    <2> QED
      BY <2>6 DEF new, old
  <1>9. ASSUME NEW i \in 1..LogLength(g)', NEW j \in 1..LogLength(g)', i < j
        PROVE  LogOf(g)'[i].id < LogOf(g)'[j].id
    <2>1. i \in 1..Capacity /\ j \in 1..Capacity
      BY <1>1, <1>4
    <2>2. /\ RowOf(i) \in Rows /\ ColOf(i) \in Cols /\ Place(RowOf(i), ColOf(i)) = i
          /\ RowOf(j) \in Rows /\ ColOf(j) \in Cols /\ Place(RowOf(j), ColOf(j)) = j
      BY <2>1, PlaceOfEntry
    <2>3. PICK r \in Rows, c \in Cols : r = RowOf(i) /\ c = ColOf(i)
      BY <2>2
    <2>4. PICK q \in Rows, d \in Cols : q = RowOf(j) /\ d = ColOf(j)
      BY <2>2
    <2>5. Earlier(r, c, q, d)
      BY <1>9, <2>2, <2>3, <2>4, PlacesInOrder
    <2>6. Place(r, c) <= LogLength(g)' /\ Place(q, d) <= LogLength(g)'
      BY <1>4, <2>2, <2>3, <2>4
    <2>7. Covered(g, r, c)' /\ Covered(g, q, d)'
      BY <2>6 DEF Known, LogShape, Place
    <2>8. slots'[g][r][c].id < slots'[g][q][d].id
      BY <1>2, <2>5, <2>7 DEF Known, SInv, Ordered, InUse, Earlier
    <2>9. LogOf(g)'[i] = slots'[g][r][c] /\ LogOf(g)'[j] = slots'[g][q][d]
      BY <2>3, <2>4 DEF LogOf, Entry, RowOf, ColOf
    <2> QED
      BY <2>8, <2>9
  <1>10. DOMAIN (LogOf(g)') = 1..LogLength(g)'
    BY DEF LogOf
  <1> QED
    BY <1>4, <1>5, <1>6, <1>8, <1>9, <1>10 DEF Grows

(* Every step of the decoder is a step of the readers' log, or none. *)
LEMMA LogStep ==
  ASSUME ~WriteMayFail, Known, Known', [Next]_vars
  PROVE  \/ \A f \in Files : LogOf(f)' = LogOf(f)
         \/ \E f \in Files :
              /\ \A g \in Files \ {f} : LogOf(g)' = LogOf(g)
              /\ Grows(f) \/ StaysFull(f)
  <1> USE LgtMdAssumption
  <1>1. IInv /\ SInv /\ cmax \in [Files -> [Rows -> Int]]
    BY DEF Known, IInv, TypeOK
  <1>2. CASE UNCHANGED <<cmax, slots>>
    BY <1>2, LogStays
  <1>3. CASE CreateFile
    <2>1. mdfile \in Files /\ \A r \in Rows : cmax[mdfile][r] = MISS
      BY <1>1, <1>3 DEF CreateFile, IInv, Stages, UnmadeEmpty
    <2>2. \A f \in Files : \A r \in Rows : cmax'[f][r] = cmax[f][r]
      BY <1>1, <1>3, <2>1 DEF CreateFile
    <2>3. slots' = slots
      BY <1>3 DEF CreateFile
    <2> QED
      BY <2>2, <2>3, LogStays
  <1>4. CASE FileObservation
    <2>1. cmax' = cmax
      BY <1>4 DEF FileObservation
    <2>2. ASSUME NEW f \in Files, NEW r \in Rows, NEW c \in Cols, Covered(f, r, c)
          PROVE  slots'[f][r][c] = slots[f][r][c]
      <3>1. CASE NextRow \in Rows /\ slots' = [slots EXCEPT ![mdfile][NextRow][NextCol] = cur]
        <4>1. mdfile \in Files /\ NextCol \in Cols /\ cmax[mdfile][NextRow] < NextCol
          BY <1>1, <1>4, <3>1, FiledBeyondCover
        <4>2. ~(f = mdfile /\ r = NextRow /\ c = NextCol)
          BY <1>1, <2>2, <4>1 DEF Covered, Cols
        <4> QED
          BY <1>1, <3>1, <4>1, <4>2 DEF IInv, TypeOK
      <3> QED
        BY <1>4, <3>1 DEF FileObservation
    <2> QED
      BY <2>1, <2>2, LogStays
  <1>5. CASE Settled /\ pc # "append" /\ UpdateRowHeader /\ hdr' = hdr
    <2>1. mdfile \in Files
      BY <1>1, <1>5 DEF IInv, Stages
    <2>2. CASE row \in Rows
      <3>1. cmax' = [cmax EXCEPT ![mdfile][row] = col] /\ slots' = slots /\ torn' = torn
            /\ col \in Nat /\ col <= NCols /\ cmax[mdfile][row] <= col /\ col > 0
        BY <1>1, <1>5, <2>2, RowHeaderWritten DEF UpdateRowHeader, IInv, TypeOK, InMatrix
      <3>2. CASE cmax[mdfile][row] = col
        <4>1. \A f \in Files : \A r \in Rows : cmax'[f][r] = cmax[f][r]
          BY <1>1, <2>1, <2>2, <3>1, <3>2
        <4> QED
          BY <3>1, <4>1, LogStays
      <3>3. CASE cmax[mdfile][row] # col
        <4>1. PICK f \in Files : f = mdfile
          BY <2>1
        <4>2. cmax[f][row] < col /\ col \in Cols
          <5>1. cmax[f][row] \in Int
            BY <1>1, <2>2
          <5> QED
            BY <3>1, <3>3, <4>1, <5>1 DEF Cols
        <4>3. Grows(f)
          BY <2>2, <3>1, <4>1, <4>2, HeaderPublishes
        <4>4. ASSUME NEW g \in Files \ {f}
              PROVE  LogOf(g)' = LogOf(g)
          <5>1. cmax'[g] = cmax[g]
            BY <1>1, <3>1, <4>1
          <5> QED
            BY <3>1, <5>1, LogStays
        <4> QED
          BY <4>3, <4>4
      <3> QED
        BY <3>2, <3>3
    <2>3. CASE row \notin Rows
      <3>1. PICK f \in Files : f = mdfile
        BY <2>1
      <3>2. cmax' = cmax /\ \A g \in Files \ {f} : slots'[g] = slots[g]
        BY <1>1, <1>5, <2>3, <3>1 DEF UpdateRowHeader, IInv, TypeOK
      <3>3. Full(f) /\ Full(f)'
        BY <1>1, <1>5, <2>3, <3>1, <3>2 DEF IInv, PastMatrix, Full, HasRoom
      <3>4. LogLength(f) = Capacity /\ LogLength(f)' = Capacity
        BY <3>3 DEF LogLength, Capacity
      <3>5. StaysFull(f)
        BY <3>4 DEF StaysFull, Known, LogsAreSeqs
      <3>6. \A g \in Files \ {f} : LogOf(g)' = LogOf(g)
        BY <3>2, LogStays
      <3> QED
        BY <3>5, <3>6
    <2> QED
      BY <2>2, <2>3
  <1> QED
    BY <1>1, <1>2, <1>3, <1>4, <1>5, DiskSteps

LEMMA StepKnown == ~WriteMayFail /\ Known /\ [Next]_vars => Known'
  <1>1. ~WriteMayFail /\ Known /\ [Next]_vars => IInv' /\ SInv'
    BY StepInv, StepLogInv DEF Known
  <1>2. IInv /\ SInv => LogShape
    BY LogIsCovered DEF SInv
  <1>3. IInv /\ SInv => LogsAreSeqs
    BY <1>2, LogType
  <1>4. IInv /\ SInv => Known
    BY <1>2, <1>3 DEF Known
  <1>5. IInv' /\ SInv' => Known'
    BY <1>4, PTL
  <1> QED
    BY <1>1, <1>5

LEMMA InitKnown == Init => Known /\ \A f \in Files : LogOf(f) = <<>>
  <1> SUFFICES ASSUME Init
               PROVE  Known /\ \A f \in Files : LogOf(f) = <<>>
    OBVIOUS
  <1>1. Known
    BY InitInv, InitLogInv, LogIsCovered, LogType DEF Known, SInv
  <1>2. ASSUME NEW f \in Files
        PROVE  LogOf(f) = <<>>
    <2>1. LogLength(f) = 0
      <3> SUFFICES ASSUME LogLength(f) # 0
                   PROVE  FALSE
        OBVIOUS
      <3>1. 1 \in 1..LogLength(f)
        BY <1>1, CapacityType DEF Known, LogShape
      <3>2. PICK r \in Rows, c \in Cols : Covered(f, r, c)
        BY <1>1, <3>1, EntryIsCovered
      <3> QED
        BY <3>2 DEF Init, Covered, Cols, MISS
    <2>2. LogOf(f) \in Seq(Slot) /\ Len(LogOf(f)) = 0
      BY <1>1, <2>1 DEF Known, LogsAreSeqs
    <2> QED
      BY <2>2, EmptySeq
  <1> QED
    BY <1>1, <1>2

(* The decoder implements the readers' log: whatever the sizes, the feed,  *)
(* the day changes, the kills and the restarts, readers see each file grow *)
(* by whole batches in the order of arrival, and never see an entry change *)
(* or go away until the file is full, as long as writes reach the disk     *)
(* (write_mcidas, decode_lgt.c:711-914).                                   *)
THEOREM DecoderIsALog == ~WriteMayFail /\ Spec => ImplementsLog
  <1>1. Init => Log!Init
    BY InitKnown DEF Log!Init, LogOf
  <1>2. ~WriteMayFail /\ Known /\ Known' /\ [Next]_vars =>
          [Log!Next]_([f \in Files |-> [i \in 1..LogLength(f) |-> Entry(f, i)]])
    <2> SUFFICES ASSUME ~WriteMayFail, Known, Known', [Next]_vars
                 PROVE  [Log!Next]_([f \in Files |-> [i \in 1..LogLength(f) |-> Entry(f, i)]])
      OBVIOUS
    <2>1. CASE \A f \in Files : LogOf(f)' = LogOf(f)
      BY <2>1 DEF LogOf
    <2>2. ASSUME NEW f \in Files, \A g \in Files \ {f} : LogOf(g)' = LogOf(g),
                 Grows(f)
          PROVE  Log!Publish(f)
      BY <2>2 DEF Log!Publish, Log!OnlyChanges, Log!InOrder, Grows, LogOf, Capacity
    <2>3. ASSUME NEW f \in Files, \A g \in Files \ {f} : LogOf(g)' = LogOf(g),
                 StaysFull(f)
          PROVE  Log!Spoil(f)
      BY <2>3 DEF Log!Spoil, Log!OnlyChanges, StaysFull, LogOf, Capacity
    <2> QED
      BY <2>1, <2>2, <2>3, LogStep DEF Log!Next
  <1>3. CASE ~WriteMayFail
    BY <1>1, <1>2, <1>3, InitKnown, StepKnown, PTL DEF Spec, ImplementsLog, Log!Spec
  <1> QED
    BY <1>3
=============================================================================
