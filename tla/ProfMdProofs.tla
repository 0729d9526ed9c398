---------------------------- MODULE ProfMdProofs ----------------------------
(***************************************************************************)
(* Theorems about the profiler decoder, for MD files of any size, any      *)
(* number of decoders, days, times and stations.                           *)
(*                                                                         *)
(* The argument has three layers.  Ranges: where each decoder is and in    *)
(* which column.  Makers: unless two decoders have found a file missing,   *)
(* it has one maker at most, and then nobody files in it.  Progress: the   *)
(* columns behind a decoder are filled, with its own observations if       *)
(* nobody has come to its rows in the meantime.                            *)
(***************************************************************************)
EXTENDS ProfMd, TLAPS

RowHeader == {h \in Header : h.count \in 0..NCols}

DiskTypes ==
  /\ hdr \in [Files -> {"absent", "bare", "ok"}]
  /\ rowhdr \in [Files -> [Rows -> RowHeader \cup {NONE}]]
  /\ obs \in [Files -> [Rows -> [Cols -> Obs \cup {NONE}]]]

ProcTypes ==
  /\ pc \in [Decoders -> PCs]
  /\ prod \in [Decoders -> Product \cup {NONE}]
  /\ col \in [Decoders -> 1..(MaxStations + 1)]
  /\ nprod \in 0..MaxProd
  /\ alone \in [Decoders -> BOOLEAN]
  /\ raced \subseteq Files

(* Where a decoder is in its rows. *)
Stands(d) ==
  /\ pc[d] # "down" => prod[d] \in Product
  /\ Filing(d) => Low(d) < NRows
  /\ pc[d] \in {"down", "open", "create", "pad", "header"} => col[d] = 1
  /\ pc[d] \in {"low", "high"} => col[d] <= prod[d].n /\ col[d] <= NCols
  /\ pc[d] \in {"lowhead", "highhead", "remove"} => col[d] > StationCount(prod[d])

TInv == DiskTypes /\ ProcTypes /\ \A d \in Decoders : Stands(d)

-----------------------------------------------------------------------------
(* Rows and files. *)

(* The row of the low mode is an odd one. *)
LEMMA RowIsOdd ==
  ASSUME NEW t \in Times
  PROVE  \E k \in Nat : LowRow(t) = 2 * k + 1
<1>1. /\ t.hour \in Nat /\ t.minute \in Nat /\ Hour \in Nat /\ Step \in Nat \ {0}
      /\ Interval \in Nat \ {0}
  BY ProfMdAssumption
<1>2. Hour \div Interval \in Nat /\ t.minute \div Step \in Nat
  BY <1>1
<1> DEFINE q == Hour \div Interval
           m == t.minute \div Step
<1>3. t.hour * q \in Nat
  <2> HIDE DEF q
  <2>1. q \in Nat
    BY <1>2 DEF q
  <2>2. ASSUME NEW x \in Nat, NEW y \in Nat
        PROVE  x * y \in Nat
    OBVIOUS
  <2> QED
    BY <1>1, <2>1, <2>2
<1>4. t.hour * q + m \in Nat /\ LowRow(t) = 2 * (t.hour * q + m) + 1
  <2>1. m \in Nat
    BY <1>2
  <2>2. LowRow(t) = 2 * (t.hour * q + m) + 1
    BY DEF LowRow
  <2> HIDE DEF q, m
  <2> QED
    BY <1>3, <2>1, <2>2
<1> QED
  BY <1>4

LEMMA FileIsOne ==
  ASSUME NEW day \in Days
  PROVE  FileOf(day) \in Files
<1>1. day \in Nat /\ Decade \in Nat \ {0}
  BY ProfMdAssumption
<1>2. day % Decade \in 0..(Decade - 1)
  BY <1>1
<1> QED
  BY <1>1, <1>2 DEF FileOf, Files

LEMMA ProductFacts ==
  ASSUME NEW p \in Product
  PROVE  /\ p # NONE /\ p.n \in 1..MaxStations /\ p.day \in Days /\ p.time \in Times
         /\ StationCount(p) \in 0..NCols /\ StationCount(p) <= p.n
         /\ \A m \in Modes : /\ ObsOf(p, m) \in Obs /\ ObsOf(p, m) # NONE
                             /\ HeaderOf(p, m) \in RowHeader /\ HeaderOf(p, m) # NONE
<1>1. p # NONE /\ p.n \in 1..MaxStations /\ p.day \in Days /\ p.time \in Times
  BY ProfMdAssumption DEF Product
<1>2. StationCount(p) \in 0..NCols /\ StationCount(p) <= p.n
  BY <1>1, ProfMdAssumption DEF StationCount
<1>3. ASSUME NEW m \in Modes
      PROVE  /\ ObsOf(p, m) \in Obs /\ ObsOf(p, m) # NONE
             /\ HeaderOf(p, m) \in RowHeader /\ HeaderOf(p, m) # NONE
  <2>1. ObsOf(p, m) \in Obs
    BY <1>1 DEF ObsOf, Obs
  <2>2. HeaderOf(p, m) \in Header /\ HeaderOf(p, m).count = StationCount(p)
    BY <1>1, <1>2, ProfMdAssumption DEF HeaderOf, Header
  <2> QED
    BY <2>1, <2>2, <1>2, ProfMdAssumption DEF RowHeader
<1> QED
  BY <1>1, <1>2, <1>3

(* The rows of a decoder that files, and the columns it files in. *)
LEMMA FilingFacts ==
  ASSUME TInv, NEW d \in Decoders, pc[d] # "down"
  PROVE  /\ prod[d] \in Product /\ File(d) \in Files
         /\ Low(d) \in Nat \ {0} /\ High(d) = Low(d) + 1
         /\ Filing(d) => Low(d) \in Rows /\ High(d) \in Rows
         /\ pc[d] \in {"low", "high"} => col[d] \in Cols
<1>1. prod[d] \in Product
  BY DEF TInv, Stands
<1>2. prod[d].day \in Days /\ prod[d].time \in Times
  BY <1>1, ProductFacts
<1>3. PICK k \in Nat : Low(d) = 2 * k + 1
  BY <1>2, RowIsOdd DEF Low
<1>4. Low(d) \in Nat \ {0} /\ High(d) = Low(d) + 1
  BY <1>3 DEF High
<1>5. Filing(d) => Low(d) < NRows
  BY DEF TInv, Stands
<1>6. pc[d] \in {"low", "high"} => col[d] \in Cols
  BY ProfMdAssumption DEF TInv, ProcTypes, Stands, Cols
<1>7. File(d) \in Files
  BY <1>2, FileIsOne DEF File
<1> QED
  BY <1>1, <1>4, <1>5, <1>6, <1>7, ProfMdAssumption DEF Rows

(* Two decoders write to the same rows, or to different ones. *)
LEMMA RowsApart ==
  ASSUME TInv, NEW d \in Decoders, NEW e \in Decoders, pc[d] # "down", pc[e] # "down",
         Low(d) # Low(e)
  PROVE  {Low(d), High(d)} \cap {Low(e), High(e)} = {}
<1>1. prod[d].time \in Times /\ prod[e].time \in Times
  BY ProductFacts DEF TInv, Stands
<1>2. PICK k \in Nat : Low(d) = 2 * k + 1
  BY <1>1, RowIsOdd DEF Low
<1>3. PICK j \in Nat : Low(e) = 2 * j + 1
  BY <1>1, RowIsOdd DEF Low
<1> QED
  BY <1>2, <1>3 DEF High

-----------------------------------------------------------------------------
(* What a step of d can do. *)

StepOf(d) ==
  \/ \E p \in Product : Start(d, p)
  \/ DecodeFails(d) \/ OpenMissing(d) \/ OpenExisting(d) \/ Abort(d)
  \/ CreateFile(d) \/ PadFile(d) \/ WriteHeader(d)
  \/ FileLow(d) \/ FileHigh(d) \/ WriteRowHeader(d) \/ Exit(d) \/ Crash(d)

Ends(d) == DecodeFails(d) \/ Abort(d) \/ Exit(d) \/ Crash(d)

LEMMA OthersStay ==
  ASSUME TInv, NEW d \in Decoders, StepOf(d), NEW e \in Decoders \ {d}
  PROVE  /\ pc'[e] = pc[e] /\ prod'[e] = prod[e] /\ col'[e] = col[e]
         /\ File(e)' = File(e) /\ Low(e)' = Low(e) /\ High(e)' = High(e)
         /\ Filing(e)' = Filing(e) /\ Making(e)' = Making(e)
         /\ alone'[e] => alone[e]
<1> USE DEF TInv, ProcTypes
<1> SUFFICES /\ pc'[e] = pc[e] /\ prod'[e] = prod[e] /\ col'[e] = col[e]
             /\ alone'[e] => alone[e]
  BY DEF File, Low, High, Filing, Making
<1>1. CASE \E p \in Product : Start(d, p)
  BY <1>1 DEF Start, Goto
<1>2. CASE Ends(d)
  BY <1>2 DEF Ends, DecodeFails, Abort, Exit, Crash, Gone, Goto
<1>3. CASE OpenMissing(d) \/ OpenExisting(d)
  BY <1>3 DEF OpenMissing, OpenExisting, BeginFiling, Goto
<1>4. CASE CreateFile(d) \/ PadFile(d)
  BY <1>4 DEF CreateFile, PadFile, Emptied, Goto
<1>5. CASE WriteHeader(d)
  BY <1>5 DEF WriteHeader, BeginFiling, Gone, Goto
<1>6. CASE FileLow(d) \/ FileHigh(d) \/ WriteRowHeader(d)
  BY <1>6 DEF FileLow, FileHigh, WriteRowHeader, Goto
<1> QED
  BY <1>1, <1>2, <1>3, <1>4, <1>5, <1>6 DEF StepOf, Ends

LEMMA TInitInv == Init => TInv
<1> SUFFICES ASSUME Init
             PROVE  TInv
  OBVIOUS
<1>1. DiskTypes
  BY DEF Init, DiskTypes, NoHeaders, NoObs
<1>2. 1 \in 1..(MaxStations + 1) /\ 0 \in 0..MaxProd
  BY ProfMdAssumption
<1>3. ProcTypes
  BY <1>2 DEF Init, ProcTypes, PCs
<1>4. \A d \in Decoders : Stands(d)
  BY DEF Init, Stands, Filing
<1> QED
  BY <1>1, <1>3, <1>4 DEF TInv

(* The process of d has ended. *)
LEMMA GoneStands ==
  ASSUME TInv, NEW d \in Decoders, Gone(d), nprod' = nprod, raced' = raced
  PROVE  ProcTypes' /\ Stands(d)' /\ pc'[d] = "down"
<1> USE DEF TInv, ProcTypes, Gone, Goto
<1>1. 1 \in 1..(MaxStations + 1)
  BY ProfMdAssumption
<1>2. pc'[d] = "down" /\ col'[d] = 1
  BY <1>1
<1>3. pc' \in [Decoders -> PCs] /\ prod' \in [Decoders -> Product \cup {NONE}]
  BY DEF PCs
<1>4. col' \in [Decoders -> 1..(MaxStations + 1)] /\ alone' \in [Decoders -> BOOLEAN]
  BY <1>1
<1>5. ProcTypes'
  BY <1>3, <1>4
<1>6. Stands(d)'
  BY <1>2 DEF Stands, Filing
<1> QED
  BY <1>2, <1>5, <1>6

(* d goes to its rows. *)
LEMMA BeginStands ==
  ASSUME TInv, NEW d \in Decoders, BeginFiling(d), pc[d] \in {"open", "header"},
         UNCHANGED <<prod, col, nprod, raced>>
  PROVE  ProcTypes' /\ Stands(d)' /\ pc'[d] = "low"
<1> USE DEF TInv, ProcTypes
<1>1. pc' = [pc EXCEPT ![d] = "low"] /\ Low(d) < NRows
  BY DEF BeginFiling, Goto
<1>2. prod[d] \in Product /\ col[d] = 1
  BY DEF Stands
<1>3. 1 <= prod[d].n /\ 1 <= NCols
  BY <1>2, ProductFacts, ProfMdAssumption
<1>4. alone' \in [Decoders -> BOOLEAN]
  BY DEF BeginFiling
<1>5. ProcTypes'
  BY <1>1, <1>4 DEF PCs
<1>6. Stands(d)'
  BY <1>1, <1>2, <1>3 DEF Stands, Low
<1> QED
  BY <1>1, <1>5, <1>6

(* The process side of a step. *)
LEMMA ProcStep ==
  ASSUME TInv, NEW d \in Decoders, StepOf(d)
  PROVE  ProcTypes' /\ Stands(d)'
<1> USE DEF TInv
<1>1. CASE \E p \in Product : Start(d, p)
  <2>1. PICK p \in Product : Start(d, p)
    BY <1>1
  <2>2. nprod' \in 0..MaxProd
    BY <2>1, ProfMdAssumption DEF Start, ProcTypes
  <2>3. prod' \in [Decoders -> Product \cup {NONE}] /\ pc' \in [Decoders -> PCs]
    BY <2>1 DEF Start, Goto, ProcTypes, PCs
  <2>4. ProcTypes'
    BY <2>1, <2>2, <2>3 DEF Start, ProcTypes
  <2>5. Stands(d)'
    BY <2>1 DEF Start, Goto, ProcTypes, Stands, Filing
  <2> QED
    BY <2>4, <2>5
<1>2. CASE Ends(d)
  BY <1>2, GoneStands DEF Ends, DecodeFails, Abort, Exit, Crash
<1>3. CASE OpenMissing(d)
  <2>1. pc' = [pc EXCEPT ![d] = "create"] /\ pc[d] = "open" /\ UNCHANGED <<prod, col, nprod, alone>>
    BY <1>3 DEF OpenMissing, Goto
  <2>2. raced' \subseteq Files
    BY <1>3 DEF OpenMissing, ProcTypes
  <2>3. ProcTypes'
    BY <2>1, <2>2 DEF ProcTypes, PCs
  <2>4. Stands(d)'
    BY <2>1 DEF ProcTypes, Stands, Filing
  <2> QED
    BY <2>3, <2>4
<1>4. CASE OpenExisting(d) \/ WriteHeader(d)
  BY <1>4, GoneStands, BeginStands DEF OpenExisting, WriteHeader
<1>5. CASE CreateFile(d) \/ PadFile(d)
  <2>1. /\ pc' = [pc EXCEPT ![d] = "pad"] \/ pc' = [pc EXCEPT ![d] = "header"]
        /\ pc[d] \in {"create", "pad"} /\ UNCHANGED <<prod, col, nprod, raced>>
    BY <1>5 DEF CreateFile, PadFile, Goto
  <2>2. alone' \in [Decoders -> BOOLEAN]
    BY <1>5 DEF CreateFile, PadFile, Emptied, ProcTypes
  <2>3. ProcTypes'
    BY <2>1, <2>2 DEF ProcTypes, PCs
  <2>4. Stands(d)'
    BY <2>1 DEF ProcTypes, Stands, Filing
  <2> QED
    BY <2>3, <2>4
<1>6. CASE FileLow(d) \/ WriteRowHeader(d)
  <2>1. /\ \/ pc[d] = "low" /\ pc' = [pc EXCEPT ![d] = "high"]
           \/ pc[d] = "lowhead" /\ pc' = [pc EXCEPT ![d] = "highhead"]
           \/ pc[d] = "highhead" /\ pc' = [pc EXCEPT ![d] = "remove"]
        /\ UNCHANGED <<prod, col, nprod, alone, raced>>
    BY <1>6 DEF FileLow, WriteRowHeader, Goto
  <2>2. ProcTypes'
    BY <2>1 DEF ProcTypes, PCs
  <2>3. Stands(d)'
    BY <2>1 DEF ProcTypes, Stands, Filing, Low
  <2> QED
    BY <2>2, <2>3
<1>7. CASE FileHigh(d)
  <2>1. /\ pc[d] = "high" /\ UNCHANGED <<prod, nprod, alone, raced>>
        /\ col' = [col EXCEPT ![d] = col[d] + 1]
        /\ pc' = [pc EXCEPT ![d] = IF col[d] < prod[d].n /\ col[d] < NCols THEN "low" ELSE "lowhead"]
    BY <1>7 DEF FileHigh, Goto
  <2>2. prod[d] \in Product /\ prod[d].n \in 1..MaxStations
    BY <2>1, FilingFacts, ProductFacts
  <2>3. col[d] \in Nat /\ col[d] <= prod[d].n /\ col[d] <= NCols /\ Low(d) < NRows
    BY <2>1 DEF Stands, ProcTypes, Filing
  <2>4. col[d] + 1 \in 1..(MaxStations + 1) /\ NCols \in Nat
    BY <2>2, <2>3, ProfMdAssumption
  <2>5. ProcTypes'
    <3>1. col' \in [Decoders -> 1..(MaxStations + 1)]
      BY <2>1, <2>4 DEF ProcTypes
    <3>2. pc' \in [Decoders -> PCs]
      BY <2>1 DEF ProcTypes, PCs
    <3> QED
      BY <2>1, <3>1, <3>2 DEF ProcTypes
  <2>6. /\ col'[d] = col[d] + 1 /\ prod'[d] = prod[d] /\ Low(d)' = Low(d)
        /\ pc'[d] = IF col[d] < prod[d].n /\ col[d] < NCols THEN "low" ELSE "lowhead"
    BY <2>1 DEF ProcTypes, Low
  <2>7. Stands(d)'
    BY <2>2, <2>3, <2>4, <2>6 DEF Stands, StationCount
  <2> QED
    BY <2>5, <2>7
<1> QED
  BY <1>1, <1>2, <1>3, <1>4, <1>5, <1>6, <1>7 DEF StepOf, Ends

(* The disk side. *)
LEMMA DiskStep ==
  ASSUME TInv, NEW d \in Decoders, StepOf(d)
  PROVE  DiskTypes'
<1> USE DEF TInv
<1>1. CASE (\E p \in Product : Start(d, p)) \/ Ends(d) \/ OpenMissing(d) \/ OpenExisting(d)
  BY <1>1 DEF Start, Ends, DecodeFails, Abort, Exit, Crash, OpenMissing, OpenExisting, disk, DiskTypes
<1>2. CASE CreateFile(d) \/ PadFile(d)
  <2>1. NoHeaders \in [Rows -> RowHeader \cup {NONE}] /\ NoObs \in [Rows -> [Cols -> Obs \cup {NONE}]]
    BY DEF NoHeaders, NoObs
  <2> QED
    BY <1>2, <2>1 DEF CreateFile, PadFile, Emptied, DiskTypes
<1>3. CASE WriteHeader(d)
  BY <1>3 DEF WriteHeader, DiskTypes
<1>4. CASE FileLow(d) \/ FileHigh(d)
  <2>1. prod[d] \in Product
    BY <1>4, FilingFacts DEF FileLow, FileHigh
  <2>2. ObsOf(prod[d], "LOW") \in Obs /\ ObsOf(prod[d], "HIGH") \in Obs
    BY <2>1, ProductFacts DEF Modes
  <2>3. PICK o \in Obs, r \in {Low(d), High(d)} :
          obs' = [obs EXCEPT ![File(d)][r][NextColumn(d)] = o] /\ UNCHANGED <<hdr, rowhdr>>
    BY <1>4, <2>2 DEF FileLow, FileHigh
  <2>4. obs' \in [Files -> [Rows -> [Cols -> Obs \cup {NONE}]]]
    BY <2>3 DEF DiskTypes
  <2> QED
    BY <2>3, <2>4 DEF DiskTypes
<1>5. CASE WriteRowHeader(d)
  <2>1. prod[d] \in Product
    BY <1>5, FilingFacts DEF WriteRowHeader
  <2>2. HeaderOf(prod[d], "LOW") \in RowHeader /\ HeaderOf(prod[d], "HIGH") \in RowHeader
    BY <2>1, ProductFacts DEF Modes
  <2>3. PICK h \in RowHeader, r \in {Low(d), High(d)} :
          rowhdr' = [rowhdr EXCEPT ![File(d)][r] = h] /\ UNCHANGED <<hdr, obs>>
    BY <1>5, <2>2 DEF WriteRowHeader
  <2>4. rowhdr' \in [Files -> [Rows -> RowHeader \cup {NONE}]]
    BY <2>3 DEF DiskTypes
  <2> QED
    BY <2>3, <2>4 DEF DiskTypes
<1> QED
  BY <1>1, <1>2, <1>3, <1>4, <1>5 DEF StepOf, Ends

LEMMA TStepInv ==
  ASSUME TInv, NEW d \in Decoders, StepOf(d)
  PROVE  TInv'
<1>1. ASSUME NEW e \in Decoders \ {d}
      PROVE  Stands(e)'
  <2>1. Stands(e)
    BY DEF TInv
  <2> QED
    BY <2>1, OthersStay DEF Stands
<1> QED
  BY <1>1, ProcStep, DiskStep DEF TInv

-----------------------------------------------------------------------------
(* What the steps do to the disk, place by place. *)

(* The row and the mode that d is at. *)
RowAt(d)  == IF pc[d] \in {"low", "lowhead"} THEN Low(d) ELSE High(d)
ModeAt(d) == IF pc[d] \in {"low", "lowhead"} THEN "LOW" ELSE "HIGH"

LEMMA ObsWritten ==
  ASSUME TInv, NEW d \in Decoders, FileLow(d) \/ FileHigh(d)
  PROVE  /\ pc[d] \in {"low", "high"} /\ UNCHANGED <<hdr, rowhdr, prod, alone, raced>>
         /\ File(d) \in Files /\ RowAt(d) \in Rows /\ col[d] \in Cols
         /\ \A f \in Files, r \in Rows, c \in Cols :
              obs'[f][r][c] = IF f = File(d) /\ r = RowAt(d) /\ c = col[d]
                              THEN ObsOf(prod[d], ModeAt(d)) ELSE obs[f][r][c]
         /\ ObsOf(prod[d], ModeAt(d)) # NONE
<1>1. /\ pc[d] \in {"low", "high"} /\ UNCHANGED <<hdr, rowhdr, prod, alone, raced>>
      /\ obs' = [obs EXCEPT ![File(d)][RowAt(d)][col[d]] = ObsOf(prod[d], ModeAt(d))]
  BY DEF FileLow, FileHigh, NextColumn, RowAt, ModeAt
<1>2. File(d) \in Files /\ RowAt(d) \in Rows /\ col[d] \in Cols /\ prod[d] \in Product
  BY <1>1, FilingFacts DEF RowAt, Filing
<1>3. ObsOf(prod[d], ModeAt(d)) # NONE
  BY <1>2, ProductFacts DEF ModeAt, Modes
<1>4. ASSUME NEW f \in Files, NEW r \in Rows, NEW c \in Cols
      PROVE  obs'[f][r][c] = IF f = File(d) /\ r = RowAt(d) /\ c = col[d]
                             THEN ObsOf(prod[d], ModeAt(d)) ELSE obs[f][r][c]
  BY <1>1, <1>2 DEF TInv, DiskTypes
<1> QED
  BY <1>1, <1>2, <1>3, <1>4

LEMMA HeadWritten ==
  ASSUME TInv, NEW d \in Decoders, WriteRowHeader(d)
  PROVE  /\ pc[d] \in {"lowhead", "highhead"} /\ UNCHANGED <<hdr, obs, prod, col, alone, raced>>
         /\ File(d) \in Files /\ RowAt(d) \in Rows
         /\ \A f \in Files, r \in Rows :
              rowhdr'[f][r] = IF f = File(d) /\ r = RowAt(d)
                              THEN HeaderOf(prod[d], ModeAt(d)) ELSE rowhdr[f][r]
<1>1. /\ pc[d] \in {"lowhead", "highhead"} /\ UNCHANGED <<hdr, obs, prod, col, alone, raced>>
      /\ rowhdr' = [rowhdr EXCEPT ![File(d)][RowAt(d)] = HeaderOf(prod[d], ModeAt(d))]
  BY DEF WriteRowHeader, RowAt, ModeAt
<1>2. File(d) \in Files /\ RowAt(d) \in Rows
  BY <1>1, FilingFacts DEF RowAt, Filing
<1>3. ASSUME NEW f \in Files, NEW r \in Rows
      PROVE  rowhdr'[f][r] = IF f = File(d) /\ r = RowAt(d)
                             THEN HeaderOf(prod[d], ModeAt(d)) ELSE rowhdr[f][r]
  BY <1>1, <1>2 DEF TInv, DiskTypes
<1> QED
  BY <1>1, <1>2, <1>3

LEMMA FileEmptied ==
  ASSUME TInv, NEW d \in Decoders, CreateFile(d) \/ PadFile(d)
  PROVE  /\ pc[d] \in {"create", "pad"} /\ pc'[d] \in {"pad", "header"}
         /\ UNCHANGED <<prod, col, raced>> /\ File(d) \in Files
         /\ hdr' = [hdr EXCEPT ![File(d)] = "bare"]
         /\ \A f \in Files : IF f = File(d) THEN rowhdr'[f] = NoHeaders /\ obs'[f] = NoObs
                             ELSE rowhdr'[f] = rowhdr[f] /\ obs'[f] = obs[f]
         /\ \A e \in Decoders \ {d} : alone'[e] => ~(Filing(e) /\ File(e) = File(d))
<1>1. /\ pc[d] \in {"create", "pad"} /\ pc'[d] \in {"pad", "header"}
      /\ UNCHANGED <<prod, col, raced>>
      /\ hdr' = [hdr EXCEPT ![File(d)] = "bare"] /\ Emptied(d, File(d))
  BY DEF CreateFile, PadFile, Goto, TInv, ProcTypes
<1>2. File(d) \in Files
  BY <1>1, FilingFacts
<1>3. \A f \in Files : IF f = File(d) THEN rowhdr'[f] = NoHeaders /\ obs'[f] = NoObs
                       ELSE rowhdr'[f] = rowhdr[f] /\ obs'[f] = obs[f]
  BY <1>1, <1>2 DEF Emptied, TInv, DiskTypes
<1>4. \A e \in Decoders \ {d} : alone'[e] => ~(Filing(e) /\ File(e) = File(d))
  BY <1>1 DEF Emptied
<1> QED
  BY <1>1, <1>2, <1>3, <1>4

(* The other steps leave rows and observations alone. *)
RowsSame(d) ==
  \/ \E p \in Product : Start(d, p)
  \/ Ends(d) \/ OpenMissing(d) \/ OpenExisting(d) \/ WriteHeader(d)

LEMMA StepSplit ==
  ASSUME NEW d \in Decoders, StepOf(d)
  PROVE  \/ RowsSame(d) /\ UNCHANGED <<rowhdr, obs>>
         \/ CreateFile(d) \/ PadFile(d) \/ FileLow(d) \/ FileHigh(d) \/ WriteRowHeader(d)
<1>1. RowsSame(d) => UNCHANGED <<rowhdr, obs>>
  BY DEF RowsSame, Start, Ends, DecodeFails, Abort, Exit, Crash, OpenMissing, OpenExisting,
         WriteHeader, disk
<1> QED
  BY <1>1 DEF StepOf, RowsSame, Ends

-----------------------------------------------------------------------------
(* Makers. *)

OneMaker ==
  \A d, e \in Decoders : d # e /\ Making(d) /\ Making(e) /\ File(d) = File(e) => File(d) \in raced

HeaderStands(d) ==
  pc[d] # "down" /\ File(d) \notin raced =>
    /\ pc[d] = "create" => hdr[File(d)] = "absent"
    /\ pc[d] \in {"pad", "header"} => hdr[File(d)] = "bare"
    /\ Filing(d) => hdr[File(d)] = "ok"

EmptyUntilOk ==
  \A f \in Files \ raced : hdr[f] # "ok" => \A r \in Rows : rowhdr[f][r] = NONE

MInv == OneMaker /\ (\A d \in Decoders : HeaderStands(d)) /\ EmptyUntilOk

LEMMA RacedGrows ==
  ASSUME NEW d \in Decoders, StepOf(d)
  PROVE  raced \subseteq raced'
BY DEF StepOf, Start, DecodeFails, OpenMissing, OpenExisting, Abort, CreateFile, PadFile,
       WriteHeader, FileLow, FileHigh, WriteRowHeader, Exit, Crash

LEMMA MakersStep ==
  ASSUME TInv, MInv, NEW d \in Decoders, StepOf(d)
  PROVE  OneMaker'
<1> SUFFICES ASSUME NEW e \in Decoders, NEW x \in Decoders, e # x,
                    Making(e)', Making(x)', File(e)' = File(x)'
             PROVE  File(e)' \in raced'
  BY DEF OneMaker
<1>1. CASE OpenMissing(d)
  <2>1. prod' = prod /\ raced \subseteq raced'
    BY <1>1, RacedGrows DEF OpenMissing
  <2>2. CASE e # d /\ x # d
    BY <2>1, <2>2, OthersStay DEF MInv, OneMaker
  <2>3. CASE e = d
    <3>1. Making(x) /\ File(x) = File(d) /\ x # d /\ File(d) \in Files
      BY <2>1, <2>3, <1>1, OthersStay, FilingFacts DEF File, OpenMissing
    <3> QED
      BY <3>1, <2>1, <2>3, <1>1 DEF OpenMissing, File
  <2>4. CASE x = d
    <3>1. Making(e) /\ File(e) = File(d) /\ e # d /\ File(d) \in Files
      BY <2>1, <2>4, <1>1, OthersStay, FilingFacts DEF File, OpenMissing
    <3> QED
      BY <3>1, <2>1, <2>4, <1>1 DEF OpenMissing, File
  <2> QED
    BY <2>2, <2>3, <2>4
<1>2. CASE ~OpenMissing(d)
  <2>1. Making(d)' => Making(d) /\ prod'[d] = prod[d]
    BY <1>2 DEF StepOf, Start, DecodeFails, OpenExisting, Abort, CreateFile, PadFile, WriteHeader,
                FileLow, FileHigh, WriteRowHeader, Exit, Crash, Gone, Goto, BeginFiling, Making,
                TInv, ProcTypes
  <2>2. \A y \in {e, x} : Making(y) /\ File(y)' = File(y)
    BY <2>1, OthersStay DEF File
  <2> QED
    BY <2>2, RacedGrows DEF MInv, OneMaker
<1> QED
  BY <1>1, <1>2

(* A file's header is only touched by its maker. *)
LEMMA HeaderTouched ==
  ASSUME TInv, NEW d \in Decoders, StepOf(d)
  PROVE  \/ UNCHANGED hdr
         \/ /\ (CreateFile(d) \/ PadFile(d)) /\ hdr' = [hdr EXCEPT ![File(d)] = "bare"]
            /\ File(d) \in Files /\ Making(d) /\ raced' = raced
         \/ /\ WriteHeader(d) /\ hdr' = [hdr EXCEPT ![File(d)] = "ok"]
            /\ File(d) \in Files /\ Making(d) /\ raced' = raced
<1>1. CASE CreateFile(d) \/ PadFile(d)
  BY <1>1, FileEmptied DEF Making
<1>2. CASE WriteHeader(d)
  <2>1. pc[d] = "header" /\ hdr' = [hdr EXCEPT ![File(d)] = "ok"] /\ raced' = raced
    BY <1>2 DEF WriteHeader
  <2> QED
    BY <1>2, <2>1, FilingFacts DEF Making
<1>3. CASE ~(CreateFile(d) \/ PadFile(d) \/ WriteHeader(d))
  BY <1>3 DEF StepOf, Start, DecodeFails, OpenMissing, OpenExisting, Abort, FileLow, FileHigh,
              WriteRowHeader, Exit, Crash, disk
<1> QED
  BY <1>1, <1>2, <1>3

LEMMA HeadersStep ==
  ASSUME TInv, MInv, NEW d \in Decoders, StepOf(d), NEW e \in Decoders
  PROVE  HeaderStands(e)'
<1> USE DEF MInv
<1> SUFFICES ASSUME pc'[e] # "down", File(e)' \notin raced'
             PROVE  /\ pc'[e] = "create" => hdr'[File(e)'] = "absent"
                    /\ pc'[e] \in {"pad", "header"} => hdr'[File(e)'] = "bare"
                    /\ Filing(e)' => hdr'[File(e)'] = "ok"
  BY DEF HeaderStands
<1>0. File(e)' \notin raced
  BY RacedGrows
<1>1. CASE e # d
  <2>1. /\ pc'[e] = pc[e] /\ File(e)' = File(e) /\ Filing(e)' = Filing(e)
        /\ HeaderStands(e) /\ pc[e] # "down" /\ File(e) \in Files
    BY <1>1, OthersStay, FilingFacts
  <2>2. CASE UNCHANGED hdr
    BY <2>1, <2>2, <1>0 DEF HeaderStands
  <2>3. CASE Making(d) /\ File(d) \in Files
             /\ (hdr' = [hdr EXCEPT ![File(d)] = "bare"] \/ hdr' = [hdr EXCEPT ![File(d)] = "ok"])
    <3>1. CASE File(d) = File(e)
      <4>1. ~Making(e)
        BY <3>1, <2>1, <2>3, <1>0, <1>1 DEF OneMaker
      <4>2. Filing(e) => hdr[File(d)] = "ok"
        BY <3>1, <2>1, <1>0 DEF HeaderStands
      <4>3. hdr[File(d)] # "ok"
        BY <2>3, <3>1, <2>1, <1>0 DEF HeaderStands, Making
      <4> QED
        BY <4>1, <4>2, <4>3, <2>1 DEF Making
    <3>2. CASE File(d) # File(e)
      BY <3>2, <2>1, <2>3, <1>0 DEF HeaderStands, TInv, DiskTypes
    <3> QED
      BY <3>1, <3>2
  <2> QED
    BY <2>2, <2>3, HeaderTouched
<1>2. CASE e = d
  <2>1. CASE Ends(d)
    BY <2>1, <1>2, GoneStands DEF Ends, DecodeFails, Abort, Exit, Crash
  <2>2. CASE \E p \in Product : Start(d, p)
    BY <2>2, <1>2 DEF Start, Goto, Filing, TInv, ProcTypes
  <2>3. CASE OpenMissing(d)
    BY <2>3, <1>2 DEF OpenMissing, Goto, Filing, TInv, ProcTypes, File, disk
  <2>4. CASE OpenExisting(d)
    BY <2>4, <1>2 DEF OpenExisting, BeginFiling, Goto, TInv, ProcTypes, File, disk
  <2>5. CASE CreateFile(d) \/ PadFile(d)
    BY <2>5, <1>2, FileEmptied DEF Filing, File, TInv, DiskTypes
  <2>6. CASE WriteHeader(d)
    <3>1. pc[d] = "header" /\ hdr' = [hdr EXCEPT ![File(d)] = "ok"]
      BY <2>6 DEF WriteHeader
    <3>2. hdr'[File(d)] = "ok"
      BY <3>1, FilingFacts DEF TInv, DiskTypes
    <3>3. pc'[d] = "down" \/ (pc'[d] = "low" /\ prod' = prod)
      BY <2>6 DEF WriteHeader, BeginFiling, Gone, Goto, TInv, ProcTypes
    <3> QED
      BY <3>2, <3>3, <1>2 DEF File
  <2>7. CASE FileLow(d) \/ FileHigh(d)
    <3>1. /\ pc[d] \in {"low", "high"} /\ pc'[d] \in {"low", "high", "lowhead"}
          /\ UNCHANGED <<hdr, prod>>
      BY <2>7 DEF FileLow, FileHigh, Goto, TInv, ProcTypes
    <3> QED
      BY <3>1, <1>0, <1>2 DEF HeaderStands, Filing, File
  <2>8. CASE WriteRowHeader(d)
    <3>1. /\ pc[d] \in {"lowhead", "highhead"} /\ pc'[d] \in {"highhead", "remove"}
          /\ UNCHANGED <<hdr, prod>>
      BY <2>8 DEF WriteRowHeader, Goto, TInv, ProcTypes
    <3> QED
      BY <3>1, <1>0, <1>2 DEF HeaderStands, Filing, File
  <2> QED
    BY <2>1, <2>2, <2>3, <2>4, <2>5, <2>6, <2>7, <2>8 DEF StepOf, Ends
<1> QED
  BY <1>1, <1>2

LEMMA EmptyStep ==
  ASSUME TInv, MInv, NEW d \in Decoders, StepOf(d)
  PROVE  EmptyUntilOk'
<1> USE DEF MInv
<1> SUFFICES ASSUME NEW f \in Files \ raced', hdr'[f] # "ok", NEW r \in Rows
             PROVE  rowhdr'[f][r] = NONE
  BY DEF EmptyUntilOk
<1>0. f \notin raced
  BY RacedGrows
<1>1. CASE CreateFile(d) \/ PadFile(d)
  <2>1. f = File(d) => rowhdr'[f] = NoHeaders
    BY <1>1, FileEmptied
  <2>2. f # File(d) => rowhdr'[f] = rowhdr[f] /\ hdr'[f] = hdr[f]
    BY <1>1, FileEmptied DEF TInv, DiskTypes
  <2> QED
    BY <2>1, <2>2, <1>0 DEF EmptyUntilOk, NoHeaders
<1>2. CASE WriteRowHeader(d)
  <2>1. /\ pc[d] \in {"lowhead", "highhead"} /\ hdr' = hdr
        /\ f # File(d) => rowhdr'[f][r] = rowhdr[f][r]
    BY <1>2, HeadWritten
  <2>2. f # File(d)
    BY <2>1, <1>0 DEF HeaderStands, Filing
  <2> QED
    BY <2>1, <2>2, <1>0 DEF EmptyUntilOk
<1>3. CASE UNCHANGED rowhdr /\ ~CreateFile(d) /\ ~PadFile(d)
  <2>1. hdr[f] # "ok"
    BY <1>3, HeaderTouched DEF TInv, DiskTypes
  <2> QED
    BY <2>1, <1>0, <1>3 DEF EmptyUntilOk
<1> QED
  BY <1>1, <1>2, <1>3, StepSplit, ObsWritten

LEMMA MStepInv ==
  ASSUME TInv, MInv, NEW d \in Decoders, StepOf(d)
  PROVE  MInv'
BY MakersStep, HeadersStep, EmptyStep DEF MInv

-----------------------------------------------------------------------------
(* Progress: the columns behind a decoder, in a file of one maker. *)

Filled(d) ==
  Filing(d) /\ File(d) \notin raced =>
    /\ \A c \in Cols : c < col[d] =>
         obs[File(d)][Low(d)][c] # NONE /\ obs[File(d)][High(d)][c] # NONE
    /\ pc[d] = "high" => obs[File(d)][Low(d)][col[d]] # NONE

FInv == (\A d \in Decoders : Filled(d)) /\ NoHoles

(* In such a file nothing goes missing once it has its header. *)
LEMMA NothingLost ==
  ASSUME TInv, MInv, NEW d \in Decoders, StepOf(d), NEW f \in Files \ raced', hdr[f] = "ok",
         NEW r \in Rows, NEW c \in Cols, obs[f][r][c] # NONE
  PROVE  obs'[f][r][c] # NONE
<1>0. f \notin raced
  BY RacedGrows
<1>1. CASE CreateFile(d) \/ PadFile(d)
  <2>1. f # File(d)
    BY <1>0, <1>1, FileEmptied DEF MInv, HeaderStands
  <2> QED
    BY <1>1, <2>1, FileEmptied
<1>2. CASE FileLow(d) \/ FileHigh(d)
  BY <1>2, ObsWritten
<1>3. CASE WriteRowHeader(d)
  BY <1>3, HeadWritten
<1> QED
  BY <1>1, <1>2, <1>3, StepSplit

(* d comes to its rows with its first column. *)
LEMMA ComesFirst ==
  ASSUME TInv, NEW d \in Decoders, StepOf(d), Filing(d)'
  PROVE  \/ col'[d] = 1 /\ pc'[d] = "low" /\ ~Filing(d) /\ RowsSame(d)
         \/ FileLow(d) \/ FileHigh(d) \/ WriteRowHeader(d)
<1>1. CASE Ends(d)
  BY <1>1, GoneStands DEF Ends, DecodeFails, Abort, Exit, Crash, Filing
<1>2. CASE (\E p \in Product : Start(d, p)) \/ OpenMissing(d) \/ CreateFile(d) \/ PadFile(d)
  BY <1>2 DEF Start, OpenMissing, CreateFile, PadFile, Goto, Filing, TInv, ProcTypes
<1>3. CASE OpenExisting(d) \/ WriteHeader(d)
  <2>1. pc[d] \in {"open", "header"} /\ (Gone(d) \/ (BeginFiling(d) /\ col' = col))
    BY <1>3 DEF OpenExisting, WriteHeader
  <2>2. pc'[d] \in {"low", "down"} /\ (pc'[d] = "low" => col' = col)
    BY <2>1 DEF Gone, BeginFiling, Goto, TInv, ProcTypes
  <2>3. col[d] = 1 /\ ~Filing(d)
    BY <2>1 DEF TInv, Stands, Filing
  <2> QED
    BY <1>3, <2>2, <2>3 DEF Filing, RowsSame
<1> QED
  BY <1>1, <1>2, <1>3 DEF StepOf, Ends

LEMMA FilledStep ==
  ASSUME TInv, MInv, FInv, NEW d \in Decoders, StepOf(d), NEW e \in Decoders
  PROVE  Filled(e)'
<1> SUFFICES ASSUME Filing(e)', File(e)' \notin raced'
             PROVE  /\ \A c \in Cols : c < col'[e] =>
                         /\ obs'[File(e)'][Low(e)'][c] # NONE
                         /\ obs'[File(e)'][High(e)'][c] # NONE
                    /\ pc'[e] = "high" => obs'[File(e)'][Low(e)'][col'[e]] # NONE
  BY DEF Filled
<1>1. ASSUME Filing(e), File(e)' = File(e)
      PROVE  /\ Filled(e) /\ File(e) \in Files \ raced' /\ hdr[File(e)] = "ok"
             /\ File(e) \notin raced /\ pc[e] # "down"
             /\ Low(e) \in Rows /\ High(e) \in Rows
             /\ pc[e] \in {"low", "high"} => col[e] \in Cols
  <2>1. pc[e] # "down"
    BY <1>1 DEF Filing
  <2> QED
    BY <1>1, <2>1, RacedGrows, FilingFacts DEF FInv, MInv, HeaderStands
<1>2. CASE e # d
  <2>1. /\ pc'[e] = pc[e] /\ col'[e] = col[e]
        /\ File(e)' = File(e) /\ Low(e)' = Low(e) /\ High(e)' = High(e) /\ Filing(e)
    BY <1>2, OthersStay
  <2> QED
    BY <1>1, <2>1, NothingLost DEF Filled
<1>3. CASE e = d
  <2>1. CASE col'[d] = 1 /\ pc'[d] = "low"
    BY <1>3, <2>1 DEF Cols
  <2>2. CASE FileLow(d) \/ FileHigh(d)
    <3>1. /\ Filing(d) /\ prod' = prod
          /\ \/ pc[d] = "low" /\ pc'[d] = "high" /\ col' = col
             \/ pc[d] = "high" /\ pc'[d] \in {"low", "lowhead"} /\ col'[d] = col[d] + 1
      BY <2>2 DEF FileLow, FileHigh, Goto, Filing, TInv, ProcTypes
    <3>2. File(d)' = File(d) /\ Low(d)' = Low(d) /\ High(d)' = High(d)
      BY <3>1 DEF File, Low, High
    <3>3. /\ Filled(d) /\ File(d) \in Files \ raced' /\ hdr[File(d)] = "ok"
          /\ File(d) \notin raced /\ Low(d) \in Rows /\ High(d) \in Rows /\ col[d] \in Cols
      BY <1>1, <1>3, <3>1, <3>2
    <3>4. obs'[File(d)][RowAt(d)][col[d]] # NONE
      BY <2>2, <3>3, ObsWritten
    <3>5. \A c \in Cols : c < col[d] =>
            obs'[File(d)][Low(d)][c] # NONE /\ obs'[File(d)][High(d)][c] # NONE
      BY <3>1, <3>3, NothingLost DEF Filled
    <3>6. pc[d] = "high" => obs'[File(d)][Low(d)][col[d]] # NONE
      BY <3>1, <3>3, NothingLost DEF Filled
    <3> QED
      BY <1>3, <3>1, <3>2, <3>3, <3>4, <3>5, <3>6 DEF RowAt, Cols
  <2>3. CASE WriteRowHeader(d)
    <3>1. Filing(d) /\ prod' = prod /\ col' = col /\ obs' = obs /\ pc'[d] \in {"highhead", "remove"}
      BY <2>3 DEF WriteRowHeader, Goto, Filing, TInv, ProcTypes
    <3>2. File(d)' = File(d) /\ Low(d)' = Low(d) /\ High(d)' = High(d)
      BY <3>1 DEF File, Low, High
    <3> QED
      BY <1>1, <1>3, <3>1, <3>2 DEF Filled
  <2> QED
    BY <1>3, <2>1, <2>2, <2>3, ComesFirst
<1> QED
  BY <1>2, <1>3

LEMMA NoHolesStep ==
  ASSUME TInv, MInv, FInv, NEW d \in Decoders, StepOf(d)
  PROVE  NoHoles'
<1> SUFFICES ASSUME NEW f \in Files \ raced', NEW r \in Rows, NEW c \in Cols,
                    rowhdr'[f][r] # NONE, c <= rowhdr'[f][r].count
             PROVE  obs'[f][r][c] # NONE
  BY DEF NoHoles, Counted
<1>0. f \notin raced
  BY RacedGrows
<1>1. CASE rowhdr'[f][r] = rowhdr[f][r]
  <2>1. obs[f][r][c] # NONE
    BY <1>0, <1>1 DEF FInv, NoHoles, Counted
  <2>2. hdr[f] = "ok"
    BY <1>0, <1>1 DEF MInv, EmptyUntilOk
  <2> QED
    BY <2>1, <2>2, NothingLost
<1>2. CASE CreateFile(d) \/ PadFile(d)
  <2>1. f # File(d)
    BY <1>2, FileEmptied DEF NoHeaders
  <2> QED
    BY <1>1, <1>2, <2>1, FileEmptied
<1>3. CASE WriteRowHeader(d) /\ rowhdr'[f][r] # rowhdr[f][r]
  <2>1. /\ f = File(d) /\ r = RowAt(d) /\ rowhdr'[f][r] = HeaderOf(prod[d], ModeAt(d))
        /\ pc[d] \in {"lowhead", "highhead"} /\ obs' = obs
    BY <1>3, HeadWritten
  <2>2. c <= StationCount(prod[d])
    BY <2>1 DEF HeaderOf
  <2>3. col[d] > StationCount(prod[d]) /\ prod[d] \in Product /\ col[d] \in Nat
    BY <2>1, FilingFacts DEF TInv, Stands, ProcTypes
  <2>4. c < col[d]
    BY <2>2, <2>3, ProductFacts, ProfMdAssumption DEF Cols
  <2> QED
    BY <2>1, <2>4, <1>0 DEF FInv, Filled, Filing, RowAt
<1> QED
  BY <1>1, <1>2, <1>3, StepSplit, ObsWritten

LEMMA FStepInv ==
  ASSUME TInv, MInv, FInv, NEW d \in Decoders, StepOf(d)
  PROVE  FInv'
BY FilledStep, NoHolesStep DEF FInv

-----------------------------------------------------------------------------
(* A decoder that nobody has disturbed finds in its rows what it wrote.    *)

OneAlone ==
  \A d, e \in Decoders : d # e /\ Filing(d) /\ Filing(e) /\ SameRows(d, e) => ~alone[d]

Mine(d) ==
  Filing(d) /\ alone[d] =>
    /\ \A c \in Cols : c < col[d] => /\ obs[File(d)][Low(d)][c] = ObsOf(prod[d], "LOW")
                                     /\ obs[File(d)][High(d)][c] = ObsOf(prod[d], "HIGH")
    /\ pc[d] = "high" => obs[File(d)][Low(d)][col[d]] = ObsOf(prod[d], "LOW")
    /\ pc[d] \in {"highhead", "remove"} => rowhdr[File(d)][Low(d)] = HeaderOf(prod[d], "LOW")
    /\ pc[d] = "remove" => rowhdr[File(d)][High(d)] = HeaderOf(prod[d], "HIGH")

AInv == OneAlone /\ \A d \in Decoders : Mine(d)

(* Who begins to file, and who is alone then. *)
LEMMA BeginsAlone ==
  ASSUME TInv, NEW d \in Decoders, StepOf(d), Filing(d)'
  PROVE  /\ prod' = prod /\ File(d)' = File(d) /\ Low(d)' = Low(d) /\ High(d)' = High(d)
         /\ pc[d] # "down"
         /\ \/ Filing(d) /\ alone' = alone
            \/ /\ \A x \in Decoders \ {d} : Filing(x) /\ SameRows(x, d) => ~alone'[x]
               /\ alone'[d] => \A x \in Decoders \ {d} : ~(Filing(x) /\ SameRows(x, d))
<1>1. CASE FileLow(d) \/ FileHigh(d) \/ WriteRowHeader(d)
  <2>1. Filing(d) /\ alone' = alone /\ prod' = prod
    BY <1>1 DEF FileLow, FileHigh, WriteRowHeader, Filing
  <2> QED
    BY <2>1 DEF File, Low, High, Filing
<1>2. CASE RowsSame(d) /\ pc'[d] = "low"
  <2>1. CASE OpenExisting(d) \/ WriteHeader(d)
    <3>1. BeginFiling(d) /\ prod' = prod /\ pc[d] # "down"
      BY <2>1, <1>2 DEF OpenExisting, WriteHeader, Gone, Goto, TInv, ProcTypes
    <3>2. /\ \A x \in Decoders \ {d} : Filing(x) /\ SameRows(x, d) => ~alone'[x]
          /\ alone'[d] => \A x \in Decoders \ {d} : ~(Filing(x) /\ SameRows(x, d))
      BY <3>1 DEF BeginFiling
    <3> QED
      BY <3>1, <3>2 DEF File, Low, High
  <2>2. CASE Ends(d)
    BY <2>2, <1>2, GoneStands DEF Ends, DecodeFails, Abort, Exit, Crash
  <2>3. CASE (\E p \in Product : Start(d, p)) \/ OpenMissing(d)
    BY <2>3, <1>2 DEF Start, OpenMissing, Goto, TInv, ProcTypes
  <2> QED
    BY <1>2, <2>1, <2>2, <2>3 DEF RowsSame
<1> QED
  BY <1>1, <1>2, ComesFirst

LEMMA AloneStep ==
  ASSUME TInv, AInv, NEW d \in Decoders, StepOf(d)
  PROVE  OneAlone'
<1> SUFFICES ASSUME NEW e \in Decoders, NEW x \in Decoders, e # x,
                    Filing(e)', Filing(x)', SameRows(e, x)', alone'[e]
             PROVE  FALSE
  BY DEF OneAlone
<1>1. CASE e # d /\ x # d
  <2>1. Filing(e) /\ Filing(x) /\ SameRows(e, x) /\ alone[e]
    BY <1>1, OthersStay DEF SameRows
  <2> QED
    BY <2>1 DEF AInv, OneAlone
<1>2. CASE e = d
  <2>1. Filing(x) /\ SameRows(x, d) /\ SameRows(d, x)
    BY <1>2, OthersStay, BeginsAlone DEF SameRows
  <2> QED
    BY <2>1, <1>2, BeginsAlone DEF AInv, OneAlone
<1>3. CASE x = d
  <2>1. Filing(e) /\ SameRows(e, d) /\ alone[e]
    BY <1>3, OthersStay, BeginsAlone DEF SameRows
  <2> QED
    BY <2>1, <1>3, BeginsAlone DEF AInv, OneAlone
<1> QED
  BY <1>1, <1>2, <1>3

(* A step of d leaves the rows of another one, that stays alone, alone. *)
LEMMA RowsKept ==
  ASSUME TInv, AInv, NEW d \in Decoders, StepOf(d), NEW e \in Decoders \ {d}, Filing(e), alone'[e],
         NEW r \in {Low(e), High(e)}
  PROVE  /\ rowhdr'[File(e)][r] = rowhdr[File(e)][r]
         /\ \A c \in Cols : obs'[File(e)][r][c] = obs[File(e)][r][c]
<1>0. pc[e] # "down" /\ r \in Rows /\ File(e) \in Files /\ alone[e]
  BY FilingFacts, OthersStay DEF Filing
<1>1. CASE CreateFile(d) \/ PadFile(d)
  <2>1. File(e) # File(d)
    BY <1>1, FileEmptied
  <2> QED
    BY <1>0, <1>1, <2>1, FileEmptied
<1>2. ASSUME Filing(d), RowAt(d) = r
      PROVE  File(e) # File(d)
  <2>1. Low(d) = Low(e)
    BY <1>0, <1>2, RowsApart DEF RowAt, Filing
  <2> QED
    BY <1>0, <1>2, <2>1 DEF AInv, OneAlone, SameRows
<1>3. CASE FileLow(d) \/ FileHigh(d)
  <2>1. Filing(d)
    BY <1>3 DEF FileLow, FileHigh, Filing
  <2> QED
    BY <1>0, <1>2, <1>3, <2>1, ObsWritten
<1>4. CASE WriteRowHeader(d)
  <2>1. Filing(d)
    BY <1>4 DEF WriteRowHeader, Filing
  <2> QED
    BY <1>0, <1>2, <1>4, <2>1, HeadWritten
<1> QED
  BY <1>1, <1>3, <1>4, StepSplit

LEMMA MineStep ==
  ASSUME TInv, AInv, NEW d \in Decoders, StepOf(d), NEW e \in Decoders
  PROVE  Mine(e)'
<1>1. CASE e # d
  <2>1. /\ pc'[e] = pc[e] /\ col'[e] = col[e] /\ prod'[e] = prod[e]
        /\ File(e)' = File(e) /\ Low(e)' = Low(e) /\ High(e)' = High(e)
        /\ Filing(e)' = Filing(e) /\ (alone'[e] => alone[e])
    BY <1>1, OthersStay
  <2> SUFFICES ASSUME Filing(e), alone[e], alone'[e]
               PROVE  Mine(e)'
    BY <2>1 DEF Mine
  <2>2. pc[e] \in {"low", "high"} => col[e] \in Cols
    BY FilingFacts DEF Filing
  <2>3. \A r \in {Low(e), High(e)} :
          /\ rowhdr'[File(e)][r] = rowhdr[File(e)][r]
          /\ \A c \in Cols : obs'[File(e)][r][c] = obs[File(e)][r][c]
    BY <1>1, RowsKept
  <2>4. Mine(e)
    BY DEF AInv
  <2> QED
    BY <2>1, <2>2, <2>3, <2>4 DEF Mine
<1>2. CASE e = d
  <2> SUFFICES ASSUME Filing(d)', alone'[d]
               PROVE  Mine(d)'
    BY <1>2 DEF Mine
  <2>1. File(d)' = File(d) /\ Low(d)' = Low(d) /\ High(d)' = High(d) /\ prod' = prod
    BY BeginsAlone
  <2>2. CASE col'[d] = 1 /\ pc'[d] = "low"
    BY <2>2 DEF Mine, Cols
  <2>3. CASE FileLow(d) \/ FileHigh(d)
    <3>1. /\ Filing(d) /\ pc[d] # "down" /\ pc[d] \in {"low", "high"}
          /\ \/ pc[d] = "low" /\ pc'[d] = "high" /\ col' = col
             \/ pc[d] = "high" /\ pc'[d] \in {"low", "lowhead"} /\ col'[d] = col[d] + 1
      BY <2>3 DEF FileLow, FileHigh, Goto, Filing, TInv, ProcTypes
    <3>2. /\ Low(d) \in Rows /\ High(d) \in Rows /\ Low(d) # High(d)
          /\ File(d) \in Files /\ col[d] \in Cols
      BY <3>1, FilingFacts
    <3>3. Mine(d) /\ alone[d]
      BY <2>3, ObsWritten DEF AInv
    <3>4. \A c \in Cols : c < col[d] =>
            /\ obs'[File(d)][Low(d)][c] = ObsOf(prod[d], "LOW")
            /\ obs'[File(d)][High(d)][c] = ObsOf(prod[d], "HIGH")
      BY <2>3, <3>1, <3>2, <3>3, ObsWritten DEF Mine, Cols
    <3>5. obs'[File(d)][Low(d)][col[d]] = ObsOf(prod[d], "LOW")
      BY <2>3, <3>1, <3>2, <3>3, ObsWritten DEF Mine, RowAt, ModeAt
    <3>6. pc[d] = "high" => obs'[File(d)][High(d)][col[d]] = ObsOf(prod[d], "HIGH")
      BY <2>3, <3>1, <3>2, ObsWritten DEF RowAt, ModeAt
    <3> QED
      BY <2>1, <3>1, <3>2, <3>4, <3>5, <3>6 DEF Mine, Cols
  <2>4. CASE WriteRowHeader(d)
    <3>1. /\ Filing(d) /\ pc[d] # "down" /\ UNCHANGED <<obs, col, alone>>
          /\ \/ pc[d] = "lowhead" /\ pc'[d] = "highhead"
             \/ pc[d] = "highhead" /\ pc'[d] = "remove"
      BY <2>4 DEF WriteRowHeader, Goto, Filing, TInv, ProcTypes
    <3>2. Low(d) \in Rows /\ High(d) \in Rows /\ Low(d) # High(d) /\ File(d) \in Files
      BY <3>1, FilingFacts
    <3>3. Mine(d)
      BY DEF AInv
    <3>4. pc[d] = "lowhead" => rowhdr'[File(d)][Low(d)] = HeaderOf(prod[d], "LOW")
      BY <2>4, <3>1, <3>2, HeadWritten DEF RowAt, ModeAt
    <3>5. pc[d] = "highhead" => /\ rowhdr'[File(d)][High(d)] = HeaderOf(prod[d], "HIGH")
                                /\ rowhdr'[File(d)][Low(d)] = rowhdr[File(d)][Low(d)]
      BY <2>4, <3>1, <3>2, HeadWritten DEF RowAt, ModeAt
    <3> QED
      BY <2>1, <3>1, <3>3, <3>4, <3>5 DEF Mine
  <2> QED
    BY <2>2, <2>3, <2>4, ComesFirst
<1> QED
  BY <1>1, <1>2

-----------------------------------------------------------------------------
IInv == TInv /\ MInv /\ FInv /\ AInv

LEMMA IInvInit == Init => IInv
<1> SUFFICES ASSUME Init
             PROVE  IInv
  OBVIOUS
<1>1. TInv
  BY TInitInv
<1>2. \A d \in Decoders : pc[d] = "down"
  BY DEF Init
<1>3. \A f \in Files, r \in Rows : rowhdr[f][r] = NONE
  BY DEF Init, NoHeaders
<1> QED
  BY <1>1, <1>2, <1>3
  DEF IInv, MInv, OneMaker, HeaderStands, EmptyUntilOk, FInv, Filled, NoHoles, Counted,
      AInv, OneAlone, Mine, Making, Filing

LEMMA IInvStep == IInv /\ [Next]_vars => IInv'
<1> SUFFICES ASSUME IInv, [Next]_vars
             PROVE  IInv'
  OBVIOUS
<1>1. CASE UNCHANGED vars
  BY <1>1 DEF vars, disk, IInv, TInv, DiskTypes, ProcTypes, Stands, MInv, OneMaker, HeaderStands,
              EmptyUntilOk, FInv, Filled, NoHoles, Counted, AInv, OneAlone, Mine, Making, Filing,
              SameRows, File, Low, High
<1>2. CASE Next
  <2>1. PICK d \in Decoders : StepOf(d)
    BY <1>2 DEF Next, StepOf
  <2> QED
    BY <2>1, TStepInv, MStepInv, FStepInv, AloneStep, MineStep DEF IInv, AInv
<1> QED
  BY <1>1, <1>2

LEMMA SpecIInv == Spec => []IInv
<1> QED
  BY IInvInit, IInvStep, PTL DEF Spec

-----------------------------------------------------------------------------
(* The types of the MD files and the decoders; no row header counts more   *)
(* stations than there are columns.                                        *)
THEOREM ProfTypeCorrect == Spec => []TypeOK
<1>1. IInv => TypeOK
  BY DEF IInv, TInv, DiskTypes, ProcTypes, RowHeader, TypeOK
<1> QED
  BY <1>1, SpecIInv, PTL

(* A row header never counts a column that was not written, for any number *)
(* of decoders that overlap or are killed, unless two have made the file.  *)
THEOREM HeadersCountWritten == Spec => []NoHoles
<1>1. IInv => NoHoles
  BY DEF IInv, FInv
<1> QED
  BY <1>1, SpecIInv, PTL

(* A decoder that comes to its end undisturbed has filed its product in    *)
(* both rows.                                                              *)
THEOREM ProductIsFiled == Spec => []FiledIsWhole
<1>1. IInv => FiledIsWhole
  <2> SUFFICES ASSUME IInv, NEW d \in Decoders, pc[d] = "remove", alone[d]
               PROVE  /\ rowhdr[File(d)][Low(d)] = HeaderOf(prod[d], "LOW")
                      /\ Whole(File(d), Low(d))
                      /\ rowhdr[File(d)][High(d)] = HeaderOf(prod[d], "HIGH")
                      /\ Whole(File(d), High(d))
    BY DEF FiledIsWhole
  <2>1. /\ Mine(d) /\ Filing(d) /\ prod[d] \in Product /\ col[d] \in Nat
        /\ col[d] > StationCount(prod[d])
    BY FilingFacts DEF IInv, AInv, Filing, TInv, Stands, ProcTypes
  <2>2. StationCount(prod[d]) \in 0..NCols
    BY <2>1, ProductFacts
  <2>3. \A c \in 1..StationCount(prod[d]) : c \in Cols /\ c < col[d]
    BY <2>1, <2>2, ProfMdAssumption DEF Cols
  <2>4. \A m \in Modes : /\ HeaderOf(prod[d], m) # NONE
                         /\ HeaderOf(prod[d], m).count = StationCount(prod[d])
                         /\ HeaderOf(prod[d], m).mode = m
                         /\ ObsOf(HeaderOf(prod[d], m), m) = ObsOf(prod[d], m)
    BY <2>1, ProductFacts DEF HeaderOf, ObsOf
  <2>5. rowhdr[File(d)][Low(d)] = HeaderOf(prod[d], "LOW") /\ Whole(File(d), Low(d))
    BY <2>1, <2>3, <2>4 DEF Mine, Whole, Modes
  <2>6. rowhdr[File(d)][High(d)] = HeaderOf(prod[d], "HIGH") /\ Whole(File(d), High(d))
    BY <2>1, <2>3, <2>4 DEF Mine, Whole, Modes
  <2> QED
    BY <2>5, <2>6
<1> QED
  BY <1>1, SpecIInv, PTL

(* A whole row stays as it is until a decoder files the same row again. *)
THEOREM WholeRowsStay == Spec => WholeRowStays
<1>1. IInv /\ [Next]_vars => [WholeRowKept]_vars
  <2> SUFFICES ASSUME IInv, Next
               PROVE  WholeRowKept
    OBVIOUS
  <2>1. PICK d \in Decoders : StepOf(d)
    BY DEF Next, StepOf
  <2> SUFFICES ASSUME NEW f \in Files \ raced', NEW r \in Rows, Whole(f, r),
                      \A e \in Decoders : Filing(e) /\ File(e) = f => r \notin {Low(e), High(e)}
               PROVE  /\ rowhdr'[f][r] = rowhdr[f][r]
                      /\ \A c \in 1..rowhdr[f][r].count : obs'[f][r][c] = obs[f][r][c]
    BY DEF WholeRowKept
  <2>2. rowhdr[f][r] # NONE /\ f \notin raced /\ hdr[f] = "ok"
    BY <2>1, RacedGrows DEF Whole, IInv, MInv, EmptyUntilOk
  <2>3. \A c \in 1..rowhdr[f][r].count : c \in Cols
    BY <2>2, ProfMdAssumption DEF IInv, TInv, DiskTypes, RowHeader, Cols
  <2>4. CASE CreateFile(d) \/ PadFile(d)
    <3>1. f # File(d)
      BY <2>2, <2>4, FileEmptied DEF IInv, MInv, HeaderStands
    <3> QED
      BY <2>4, <3>1, FileEmptied DEF IInv
  <2>5. CASE FileLow(d) \/ FileHigh(d)
    <3>1. ~(f = File(d) /\ r = RowAt(d))
      BY <2>5 DEF FileLow, FileHigh, Filing, RowAt
    <3> QED
      BY <2>3, <2>5, <3>1, ObsWritten DEF IInv
  <2>6. CASE WriteRowHeader(d)
    <3>1. ~(f = File(d) /\ r = RowAt(d))
      BY <2>6 DEF WriteRowHeader, Filing, RowAt
    <3> QED
      BY <2>6, <3>1, HeadWritten DEF IInv
  <2> QED
    BY <2>1, <2>4, <2>5, <2>6, StepSplit
<1> QED
  BY <1>1, SpecIInv, PTL DEF Spec, WholeRowStays

(* What a killed decoder left half made is neither filled nor made again.  *)
THEOREM HalfMadeFilesStay == Spec => HalfMadeStays
<1>1. IInv /\ [Next]_vars => [HalfMadeKept]_vars
  <2> SUFFICES ASSUME IInv, Next
               PROVE  HalfMadeKept
    OBVIOUS
  <2>1. PICK d \in Decoders : StepOf(d)
    BY DEF Next, StepOf
  <2> SUFFICES ASSUME NEW f \in Files, HalfMade(f)
               PROVE  hdr'[f] = hdr[f] /\ rowhdr'[f] = rowhdr[f] /\ obs'[f] = obs[f]
    BY DEF HalfMadeKept
  <2>2. TInv /\ MInv /\ f \notin raced /\ hdr[f] = "bare"
    BY DEF IInv, HalfMade
  <2>3. Making(d) \/ Filing(d) => f # File(d)
    BY <2>2 DEF HalfMade, MInv, HeaderStands, Filing
  <2>4. hdr'[f] = hdr[f]
    BY <2>1, <2>2, <2>3, HeaderTouched DEF TInv, DiskTypes
  <2>5. CASE CreateFile(d) \/ PadFile(d)
    BY <2>2, <2>3, <2>4, <2>5, FileEmptied DEF Making
  <2>6. CASE FileLow(d) \/ FileHigh(d)
    <3>1. File(d) # f /\ File(d) \in Files /\ rowhdr' = rowhdr
      BY <2>2, <2>3, <2>6, ObsWritten DEF Filing
    <3>2. obs'[f] = obs[f]
      BY <3>1, <2>2, <2>6 DEF FileLow, FileHigh, TInv, DiskTypes
    <3> QED
      BY <3>1, <3>2, <2>4
  <2>7. CASE WriteRowHeader(d)
    <3>1. File(d) # f /\ File(d) \in Files /\ obs' = obs
      BY <2>2, <2>3, <2>7, HeadWritten DEF Filing
    <3>2. rowhdr'[f] = rowhdr[f]
      BY <3>1, <2>2, <2>7 DEF WriteRowHeader, TInv, DiskTypes
    <3> QED
      BY <3>1, <3>2, <2>4
  <2> QED
    BY <2>1, <2>4, <2>5, <2>6, <2>7, StepSplit
<1> QED
  BY <1>1, SpecIInv, PTL DEF Spec, HalfMadeStays
=============================================================================
