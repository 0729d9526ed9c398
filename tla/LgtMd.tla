------------------------------- MODULE LgtMd -------------------------------
(***************************************************************************)
(* lgt2md: the lightning decoder (decode/decode_lgt.c).                    *)
(*                                                                         *)
(* A decoder process reads flashes from standard input and appends them to *)
(* the MD file of the flash's day.  An MD file is a matrix of NRows rows of*)
(* NCols slots; every row has a row header whose CMAX word says how many   *)
(* of its slots hold data.  Slots are written at once, CMAX only when the  *)
(* row is full, when the day changes and when the input ends, so that a    *)
(* reader sees a prefix of what was filed.  The next decoder process finds *)
(* the place to continue by scanning the row headers.                      *)
(*                                                                         *)
(* One decoder runs at a time; it may be killed between any two writes.    *)
(***************************************************************************)
EXTENDS Integers

CONSTANTS
  NRows,         (* rows of an MD file                  (4000, SCHEMA NLDN 4) *)
  NCols,         (* slots of a row                                     (1000) *)
  NRKeys,        (* words of a row header                                 (3) *)
  NDKeys,        (* words of a slot                                       (5) *)
  Decade,        (* MD files in rotation: the last digit of the day      (10) *)
  Days,          (* the days (CCYYDDD) flashes carry                          *)
  MaxFlash,      (* bound: flashes the feed delivers                          *)
  NONE, JUNK,    (* a slot never written; one overwritten by a row header     *)
  CrashMayHappen,   (* the process may be killed                              *)
  CreateMayFail,    (* the SCHEMA file or the output directory may be missing *)
  WriteMayFail      (* a slot may not reach the file (disk full)              *)

Flash == [id : 1..MaxFlash, day : Days]

ASSUME LgtMdAssumption ==
  /\ NRows \in Nat \ {0} /\ NCols \in Nat \ {0}
  /\ NRKeys \in Nat \ {0} /\ NDKeys \in Nat \ {0}
  /\ Decade \in Nat \ {0}
  /\ Days \subseteq Nat
  /\ MaxFlash \in Nat
  /\ NONE # JUNK /\ NONE \notin Flash /\ JUNK \notin Flash
  /\ {CrashMayHappen, CreateMayFail, WriteMayFail} \subseteq BOOLEAN

Files == 1..Decade
Rows  == 1..NRows
Cols  == 1..NCols

(* The missing data code, as a CMAX that no column number equals. *)
MISS == -1

(* A word of flash data read where a row header is expected; as a CMAX it  *)
(* is a longitude in 1/10000 degree, far above any column number.          *)
DataWord == NCols + 1

VARIABLES
  hdr,      (* per file: "absent", "bare" (made, header not written), "ok" *)
  hday,     (* per file: the day in header word 15                         *)
  cmax,     (* per file and row: the CMAX word of the row header           *)
  slots,    (* per file, row and column: the flash in the slot             *)
  torn,     (* files with a row header written over their first slots       *)
  pc,       (* where the decoder process is; "down" when there is none     *)
  mdfile,   (* static mdfile: the file flashes go to, 0 before the first   *)
  row, col, (* static row, col: the last slot used                         *)
  rec,      (* static record[2]: the CMAX to put into the row header       *)
  nflash,   (* static nflash: flashes in the file                          *)
  mdfp,     (* the global stream mdfp: "NULL" or "open"                    *)
  head,     (* what mdhead holds: "valid" dimensions or "none"             *)
  cur,      (* the flash being filed                                       *)
  nread,    (* flashes the feed has delivered, over all processes          *)
  filed,    (* history: what this process has filed, and where             *)
  aborted   (* history: the files this process has logged "Aborting!" for  *)

disk    == <<hdr, hday, cmax, slots, torn>>
place   == <<mdfile, row, col, rec, nflash>>
stream  == <<mdfp, head>>
history == <<filed, aborted>>
vars    == <<disk, pc, place, stream, cur, nread, history>>

PCs == {"down", "ready", "closeday", "open", "create", "header", "append", "commit"}

(* Types of the MD files, the decoder's statics and the histories; columns *)
(* and rows are never negative, although a row header may say MISS.        *)
TypeOK ==
  /\ hdr \in [Files -> {"absent", "bare", "ok"}]
  /\ hday \in [Files -> Days \cup {0}]
  /\ cmax \in [Files -> [Rows -> Int]]
  /\ slots \in [Files -> [Rows -> [Cols -> Flash \cup {NONE, JUNK}]]]
  /\ torn \subseteq Files
  /\ pc \in PCs
  /\ mdfile \in Files \cup {0}
  /\ row \in Nat /\ col \in Nat /\ rec \in Int /\ nflash \in Nat
  /\ mdfp \in {"NULL", "open"} /\ head \in {"none", "valid"}
  /\ cur \in Flash \cup {NONE}
  /\ nread \in 0..MaxFlash
  /\ filed \subseteq [file : Files, row : Nat, col : Nat, flash : Flash]
  /\ aborted \subseteq Files

Init ==
  /\ hdr   = [f \in Files |-> "absent"]
  /\ hday  = [f \in Files |-> 0]
  /\ cmax  = [f \in Files |-> [r \in Rows |-> MISS]]
  /\ slots = [f \in Files |-> [r \in Rows |-> [c \in Cols |-> NONE]]]
  /\ torn  = {}
  /\ pc = "down"
  /\ mdfile = 0 /\ row = 0 /\ col = 0 /\ rec = 0 /\ nflash = 0
  /\ mdfp = "NULL" /\ head = "none"
  /\ cur = NONE
  /\ nread = 0
  /\ filed = {} /\ aborted = {}

-----------------------------------------------------------------------------
(* The layout of an MD file and the place of the next flash.               *)

(* The MD file of a day: the last digit of the day, 10 for a zero. *)
FileOf(day) == IF day % Decade = 0 THEN Decade ELSE day % Decade

(* Some word of the header of row r > NRows lies over a word of the slot   *)
(* (q, c): the data section follows the headers of the NRows rows.         *)
HeaderHits(r, q, c) ==
  LET first == (r - NRows - 1) * NRKeys
      slot  == ((q - 1) * NCols + (c - 1)) * NDKeys
  IN  slot < first + NRKeys /\ first < slot + NDKeys

(* The scan of the row headers stops at the first row that is not full. *)
HasRoom(f) == \E r \in Rows : cmax[f][r] # NCols
StopsAt(f, r) == /\ cmax[f][r] # NCols
                 /\ \A q \in 1..(r-1) : cmax[f][q] = NCols

(* Mutants of ScannedCol: the missing code taken for a column, a column    *)
(* too many, the row header not looked at.                                 *)
ScannedColRaw(v) == v
ScannedColAhead(v) == IF v # MISS THEN v + 1 ELSE 1
ScannedColForgotten(v) == 0

(* The column the last row header gives; none has been used if it is missing. *)
ScannedCol(v) == IF v # MISS THEN v ELSE 0

(* The next slot passes the check against the dimensions of mdhead.        *)
RoomLeft == head = "valid" /\ (col < NCols \/ row < NRows)
NextRow  == IF col < NCols THEN row ELSE row + 1
NextCol  == IF col < NCols THEN col + 1 ELSE 1

(* The stream and the header that update_row_header depends on.            *)
Usable == mdfp = "open" /\ head = "valid"

(* update_row_header: CMAX of the current row becomes rec; past the last   *)
(* row the words go over flash data.                                       *)
UpdateRowHeader ==
  IF row \in Rows
  THEN /\ cmax' = [cmax EXCEPT ![mdfile][row] = rec]
       /\ UNCHANGED <<slots, torn>>
  ELSE /\ slots' = [slots EXCEPT ![mdfile] =
                      [q \in Rows |-> [c \in Cols |->
                         IF HeaderHits(row, q, c) THEN JUNK ELSE @[q][c]]]]
       /\ torn' = torn \cup {mdfile}
       /\ UNCHANGED cmax

(* The process ends: its statics are gone. *)
ProcessGone ==
  /\ pc' = "down"
  /\ mdfile' = 0 /\ row' = 0 /\ col' = 0 /\ rec' = 0 /\ nflash' = 0
  /\ mdfp' = "NULL" /\ head' = "none"
  /\ cur' = NONE
  /\ aborted' = {}

-----------------------------------------------------------------------------
(* LDM starts a decoder for a product. *)
StartDecoder ==
  /\ pc = "down"
  /\ pc' = "ready"
  /\ filed' = {}
  /\ UNCHANGED <<disk, place, stream, cur, nread, aborted>>

(* decode_nldn or decode_uspln returns a flash and write_mcidas begins. *)
ReceiveFlash(day) ==
  /\ pc = "ready"
  /\ nread < MaxFlash
  /\ nread' = nread + 1
  /\ cur' = [id |-> nread + 1, day |-> day]
  /\ \/ mdfile = FileOf(day) /\ pc' = "append"
     \/ mdfile # FileOf(day) /\ mdfile # 0 /\ pc' = "closeday"
     \/ mdfile = 0 /\ pc' = "open"
  /\ UNCHANGED <<disk, place, stream, history>>

(* The day changes: the row header of the old file is written.  With a     *)
(* header of missing codes in mdhead the write reaches nothing.            *)
CloseDay ==
  /\ pc = "closeday"
  /\ mdfp = "open"
  /\ \/ head = "valid" /\ UpdateRowHeader
     \/ head = "none" /\ UNCHANGED <<cmax, slots, torn>>
  /\ pc' = "open"
  /\ UNCHANGED <<hdr, hday, place, stream, cur, nread, history>>

(* Mutant of OpenMissing: the count of the last file goes on. *)
OpenMissingKeepsCount ==
  LET f == FileOf(cur.day) IN
  /\ pc = "open"
  /\ hdr[f] = "absent"
  /\ mdfile' = f
  /\ mdfp' = "NULL"
  /\ pc' = "create"
  /\ UNCHANGED <<disk, row, col, rec, nflash, head, cur, nread, history>>

(* The dummy open finds no file. *)
OpenMissing ==
  LET f == FileOf(cur.day) IN
  /\ pc = "open"
  /\ hdr[f] = "absent"
  /\ mdfile' = f /\ nflash' = 0
  /\ mdfp' = "NULL"
  /\ pc' = "create"
  /\ UNCHANGED <<disk, row, col, rec, head, cur, nread, history>>

(* The file exists: its header is read and the row headers are scanned for *)
(* the first row that is not full.  In a file without room the scan runs   *)
(* into flash data; once a row header lies over that data it reads words   *)
(* of any value.                                                           *)
OpenExisting ==
  LET f == FileOf(cur.day) IN
  /\ pc = "open"
  /\ hdr[f] = "ok"
  /\ mdfile' = f
  /\ mdfp' = "open" /\ head' = "valid"
  /\ \/ \E r \in Rows :
          /\ StopsAt(f, r)
          /\ row' = r
          /\ rec' = cmax[f][r] /\ col' = ScannedCol(cmax[f][r])
     \/ /\ ~HasRoom(f) /\ f \notin torn
        /\ row' = NRows + 1
        /\ rec' = DataWord /\ col' = DataWord
     \/ /\ ~HasRoom(f) /\ f \in torn
        /\ row' \in {NRows + 1, NRows + 2}
        /\ rec' \in (0..DataWord) \ {NCols} /\ col' = rec'
  /\ nflash' = (row' - 1) * NCols + col'
  /\ pc' = "append"
  /\ UNCHANGED <<disk, cur, nread, history>>

(* The file exists but the decoder that made it was killed before the      *)
(* header: mdhead becomes missing codes, no row header can be read and     *)
(* record keeps what the last file left in it.  A full row left there      *)
(* never lets the scan end: the process stays in it until it is killed.    *)
OpenBare ==
  LET f == FileOf(cur.day) IN
  /\ pc = "open"
  /\ hdr[f] = "bare"
  /\ \/ /\ rec # NCols
        /\ mdfile' = f
        /\ mdfp' = "open" /\ head' = "none"
        /\ row' = 1 /\ col' = rec /\ nflash' = rec
        /\ pc' = "append"
        /\ UNCHANGED <<rec, cur, history>>
     \/ rec = NCols /\ ProcessGone /\ filed' = {}
  /\ UNCHANGED <<disk, nread>>

(* make_md_file returns an error: no SCHEMA entry, or, with mdhead already *)
(* filled in, no output file.  The flash is dropped.                       *)
CreateFails ==
  /\ pc = "create"
  /\ CreateMayFail
  /\ head' \in {head, "valid"}
  /\ pc' = "ready"
  /\ UNCHANGED <<disk, place, mdfp, cur, nread, history>>

(* make_md_file opens the file and pads it with the missing code ... *)
CreateFile ==
  /\ pc = "create"
  /\ mdfp' = "open" /\ head' = "valid"
  /\ hdr'  = [hdr EXCEPT ![mdfile] = "bare"]
  /\ cmax' = [cmax EXCEPT ![mdfile] = [r \in Rows |-> MISS]]
  /\ pc' = "header"
  /\ UNCHANGED <<hday, slots, torn, place, cur, nread, history>>

(* ... and writes the header last. *)
WriteHeader ==
  /\ pc = "header"
  /\ hdr'  = [hdr EXCEPT ![mdfile] = "ok"]
  /\ hday' = [hday EXCEPT ![mdfile] = cur.day]
  /\ row' = 1 /\ col' = 0
  /\ pc' = "append"
  /\ UNCHANGED <<cmax, slots, torn, mdfile, rec, nflash, stream, cur, nread, history>>

(* No room: "Aborting!" is logged and -1 returned, which decode_lgt does   *)
(* not look at; row and col have moved.                                    *)
Overflow ==
  /\ pc = "append"
  /\ ~RoomLeft
  /\ col' = col + 1 /\ row' = row + 1
  /\ aborted' = aborted \cup {mdfile}
  /\ pc' = "ready"
  /\ UNCHANGED <<disk, mdfile, rec, nflash, stream, cur, nread, filed>>

(* The flash goes into the next slot; beyond the last row the slot is      *)
(* outside the matrix and no slot changes.                                 *)
FileObservation ==
  /\ pc = "append"
  /\ RoomLeft /\ mdfp = "open"
  /\ row' = NextRow /\ col' = NextCol
  /\ rec' = NextCol
  /\ \/ /\ slots' = IF NextRow \in Rows
                     THEN [slots EXCEPT ![mdfile][NextRow][NextCol] = cur] ELSE slots
        /\ nflash' = nflash + 1
        /\ filed' = filed \cup {[file |-> mdfile, row |-> NextRow, col |-> NextCol,
                                 flash |-> cur]}
     \/ /\ WriteMayFail
        /\ nflash' \in {nflash, nflash + 1}
        /\ UNCHANGED <<slots, filed>>
  /\ pc' = IF NextCol = NCols THEN "commit" ELSE "ready"
  /\ UNCHANGED <<hdr, hday, cmax, torn, mdfile, stream, cur, nread, aborted>>

(* Mutant of CommitFullRow: the row header is left for later. *)
CommitFullRowLater ==
  /\ pc = "commit"
  /\ pc' = "ready"
  /\ UNCHANGED <<disk, place, stream, cur, nread, history>>

(* The row is full: its header is written. *)
CommitFullRow ==
  /\ pc = "commit"
  /\ UpdateRowHeader
  /\ pc' = "ready"
  /\ UNCHANGED <<hdr, hday, place, stream, cur, nread, history>>

(* Mutant of Exit: the last row header is not written. *)
ExitUnwritten ==
  /\ pc = "ready"
  /\ ProcessGone
  /\ UNCHANGED <<disk, nread, filed>>

(* End of input (or 60 s without data): the EXIT call, then exit(0). *)
Exit ==
  /\ pc = "ready"
  /\ \/ nflash > 0 /\ Usable /\ UpdateRowHeader
     \/ nflash > 0 /\ mdfp = "open" /\ head = "none" /\ UNCHANGED <<cmax, slots, torn>>
     \/ nflash = 0 /\ UNCHANGED <<cmax, slots, torn>>
  /\ ProcessGone
  /\ UNCHANGED <<hdr, hday, nread, filed>>

(* A write through a NULL stream, or of a row header whose size is a       *)
(* missing code, ends the process.                                         *)
StreamFault ==
  /\ \/ pc = "append" /\ RoomLeft /\ mdfp = "NULL"
     \/ pc = "closeday" /\ ~Usable
     \/ pc = "ready" /\ nflash > 0 /\ ~Usable
  /\ ProcessGone /\ filed' = {}
  /\ UNCHANGED <<disk, nread>>

(* The process is killed. *)
Crash ==
  /\ CrashMayHappen
  /\ pc # "down"
  /\ ProcessGone /\ filed' = {}
  /\ UNCHANGED <<disk, nread>>

-----------------------------------------------------------------------------
Next ==
  \/ StartDecoder
  \/ \E day \in Days : ReceiveFlash(day)
  \/ CloseDay
  \/ OpenMissing
  \/ OpenExisting
  \/ OpenBare
  \/ CreateFails
  \/ CreateFile
  \/ WriteHeader
  \/ Overflow
  \/ FileObservation
  \/ CommitFullRow
  \/ Exit
  \/ StreamFault
  \/ Crash

Spec == Init /\ [][Next]_vars

(* What the process does next, by the part of write_mcidas it is in. *)
Opens   == CloseDay \/ OpenMissing \/ OpenExisting \/ OpenBare
Creates == CreateFails \/ CreateFile \/ WriteHeader
Writes  == Overflow \/ FileObservation \/ CommitFullRow

(* An input is finite and LDM closes the pipe behind it (PIPE -close); if  *)
(* it does not, the 60 s alarm ends the read.  The process itself is       *)
(* scheduled, and LDM starts one while there is something to decode.       *)
Fairness ==
  /\ WF_vars(StartDecoder)
  /\ WF_vars(\E day \in Days : ReceiveFlash(day))
  /\ WF_vars(Opens)
  /\ WF_vars(Creates)
  /\ WF_vars(Writes)
  /\ WF_vars(Exit)
  /\ WF_vars(StreamFault)

FairSpec == Spec /\ Fairness

-----------------------------------------------------------------------------
(* What a reader of file f sees: the slots that the row headers cover.     *)
Covered(f, r, c) == c <= cmax[f][r]

(* The file has been filled: every row header says NCols. *)
Full(f) == ~HasRoom(f)

(* Rows fill in order: a row header says something only if all rows before *)
(* it are full.  The scan in write_mcidas relies on it to find the place   *)
(* to continue (decode_lgt.c:815-825).                                     *)
RowsFillInOrder ==
  \A f \in Files : \A r \in Rows :
    cmax[f][r] # MISS => \A q \in 1..(r-1) : cmax[f][q] = NCols

(* Every slot that a row header covers has been written, whatever the      *)
(* order of kills, day changes and restarts, as long as writes reach the   *)
(* disk (decode_lgt.c:903-911: "update the row header if successful").     *)
NoHoles ==
  \A f \in Files : \A r \in Rows : \A c \in Cols :
    Covered(f, r, c) => slots[f][r][c] # NONE

(* A covered slot of a file that is not full never changes and never stops *)
(* being covered: no restart or return to an earlier day goes over flashes *)
(* that readers have seen (decode_lgt.c:810-848).                          *)
CoveredSlotsKept ==
  \A f \in Files : \A r \in Rows : \A c \in Cols :
    Covered(f, r, c) /\ ~Full(f) =>
      Covered(f, r, c)' /\ slots'[f][r][c] = slots[f][r][c]
CoveredSlotsStay == [][CoveredSlotsKept]_vars

(* After a decoder has ended by itself, every flash it filed in the matrix *)
(* is visible, unless a row header written past the last row hit its slot  *)
(* (the EXIT call, decode_lgt.c:744-751, and the day change, 761-767).     *)
Visible(x) ==
  /\ Covered(x.file, x.row, x.col)
  /\ slots[x.file][x.row][x.col] \in {x.flash, JUNK}
CleanExitPublishes ==
  pc = "down" => \A x \in filed : x.row <= NRows => Visible(x)

(* The count that decode_lgt logs as "flash records in MD file" is the     *)
(* number of slots in use, whatever part of them earlier processes filed   *)
(* (decode_lgt.c:812-825, 905-908).                                        *)
CountIsSlotsInUse ==
  pc = "ready" /\ Usable /\ row \in Rows => nflash = (row - 1) * NCols + col

(* The readers' view, as a log per file. *)
LogLength(f) ==
  IF Full(f) THEN NRows * NCols
  ELSE LET r == CHOOSE q \in Rows : StopsAt(f, q)
       IN  (r - 1) * NCols + (IF cmax[f][r] = MISS THEN 0 ELSE cmax[f][r])
Entry(f, i) == slots[f][((i - 1) \div NCols) + 1][((i - 1) % NCols) + 1]
Log == INSTANCE LightningLog WITH
         Capacity <- NRows * NCols,
         log <- [f \in Files |-> [i \in 1..LogLength(f) |-> Entry(f, i)]]

(* The decoder implements the readers' log: batches appear at the end, in  *)
(* the order of arrival, and stay, until the file is full                  *)
(* (write_mcidas, decode_lgt.c:711-914, over any number of processes).     *)
ImplementsLog == Log!Spec

(* A flash that was filed becomes visible: no row header is left unwritten *)
(* when the process can run to the end of its input, even if some writes   *)
(* fail (decode_lgt.c:93-117, 744-751).                                    *)
FiledIsPublished ==
  \A n \in 1..MaxFlash :
    (\E x \in filed : x.flash.id = n /\ x.row <= NRows)
      ~> (\E f \in Files : \E r \in Rows : \E c \in Cols :
            /\ Covered(f, r, c)
            /\ slots[f][r][c] # NONE
            /\ (slots[f][r][c] = JUNK \/ slots[f][r][c].id = n))

(* "Output row %ld exceeds #rows allowed in MD file %d.  Aborting!": once  *)
(* that is logged the process does not write to the file again             *)
(* (decode_lgt.c:842-845).                                                 *)
AbortedFileUntouched ==
  [][\A f \in aborted : slots'[f] = slots[f] /\ cmax'[f] = cmax[f]]_vars

=============================================================================
