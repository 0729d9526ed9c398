------------------------------- MODULE ProfMd -------------------------------
(***************************************************************************)
(* proftomd: the wind profiler decoder (decode/proftomd.c, decode_ncprof.c *)
(* and write_mcidas of decode/cdfsubs.c).                                  *)
(*                                                                         *)
(* A decoder process is started for one product, a netCDF file with the    *)
(* stations' observations of one time.  It files them in two rows of the   *)
(* day's MD file, one for the low and one for the high mode of the radar,  *)
(* a column per station, and writes the two row headers last.  The MD file *)
(* is opened anew for each write and made when it is not there.  LDM may   *)
(* run decoders of several products at a time (PIPE -close), products may  *)
(* come again, and a decoder may be killed between any two writes.         *)
(***************************************************************************)
EXTENDS Integers

CONSTANTS
  Decoders,      (* decoder processes that may run at the same time         *)
  NRows, NCols,  (* rows and columns of an MD file         (WPR6: 480, 50)  *)
  Decade,        (* MD files in rotation: the last digit of the day    (10) *)
  Days,          (* the days products are of                                *)
  Times,         (* the times of day: records with hour and minute          *)
  Hour, Step,    (* minutes of an hour and of a profile             (60, 6) *)
  Interval,      (* minutes between products                      (6 or 60) *)
  MaxStations,   (* stations in a product                                   *)
  MaxProd,       (* bound: decoders started                                 *)
  NONE           (* missing                                                 *)

Product == [day : Days, time : Times, n : 1..MaxStations]
Modes   == {"LOW", "HIGH"}
Header  == [day : Days, time : Times, mode : Modes, count : Nat]
Obs     == [day : Days, time : Times, mode : Modes]

ASSUME ProfMdAssumption ==
  /\ NRows \in Nat \ {0} /\ NCols \in Nat \ {0} /\ Decade \in Nat \ {0}
  /\ Days \subseteq Nat
  /\ Times \subseteq [hour : Nat, minute : Nat]
  /\ Hour \in Nat \ {0} /\ Step \in Nat \ {0} /\ Interval \in 1..Hour
  /\ MaxStations \in Nat /\ MaxProd \in Nat
  /\ NONE \notin Header \cup Obs \cup Product

Files == 1..Decade
Rows  == 1..NRows
Cols  == 1..NCols

VARIABLES
  hdr,      (* per file: "absent", "bare" (made, header not written), "ok"  *)
  rowhdr,   (* per file and row: the row header                             *)
  obs,      (* per file, row and column: the observation                    *)
  pc,       (* per decoder; "down" when it does not run                     *)
  prod,     (* per decoder: its product                                     *)
  col,      (* per decoder: the column of the station it is at              *)
  nprod,    (* decoders started                                             *)
  alone,    (* history, per decoder: nobody else has written to its rows    *)
            (* or made its file anew since it began to file                 *)
  raced     (* history: files that two decoders found missing               *)

disk == <<hdr, rowhdr, obs>>
vars == <<disk, pc, prod, col, nprod, alone, raced>>

PCs == {"down", "open", "create", "pad", "header",
        "low", "high", "lowhead", "highhead", "remove"}

(* Types of the MD files and the decoders; a row header never counts more  *)
(* stations than there are columns.                                        *)
TypeOK ==
  /\ hdr \in [Files -> {"absent", "bare", "ok"}]
  /\ \A f \in Files, r \in Rows :
       rowhdr[f][r] # NONE => rowhdr[f][r] \in Header /\ rowhdr[f][r].count \in 0..NCols
  /\ \A f \in Files, r \in Rows, c \in Cols : obs[f][r][c] \in Obs \cup {NONE}
  /\ pc \in [Decoders -> PCs]
  /\ prod \in [Decoders -> Product \cup {NONE}]
  /\ col \in [Decoders -> 1..(MaxStations + 1)]
  /\ nprod \in 0..MaxProd
  /\ alone \in [Decoders -> BOOLEAN]
  /\ raced \subseteq Files

NoHeaders == [r \in Rows |-> NONE]
NoObs     == [r \in Rows |-> [c \in Cols |-> NONE]]

Init ==
  /\ hdr    = [f \in Files |-> "absent"]
  /\ rowhdr = [f \in Files |-> NoHeaders]
  /\ obs    = [f \in Files |-> NoObs]
  /\ pc     = [d \in Decoders |-> "down"]
  /\ prod   = [d \in Decoders |-> NONE]
  /\ col    = [d \in Decoders |-> 1]
  /\ nprod  = 0
  /\ alone  = [d \in Decoders |-> FALSE]
  /\ raced  = {}

-----------------------------------------------------------------------------
(* The MD file of a day: the last digit of the day, 10 for a zero. *)
FileOf(day) == IF day % Decade = 0 THEN Decade ELSE day % Decade
File(d) == FileOf(prod[d].day)

(* Mutant of LowRow: the rows of one mode follow each other. *)
LowRowSingle(time) == time.hour * (Hour \div Interval) + time.minute \div Step + 1

(* The row of the low mode; that of the high mode is the next. *)
LowRow(time) == 2 * (time.hour * (Hour \div Interval) + time.minute \div Step) + 1

Low(d)  == LowRow(prod[d].time)
High(d) == Low(d) + 1

(* Mutant of StationCount: stations beyond the last column are counted. *)
StationCountAll(p) == p.n

(* Stations that fit into the row; the others are skipped. *)
StationCount(p) == IF p.n < NCols THEN p.n ELSE NCols

(* The row header of a mode. *)
HeaderOf(p, mode) == [day |-> p.day, time |-> p.time, mode |-> mode, count |-> StationCount(p)]

(* The observation of a station: its day, time and mode. *)
ObsOf(p, mode) == [day |-> p.day, time |-> p.time, mode |-> mode]

Goto(d, where) == pc' = [pc EXCEPT ![d] = where]

(* The decoder is at work on its rows, or has just finished them. *)
Filing(d) == pc[d] \in {"low", "high", "lowhead", "highhead", "remove"}

(* The decoder is making its file. *)
Making(d) == pc[d] \in {"create", "pad", "header"}

SameRows(d, e) == File(d) = File(e) /\ Low(d) = Low(e)

(* The process ends. *)
Gone(d) ==
  /\ Goto(d, "down")
  /\ prod' = [prod EXCEPT ![d] = NONE]
  /\ col' = [col EXCEPT ![d] = 1]
  /\ alone' = [alone EXCEPT ![d] = FALSE]

-----------------------------------------------------------------------------
(* LDM starts a decoder; it copies the product to a temporary file and     *)
(* reads the stations from there.                                          *)
Start(d, p) ==
  /\ pc[d] = "down"
  /\ nprod < MaxProd
  /\ nprod' = nprod + 1
  /\ prod' = [prod EXCEPT ![d] = p]
  /\ Goto(d, "open")
  /\ UNCHANGED <<disk, col, alone, raced>>

(* decode_ncprof gives nothing: a variable is missing, or no station. *)
DecodeFails(d) ==
  /\ pc[d] = "open"
  /\ Gone(d)
  /\ UNCHANGED <<disk, nprod, raced>>

(* Mutant of OpenMissing: the file is made each time. *)
OpenMissingAlways(d) ==
  /\ pc[d] = "open"
  /\ Goto(d, "create")
  /\ raced' = raced \cup {f \in Files : \E e \in Decoders \ {d} :
                             Making(e) /\ f = File(e) /\ f = File(d)}
  /\ UNCHANGED <<disk, prod, col, nprod, alone>>

(* The dummy open finds no file. *)
OpenMissing(d) ==
  /\ pc[d] = "open"
  /\ hdr[File(d)] = "absent"
  /\ Goto(d, "create")
  /\ raced' = raced \cup {f \in Files : \E e \in Decoders \ {d} :
                             Making(e) /\ f = File(e) /\ f = File(d)}
  /\ UNCHANGED <<disk, prod, col, nprod, alone>>

(* The row is in the file; from here on the decoder writes to its rows. *)
BeginFiling(d) ==
  /\ Low(d) < NRows
  /\ alone' = [e \in Decoders |->
                 IF e = d
                 THEN \A x \in Decoders \ {d} : Filing(x) => ~SameRows(x, d)
                 ELSE alone[e] /\ ~(Filing(e) /\ SameRows(e, d))]
  /\ Goto(d, "low")

(* Mutant of OpenExisting: the rows are not taken from the file's header. *)
OpenExistingBare(d) ==
  /\ pc[d] = "open"
  /\ hdr[File(d)] # "absent"
  /\ BeginFiling(d)
  /\ UNCHANGED <<disk, prod, col, nprod, raced>>

(* The file is there and its header is read. *)
OpenExisting(d) ==
  /\ pc[d] = "open"
  /\ hdr[File(d)] = "ok"
  /\ BeginFiling(d)
  /\ UNCHANGED <<disk, prod, col, nprod, raced>>

(* "Aborting!": the row is not in the file, or the header read is of a     *)
(* file that is still being made and says nothing of rows; or the file     *)
(* cannot be made.                                                         *)
Abort(d) ==
  /\ \/ pc[d] = "open" /\ hdr[File(d)] = "ok" /\ Low(d) >= NRows
     \/ pc[d] = "open" /\ hdr[File(d)] = "bare"
     \/ pc[d] = "create"
  /\ Gone(d)
  /\ UNCHANGED <<disk, nprod, raced>>

(* What other decoders have in file f is gone. *)
Emptied(d, f) ==
  /\ rowhdr' = [rowhdr EXCEPT ![f] = NoHeaders]
  /\ obs' = [obs EXCEPT ![f] = NoObs]
  /\ alone' = [e \in Decoders |-> alone[e] /\ ~(e # d /\ Filing(e) /\ File(e) = f)]

(* make_md_file: the file is made, or emptied if another decoder has made  *)
(* it in the meantime, ...                                                 *)
CreateFile(d) ==
  /\ pc[d] = "create"
  /\ hdr' = [hdr EXCEPT ![File(d)] = "bare"]
  /\ Emptied(d, File(d))
  /\ Goto(d, "pad")
  /\ UNCHANGED <<prod, col, nprod, raced>>

(* ... filled with the missing code from its beginning to its end, ... *)
PadFile(d) ==
  /\ pc[d] = "pad"
  /\ hdr' = [hdr EXCEPT ![File(d)] = "bare"]
  /\ Emptied(d, File(d))
  /\ Goto(d, "header")
  /\ UNCHANGED <<prod, col, nprod, raced>>

(* ... and gets its header. *)
WriteHeader(d) ==
  /\ pc[d] = "header"
  /\ hdr' = [hdr EXCEPT ![File(d)] = "ok"]
  /\ IF Low(d) < NRows THEN BeginFiling(d) /\ UNCHANGED <<prod, col>> ELSE Gone(d)
  /\ UNCHANGED <<rowhdr, obs, nprod, raced>>

(* Mutants of NextColumn: the first column is left out. *)
NextColumnAhead(d) == IF col[d] < NCols THEN col[d] + 1 ELSE col[d]

(* The column a station is filed in. *)
NextColumn(d) == col[d]

(* The station's low mode is filed, ... *)
FileLow(d) ==
  /\ pc[d] = "low"
  /\ obs' = [obs EXCEPT ![File(d)][Low(d)][NextColumn(d)] =
               ObsOf(prod[d], "LOW")]
  /\ Goto(d, "high")
  /\ UNCHANGED <<hdr, rowhdr, prod, col, nprod, alone, raced>>

(* ... then its high mode; the loop ends with the last station that fits. *)
FileHigh(d) ==
  /\ pc[d] = "high"
  /\ obs' = [obs EXCEPT ![File(d)][High(d)][NextColumn(d)] =
               ObsOf(prod[d], "HIGH")]
  /\ col' = [col EXCEPT ![d] = col[d] + 1]
  /\ Goto(d, IF col[d] < prod[d].n /\ col[d] < NCols THEN "low" ELSE "lowhead")
  /\ UNCHANGED <<hdr, rowhdr, prod, nprod, alone, raced>>

(* update_row_header for the low row and for the high row. *)
WriteRowHeader(d) ==
  /\ \/ /\ pc[d] = "lowhead"
        /\ rowhdr' = [rowhdr EXCEPT ![File(d)][Low(d)] = HeaderOf(prod[d], "LOW")]
        /\ Goto(d, "highhead")
     \/ /\ pc[d] = "highhead"
        /\ rowhdr' = [rowhdr EXCEPT ![File(d)][High(d)] = HeaderOf(prod[d], "HIGH")]
        /\ Goto(d, "remove")
  /\ UNCHANGED <<hdr, obs, prod, col, nprod, alone, raced>>

(* The temporary file is removed and the process ends. *)
Exit(d) ==
  /\ pc[d] = "remove"
  /\ Gone(d)
  /\ UNCHANGED <<disk, nprod, raced>>

(* The decoder is killed. *)
Crash(d) ==
  /\ pc[d] # "down"
  /\ Gone(d)
  /\ UNCHANGED <<disk, nprod, raced>>

-----------------------------------------------------------------------------
Next ==
  \E d \in Decoders :
    \/ \E p \in Product : Start(d, p)
    \/ DecodeFails(d)
    \/ OpenMissing(d)
    \/ OpenExisting(d)
    \/ Abort(d)
    \/ CreateFile(d)
    \/ PadFile(d)
    \/ WriteHeader(d)
    \/ FileLow(d)
    \/ FileHigh(d)
    \/ WriteRowHeader(d)
    \/ Exit(d)
    \/ Crash(d)

Spec == Init /\ [][Next]_vars

-----------------------------------------------------------------------------
(* What a reader sees of row r: the columns that its header counts. *)
Counted(f, r, c) == rowhdr[f][r] # NONE /\ c <= rowhdr[f][r].count

(* The counted columns of a row hold observations of the day, time and     *)
(* mode its header gives.                                                  *)
Whole(f, r) ==
  /\ rowhdr[f][r] # NONE
  /\ \A c \in 1..rowhdr[f][r].count :
       obs[f][r][c] = ObsOf(rowhdr[f][r], rowhdr[f][r].mode)

(* A row header counts only columns that have been written, however        *)
(* decoders overlap and wherever they are killed, unless two of them have  *)
(* made the file (cdfsubs.c:395-413).                                      *)
NoHoles ==
  \A f \in Files \ raced : \A r \in Rows, c \in Cols :
    Counted(f, r, c) => obs[f][r][c] # NONE

(* A decoder that comes to its end has filed its product in both rows,     *)
(* over whatever killed decoders and the product of ten days ago had left  *)
(* there, and beside decoders that file other times (cdfsubs.c:185-205,    *)
(* 395-413).                                                               *)
FiledIsWhole ==
  \A d \in Decoders : pc[d] = "remove" /\ alone[d] =>
    /\ rowhdr[File(d)][Low(d)] = HeaderOf(prod[d], "LOW") /\ Whole(File(d), Low(d))
    /\ rowhdr[File(d)][High(d)] = HeaderOf(prod[d], "HIGH") /\ Whole(File(d), High(d))

(* A whole row stays as it is until a decoder files the same row again: no *)
(* product of another time, no new process and no kill takes it away,      *)
(* unless two decoders have made the file (cdfsubs.c:185-221).             *)
WholeRowKept ==
  \A f \in Files \ raced' : \A r \in Rows :
    Whole(f, r) /\ (\A d \in Decoders : Filing(d) /\ File(d) = f => r \notin {Low(d), High(d)})
      => /\ rowhdr'[f][r] = rowhdr[f][r]
         /\ \A c \in 1..rowhdr[f][r].count : obs'[f][r][c] = obs[f][r][c]
WholeRowStays == [][WholeRowKept]_vars

(* A decoder that is killed, or cannot go on, while it makes a file leaves *)
(* it half made: there, and without a header.  It stays that way.  Nobody  *)
(* takes it for a file and files a product in it, to be lost when somebody *)
(* makes it again, and nobody makes it again either: all products of that  *)
(* day are aborted (cdfsubs.c:195-221, 608-624).                           *)
HalfMade(f) ==
  hdr[f] = "bare" /\ f \notin raced /\ \A d \in Decoders : Making(d) => File(d) # f
HalfMadeKept ==
  \A f \in Files : HalfMade(f) =>
    hdr'[f] = hdr[f] /\ rowhdr'[f] = rowhdr[f] /\ obs'[f] = obs[f]
HalfMadeStays == [][HalfMadeKept]_vars
=============================================================================
