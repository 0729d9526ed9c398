----------------------------- MODULE GiniImage ------------------------------
(***************************************************************************)
(* The decoders of compressed GINI images, pngg2gini (decode/pngg2gini.c,  *)
(* decode/pngsubs.c) and zlibg2gini (decode/zlibg2gini.c, zlibsubs.c),     *)
(* several of them at once on the same tree of files.  Each is a process   *)
(* that the LDM starts for one image and feeds through a pipe.             *)
(*                                                                         *)
(* An image is a header, block 0, and blocks 1..Last of lines.  A PNG file *)
(* is read as libpng wants its bytes; the blocks of the other one are      *)
(* inflated from a buffer that is filled up before every block.  A line is *)
(* longer than the header, so that the count of lines ends no image early. *)
(***************************************************************************)
EXTENDS MkDirs

CONSTANTS
  Images,      (* the images                                                *)
  FileOf,      (* per image: the pathname made of its header                *)
  ProgOf,      (* per image: its decoder, "png" or "zlib"                   *)
  Last,        (* the last block of an image                                *)
  Buffered,    (* blocks that are in zlibg2gini's buffer when it is full    *)
  Failing,     (* bound: the decoders whose writes may fail                 *)
  NONE,        (* a block that was never written, or a hole                 *)
  GARBAGE      (* a block that is none of any image                         *)

ASSUME GiniAssumption ==
  /\ Images # {}
  /\ FileOf \in [Images -> Paths]
  /\ ProgOf \in [Images -> {"png", "zlib"}]
  /\ Last \in Nat \ {0}
  /\ Buffered \in Nat \ {0, 1}
  /\ Failing \subseteq Decoders
  /\ NONE \notin Images \cup Decoders /\ GARBAGE \notin Images /\ NONE # GARBAGE

Blocks == 0..Last
PCs    == {"idle", "head", "open", "write", "read", "end", "eat", "done"}
Ends   == {"running", "filed", "not filed"}

VARIABLES
  pc,          (* per process: where it is                                  *)
  image,       (* ... its image                                             *)
  got,         (* ... blocks that it has from the pipe                      *)
  n,           (* ... blocks that it has passed to write                    *)
  at,          (* ... the block that the offset of its descriptor is in:    *)
               (* n, or less if one of its writes did not write everything  *)
  eof,         (* ... the LDM has closed the pipe, and a read has said so   *)
  bad,         (* ... bytes were lost on the way                            *)
  how,         (* ... how it ended                                          *)
  file,        (* per pathname: the blocks of the file                      *)
  opener,      (* history: the last process that opened it                  *)
  clean        (* history: since then its opener's writes have all reached  *)
               (* it, and what others wrote to it was of the same image and *)
               (* at its place                                              *)

pipe  == <<got, eof, bad>>
files == <<file, opener, clean>>
vars  == <<dvars, pc, image, n, at, how, pipe, files>>

TypeOK ==
  /\ DirsTypeOK
  /\ pc \in [Decoders -> PCs]
  /\ image \in [Decoders -> Images]
  /\ got \in [Decoders -> 0..(Last + 1)]
  /\ n \in [Decoders -> 0..(Last + 1)]
  /\ at \in [Decoders -> 0..(Last + 1)]
  /\ eof \in [Decoders -> BOOLEAN]
  /\ bad \in [Decoders -> BOOLEAN]
  /\ how \in [Decoders -> Ends]
  /\ file \in [Paths -> [Blocks -> Images \cup {NONE, GARBAGE}]]
  /\ opener \in [Paths -> Decoders \cup {NONE}]
  /\ clean \in [Paths -> BOOLEAN]

Init ==
  /\ DirsInit
  /\ pc = [d \in Decoders |-> "idle"]
  /\ image = [d \in Decoders |-> CHOOSE i \in Images : TRUE]
  /\ got = [d \in Decoders |-> 0]
  /\ n = [d \in Decoders |-> 0]
  /\ at = [d \in Decoders |-> 0]
  /\ eof = [d \in Decoders |-> FALSE]
  /\ bad = [d \in Decoders |-> FALSE]
  /\ how = [d \in Decoders |-> "running"]
  /\ file = [p \in Paths |-> [b \in Blocks |-> NONE]]
  /\ opener = [p \in Paths |-> NONE]
  /\ clean = [p \in Paths |-> TRUE]

-----------------------------------------------------------------------------
Prog(d)    == ProgOf[image[d]]
Goto(d, l) == pc' = [pc EXCEPT ![d] = l]
Running    == {d \in Decoders : pc[d] \notin {"idle", "done"}}

(* d waits for more from the pipe: libpng for the next lines, getbuf for   *)
(* as much as the buffer holds.                                            *)
Wants(d) == got[d] - n[d] < IF Prog(d) = "png" THEN 1 ELSE Buffered

InRead(d) == pc[d] \in {"head", "read"} /\ Wants(d)

(* All has come that was asked for, or will ever come. *)
Ready(d) == ~Wants(d) \/ eof[d]

Cut(d) == eof[d] /\ got[d] <= Last

Ended(d, w) == Goto(d, "done") /\ how' = [how EXCEPT ![d] = w]

(* The process ends without an image, and its pipe with it. *)
Gone(d) ==
  /\ Ended(d, "not filed")
  /\ got' = [got EXCEPT ![d] = 0]
  /\ eof' = [eof EXCEPT ![d] = FALSE]
  /\ bad' = [bad EXCEPT ![d] = FALSE]

-----------------------------------------------------------------------------
(* The LDM starts a decoder, sends, and closes the pipe, perhaps early;    *)
(* what it does is seen by the next read.                                  *)

Start(d, i) ==
  /\ pc[d] = "idle"
  /\ Goto(d, "head")
  /\ image' = [image EXCEPT ![d] = i]
  /\ UNCHANGED <<dvars, n, at, how, pipe, files>>

Receive(d) ==
  /\ InRead(d) /\ ~eof[d] /\ got[d] <= Last
  /\ got' = [got EXCEPT ![d] = @ + 1]
  /\ UNCHANGED <<dvars, pc, image, n, at, how, eof, bad, files>>

ReadsEOF(d) ==
  /\ InRead(d) /\ ~eof[d]
  /\ eof' = [eof EXCEPT ![d] = TRUE]
  /\ UNCHANGED <<dvars, pc, image, n, at, how, got, bad, files>>

-----------------------------------------------------------------------------
(* The header. *)

(* It did not come, or is not that of an image: the rest is read, unused. *)
HeadRefused(d) ==
  /\ pc[d] = "head" /\ (Ready(d) \/ bad[d])
  /\ Goto(d, "eat")
  /\ UNCHANGED <<dvars, image, n, at, how, pipe, files>>

(* The file name; a header of which bytes are missing makes another one. *)
NamesFor(d) == IF bad[d] THEN Paths ELSE {FileOf[image[d]]}

(* Mutant of Opened: an old file is written over, not truncated. *)
OpenedOver(d, p) ==
  /\ opener' = [opener EXCEPT ![p] = d]
  /\ clean' = [clean EXCEPT ![p] = TRUE]
  /\ UNCHANGED file

(* O_TRUNC. *)
Opened(d, p) ==
  /\ file' = [file EXCEPT ![p] = [b \in Blocks |-> NONE]]
  /\ opener' = [opener EXCEPT ![p] = d]
  /\ clean' = [clean EXCEPT ![p] = TRUE]

OpenFirst(d, p) ==
  /\ pc[d] = "head" /\ Ready(d) /\ got[d] > 0
  /\ p \in NamesFor(d)
  /\ \/ OpenFinds(d, p) /\ Opened(d, p) /\ Goto(d, "write")
     \/ OpenMisses(d, p) /\ Goto(d, "open") /\ UNCHANGED files
     \/ Refused(d) /\ Goto(d, "eat") /\ UNCHANGED files
  /\ UNCHANGED <<image, n, at, how, pipe>>

MakeDirs(d) ==
  /\ pc[d] = "open"
  /\ MkdirMakes(d) \/ MkdirMisses(d)
  /\ UNCHANGED <<pc, image, n, at, how, pipe, files>>

OpenAgain(d) ==
  /\ pc[d] = "open"
  /\ Reopen(d) /\ Opened(d, path[d])
  /\ Goto(d, "write")
  /\ UNCHANGED <<image, n, at, how, pipe>>

OpenFails(d) ==
  /\ pc[d] = "open"
  /\ MkdirExists(d) \/ Refused(d)
  /\ Goto(d, "eat")
  /\ UNCHANGED <<image, n, at, how, pipe, files>>

-----------------------------------------------------------------------------
(* The blocks. *)

(* write has all of block n, and all before it are written. *)
WriteAll(d, b) ==
  LET p == path[d] IN
  /\ at[d] = n[d]
  /\ file' = [file EXCEPT ![p][n[d]] = b]
  /\ at' = [at EXCEPT ![d] = @ + 1]
  /\ clean' = [clean EXCEPT ![p] = @ /\ opener[p] # NONE /\ b = image[opener[p]]]

(* write fails or stops short, or has done so before.  Then the offset is  *)
(* behind: it may be within a block, and what is written there and in the  *)
(* next block is none that belongs there.                                  *)
WriteAstray(d) ==
  LET p == path[d] IN
  /\ at[d] < n[d] \/ d \in Failing
  /\ \E to \in {at[d], at[d] + 1} \cap 0..n[d] : \E end \in {to - 1, to} :
       /\ file' = [file EXCEPT ![p] =
                     [b \in Blocks |-> IF b \in at[d]..end THEN GARBAGE ELSE @[b]]]
       /\ at' = [at EXCEPT ![d] = to]
       /\ clean' = [clean EXCEPT ![p] = @ /\ opener[p] # d /\ end < at[d]]

(* Block n of the image of d, which is b, is passed to write, and nobody   *)
(* looks at what that returns.                                             *)
Write(d, b) ==
  /\ WriteAll(d, b) \/ WriteAstray(d)
  /\ n' = [n EXCEPT ![d] = @ + 1]
  /\ UNCHANGED opener

(* Mutant of More: the loop over the lines ends one too early. *)
MoreNotLast(d) == IF Prog(d) = "png" THEN n[d] + 1 < Last ELSE got[d] > n[d] + 1

(* Behind block n there is more to do: lines, or bytes in the buffer. *)
More(d) == IF Prog(d) = "png" THEN n[d] < Last ELSE got[d] > n[d] + 1

(* The header, or what the next reads bring: a row of libpng, a block that *)
(* inflate ends well.  The last row of a PNG file does not pass its        *)
(* checksum when bytes are missing.                                        *)
WriteBlock(d) ==
  /\ pc[d] = "write" \/ (pc[d] = "read" /\ Ready(d))
  /\ got[d] > n[d]
  /\ Prog(d) = "png" /\ bad[d] => n[d] < Last
  /\ Write(d, IF pc[d] = "write" /\ bad[d] THEN GARBAGE ELSE image[d])
  /\ \/ Goto(d, IF More(d) THEN "read" ELSE "end")
     \/ Cut(d) /\ Goto(d, "read")          (* part of a block is left over *)
  /\ UNCHANGED <<dvars, image, how, pipe>>

(* What libpng or inflate has for the next block is not of the image.      *)
NoBlock(d) == pc[d] = "read" /\ (bad[d] \/ (Ready(d) /\ got[d] <= n[d]))

(* A row of it may get by, and part of a block is taken for a block when   *)
(* the input ends in it.                                                   *)
WriteGarbage(d) ==
  /\ NoBlock(d)
  /\ Prog(d) = "png" => n[d] < Last
  /\ n[d] <= Last
  /\ Write(d, GARBAGE)
  /\ IF Prog(d) = "png" THEN UNCHANGED pc ELSE Goto(d, "end")
  /\ UNCHANGED <<dvars, image, how, pipe>>

(* png_error jumps back to main, which exits with status 4 at once; an     *)
(* error of inflate ends the loop, and that is all.                        *)
BlockFails(d) ==
  /\ NoBlock(d)
  /\ IF Prog(d) = "png" THEN Gone(d) ELSE Goto(d, "end") /\ UNCHANGED <<how, pipe>>
  /\ UNCHANGED <<dvars, image, n, at, files>>

-----------------------------------------------------------------------------
(* How it ends. *)

(* alarm_off, close and exit(0). *)
Finish(d) ==
  /\ pc[d] = "end"
  /\ Ended(d, "filed")
  /\ UNCHANGED <<dvars, image, n, at, pipe, files>>

(* eat_stream_and_exit has come to the end of the input, or a signal cuts  *)
(* a read of it short.                                                     *)
EatEnds(d) ==
  /\ pc[d] = "eat"
  /\ Gone(d)
  /\ UNCHANGED <<dvars, image, n, at, files>>

(* HUP, USR1 or USR2 ends a read with -1.  unidata_read_data_fn adds it to *)
(* the bytes it has, and for getbuf it takes their place: bytes are        *)
(* missing behind it; but what the first getbuf returns is not used.       *)
Interrupt(d) ==
  /\ InRead(d)
  /\ bad' = [bad EXCEPT ![d] = @ \/ Prog(d) = "png" \/ pc[d] = "read"]
  /\ UNCHANGED <<dvars, pc, image, n, at, how, got, eof, files>>

(* exit, in mkdirs_open or anywhere else. *)
Exits(d) ==
  /\ Gone(d)
  /\ IF Inside(d) THEN Killed(d) ELSE UNCHANGED dvars
  /\ UNCHANGED <<image, n, at, files>>

(* INT, TERM and PIPE. *)
Terminate(d) == d \in Running /\ Exits(d)

(* Mutant of Alarm: it is off while the rest of the input is eaten. *)
AlarmNotEating(d) == d \in Running /\ pc[d] # "eat" /\ Exits(d)

(* 60 s after the start, whatever has been read since. *)
Alarm(d) == d \in Running /\ Exits(d)

Next ==
  \E d \in Decoders :
    \/ \E i \in Images : Start(d, i)
    \/ \E p \in Paths : OpenFirst(d, p)
    \/ Receive(d) \/ ReadsEOF(d)
    \/ HeadRefused(d) \/ MakeDirs(d) \/ OpenAgain(d) \/ OpenFails(d)
    \/ WriteBlock(d) \/ WriteGarbage(d) \/ BlockFails(d) \/ Finish(d)
    \/ EatEnds(d) \/ Interrupt(d) \/ Terminate(d) \/ Alarm(d)

Spec == Init /\ [][Next]_vars

(* Time passes. *)
AlarmComes(d) == WF_vars(Alarm(d))

Fairness == \A d \in Decoders : AlarmComes(d)

FairSpec == Spec /\ Fairness

-----------------------------------------------------------------------------
(* What a file holds that one image was written to since it was truncated: *)
(* blocks of that image at their places and nothing older, without a gap   *)
(* as far as the last that opened it has come, if none of its writes has   *)
(* failed.  An earlier one that decodes the same image may still write to  *)
(* it: it writes at its own places, unless a write of it has failed, now   *)
(* or before the file was opened again.                                    *)
FileOfOneImage ==
  \A p \in Paths : clean[p] /\ opener[p] # NONE =>
    LET d == opener[p] IN
    \A b \in Blocks :
      /\ file[p][b] \in {NONE, image[d]}
      /\ b < n[d] => file[p][b] = image[d]

(* A decoder that says it has filed an image has: all of it is there,      *)
(* unless another has opened the file since or spoilt it (with another     *)
(* image, or with lines out of place), or a write failed.  For pngg2gini   *)
(* whatever came through the pipe; for zlibg2gini only if all did.         *)
FiledIsWhole ==
  \A d \in Decoders :
    /\ how[d] = "filed" /\ opener[path[d]] = d /\ clean[path[d]]
    /\ Prog(d) = "zlib" => ~bad[d] /\ got[d] > Last
    => \A b \in Blocks : file[path[d]][b] = image[d]

(* A decoder ends, even if its feed goes silent for ever, before or after  *)
(* it has given the image up.                                              *)
EveryDecoderEnds == \A d \in Decoders : d \in Running ~> pc[d] = "done"
=============================================================================
