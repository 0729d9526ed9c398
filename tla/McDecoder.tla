----------------------------- MODULE McDecoder ------------------------------
(***************************************************************************)
(* A decoder of the McIDAS packet stream: main (decode/main.c) with the    *)
(* McIDAS function it was linked with.  lwfile (decode/lwfile.c) copies    *)
(* the data of the product to a file; the others (lwtoa3, lwtmd2, gunrv2)  *)
(* run code of the McIDAS library, which takes the product packet by       *)
(* packet with GETREC and asks for the descriptors of its files with       *)
(* LWOPEN.                                                                 *)
(*                                                                         *)
(* Every read sets the alarm.  A read ends without data when the LDM       *)
(* closes the pipe, when the alarm goes off, and when any other signal     *)
(* with a handler that returns (HUP, USR1, USR2) comes in.                 *)
(***************************************************************************)
EXTENDS McStream, LwCache, FiniteSets

VARIABLES
  prog,        (* the program: "lwfile" or "records"                        *)
  pc,          (* where it is                                               *)
  armed,       (* the alarm is set                                          *)
  closed,      (* the LDM has closed the pipe                               *)
  out,         (* lwfile: the data put into the output file                 *)
  whole,       (* lwfile: every byte put into the file has reached it       *)
  filed,       (* lwfile: the status FSHRTE is called with, 0 if not called *)
  recs         (* records: the packets McIDAS was given                     *)

process == <<prog, pc, armed, closed>>
output  == <<out, whole, filed, recs>>
vars    == <<feed, reader, lw, process, output>>

PCs == {"header", "command", "copy", "close", "records", "drain", "done"}

(* Types of the feed, the reader, the file table and the process. *)
TypeOK ==
  /\ StreamTypeOK
  /\ LwTypeOK
  /\ prog \in {"lwfile", "records"}
  /\ pc \in PCs
  /\ armed \in BOOLEAN /\ closed \in BOOLEAN /\ whole \in BOOLEAN
  /\ out \in Seq(Units)
  /\ filed \in {-2, -1, 0, 1}
  /\ recs \in Seq([code : RoutingCodes, data : Seq(Units)])

Init ==
  /\ StreamInit
  /\ LwInit
  /\ prog \in {"lwfile", "records"}
  /\ pc = "header"
  /\ armed = TRUE            (* main reads at once *)
  /\ closed = FALSE
  /\ out = <<>> /\ whole = TRUE /\ filed = 0
  /\ recs = <<>>

(* What McIDAS has for a packet that could not be read. *)
MadeUpTrailer == [code |-> TRAILER_PKT, data |-> <<>>]

(* Mutant of GivenAtEnd: the packet as far as it was read. *)
GivenAtEndAsRead == [code |-> rcode, data |-> buf]

(* What c_getrec gives at the end of the input. *)
GivenAtEnd == MadeUpTrailer

(* The checksum of the header has been read, so that p_mcfilbuf skips its  *)
(* reading the first time.                                                 *)
CopyStart == "start"

(* Mutant of IsData: what getpacket returns is only looked at for EOF. *)
IsDataAny == TRUE

(* The packet whose head was read is one of data. *)
IsData == rcode = DATA_PKT

(* Mutant of Copied: the last byte of a packet is lost. *)
CopiedNotLast(v) == IF cnt = 1 THEN out ELSE Append(out, v)

(* The output file with one more byte. *)
Copied(v) == Append(out, v)

Goto(where) == pc' = where

-----------------------------------------------------------------------------
(* The feed. *)

(* The next unit comes to a process that waits in mcgetchar; the alarm is  *)
(* set anew with the next read.                                            *)
Receive(v) == ~closed /\ Send(v) /\ armed' = TRUE

(* The LDM closes the pipe, at the end of the product or anywhere in it. *)
ClosePipe ==
  /\ ~closed /\ closed' = TRUE
  /\ UNCHANGED <<feed, reader, lw, prog, pc, armed, output>>

-----------------------------------------------------------------------------
(* main: the header packet. *)

ReadHeader(v) ==
  /\ pc = "header"
  /\ Receive(v)
  /\ GetStart(v) \/ GetCode(v) \/ GetLength(v, PacketSizes) \/ GetData(v)
  /\ UNCHANGED <<pc, prog, closed, lw, output>>

(* With the checksum the packet is whole; mcmain is run if it is a header. *)
HeaderRead(v) ==
  /\ pc = "header"
  /\ Receive(v)
  /\ GetSum
  /\ Goto(IF rcode = HEADER_PKT THEN "command" ELSE "done")
  /\ UNCHANGED <<prog, closed, lw, output>>

HeaderInvalid(v) ==
  /\ pc = "header"
  /\ Receive(v)
  /\ Invalid(v, PacketSizes)
  /\ Goto("done")
  /\ UNCHANGED <<reader, prog, closed, lw, output>>

(* The McIDAS function starts. lwfile: the output file is open and empty. *)
Begin ==
  /\ pc = "command"
  /\ IF prog = "lwfile" THEN Goto("copy") /\ at' = CopyStart ELSE Goto("records") /\ at' = "start"
  /\ UNCHANGED <<feed, rcode, cnt, buf, lw, prog, armed, closed, output>>

(* lwfile: no name for the file, or the routing table says no; or the file *)
(* cannot be opened, which FSHRTE is told.                                 *)
NotFiled ==
  /\ pc = "command" /\ prog = "lwfile"
  /\ Goto("drain")
  /\ filed' \in {0, -2}
  /\ UNCHANGED <<feed, reader, lw, prog, armed, closed, out, whole, recs>>

-----------------------------------------------------------------------------
(* lwfile: mc_datacopy. *)

(* The head and the checksum of a DATA packet. *)
CopyFrame(v) ==
  /\ pc = "copy"
  /\ Receive(v)
  /\ \/ GetStart(v) \/ GetCode(v) \/ GetSum
     \/ GetLength(v, DataSizes) /\ IsData
  /\ UNCHANGED <<pc, prog, closed, lw, output>>

(* A byte of data goes to the file. *)
CopyData(v) ==
  /\ pc = "copy"
  /\ Receive(v)
  /\ GetData(v)
  /\ out' = Copied(v)
  /\ UNCHANGED <<pc, prog, closed, lw, whole, filed, recs>>

(* Not a packet, or not one of data: EOF or EOP ends the copy. *)
CopyEnds(v) ==
  /\ pc = "copy"
  /\ Receive(v)
  /\ \/ Invalid(v, DataSizes) /\ UNCHANGED reader
     \/ GetLength(v, DataSizes) /\ ~IsData
  /\ Goto("close")
  /\ UNCHANGED <<prog, closed, lw, output>>

(* A byte cannot be put into the file: the copy ends there. *)
CopyFails(v) ==
  /\ pc = "copy"
  /\ Receive(v)
  /\ GetData(v)
  /\ whole' = FALSE
  /\ Goto("close")
  /\ UNCHANGED <<prog, closed, lw, out, filed, recs>>

(* fclose, and FSHRTE when the product has an entry: mc_datacopy never     *)
(* returns a negative count, so that the status is success unless fclose   *)
(* fails.                                                                  *)
CloseFile ==
  /\ pc = "close"
  /\ \/ filed' \in {0, 1} /\ UNCHANGED whole
     \/ filed' \in {0, -1} /\ whole' = FALSE
  /\ Goto("drain")
  /\ UNCHANGED <<feed, reader, lw, prog, armed, closed, out, recs>>

-----------------------------------------------------------------------------
(* The McIDAS library: GETREC until there is a trailer. *)

ReadRecord(v) ==
  /\ pc = "records"
  /\ Receive(v)
  /\ GetStart(v) \/ GetCode(v) \/ GetLength(v, PacketSizes) \/ GetData(v)
  /\ UNCHANGED <<pc, prog, closed, lw, output>>

GiveRecord(rec) ==
  /\ recs' = Append(recs, rec)
  /\ Goto(IF rec.code = TRAILER_PKT THEN "drain" ELSE "records")
  /\ UNCHANGED <<prog, closed, lw, out, whole, filed>>

RecordRead(v) ==
  /\ pc = "records"
  /\ Receive(v)
  /\ GetSum
  /\ GiveRecord([code |-> rcode, data |-> buf])

RecordInvalid(v) ==
  /\ pc = "records"
  /\ Receive(v)
  /\ Invalid(v, PacketSizes)
  /\ UNCHANGED reader
  /\ GiveRecord(GivenAtEnd)

(* Between two packets McIDAS asks for descriptors. *)
UseFile(n, d) ==
  /\ pc = "records" /\ at = "start"
  /\ LwOpen(n, d)
  /\ UNCHANGED <<feed, reader, process, output>>

-----------------------------------------------------------------------------
(* A read ends without data.                                               *)
(* header: main gives up with status 1.  copy: the end of the copy.        *)
(* records: a trailer is made up.  drain: the rest has been read.          *)
EndOfInput ==
  \/ pc \in {"header", "drain"} /\ Goto("done") /\ UNCHANGED <<prog, closed, lw, output>>
  \/ pc = "copy" /\ Goto("close") /\ UNCHANGED <<prog, closed, lw, output>>
  \/ pc = "records" /\ GiveRecord(GivenAtEnd)

(* Mutant of PipeEnds: the rest is read until there is an error. *)
PipeEndsNotDrained == closed /\ pc # "drain" /\ EndOfInput /\ UNCHANGED <<feed, reader, armed>>

(* The LDM has closed the pipe, and all of it was read. *)
PipeEnds == closed /\ EndOfInput /\ UNCHANGED <<feed, reader, armed>>

(* Mutant of Alarm: the handler restarts the read. *)
AlarmRestarts == armed /\ pc \in {"header", "copy", "records", "drain"} /\ armed' = FALSE
                   /\ UNCHANGED <<feed, reader, lw, prog, pc, closed, output>>

(* No data for 600 s since the last read of the packet reader. *)
Alarm == armed /\ EndOfInput /\ armed' = FALSE /\ UNCHANGED <<feed, reader>>

(* Any other signal with a handler that returns, and no restart. *)
Interrupt == EndOfInput /\ UNCHANGED <<feed, reader, armed>>

(* SIGINT, SIGTERM or SIGPIPE: exit. *)
Terminate ==
  /\ pc # "done" /\ Goto("done")
  /\ UNCHANGED <<feed, reader, lw, prog, armed, closed, output>>

Decode ==
  \/ \E v \in Units :
       \/ ReadHeader(v) \/ HeaderRead(v) \/ HeaderInvalid(v)
       \/ CopyFrame(v) \/ CopyData(v) \/ CopyEnds(v) \/ CopyFails(v)
       \/ ReadRecord(v) \/ RecordRead(v) \/ RecordInvalid(v)
  \/ Begin \/ NotFiled \/ CloseFile

Next ==
  \/ Decode \/ ClosePipe \/ PipeEnds \/ Alarm \/ Interrupt \/ Terminate
  \/ \E n \in Names, d \in FDs \cup {FAILED} : UseFile(n, d)

Spec == Init /\ [][Next]_vars

(* The process runs when it can, the alarm goes off, and the end of the    *)
(* input is seen.  Nothing is assumed of the LDM or of signals.            *)
Fairness ==
  /\ WF_vars(Begin \/ NotFiled \/ CloseFile)
  /\ WF_vars(PipeEnds)
  /\ WF_vars(Alarm)

FairSpec == Spec /\ Fairness

-----------------------------------------------------------------------------
(* The file of lwfile holds the data of the product from its first byte    *)
(* on, and nothing else: no head, checksum or trailer of a packet, and no  *)
(* noise, wherever the feed breaks off.                                    *)
FileIsText ==
  /\ Len(out) <= Len(text)
  /\ \A i \in 1..Len(out) : out[i] = text[i]

(* If lwfile has come to the trailer of the product, its file holds all of *)
(* the product unless a write or the close failed.                         *)
WholeAtTrailer ==
  /\ prog = "lwfile" /\ pc \in {"close", "drain", "done"} /\ whole
  /\ packet.code = TRAILER_PKT /\ part \in {"data", "sum", "end"}
  => out = text

(* McIDAS is given the packets of the product behind the header, whole and *)
(* in order, and then one trailer, real or made up, and nothing behind it. *)
RecordsAreThePackets ==
  /\ \A i \in 1..Len(recs) :
       recs[i].code # TRAILER_PKT => i + 1 <= Len(packets) /\ recs[i] = packets[i + 1]
  /\ \A i \in 1..(Len(recs) - 1) : recs[i].code # TRAILER_PKT
  /\ prog = "records" /\ pc = "drain" => recs # <<>> /\ recs[Len(recs)].code = TRAILER_PKT

(* The decoder comes to the end of the product, and files it, even if the  *)
(* feed goes silent in the middle of it.                                   *)
ProductEnds == <>(pc \in {"drain", "done"})

(* When the LDM closes the pipe, the process ends. *)
ClosedEnds == closed ~> pc = "done"

(* A process that is fed by an LDM and never sees the end of the product   *)
(* comes to an end by the alarm (mc_proto.c:32-37).                        *)
SilentFeedEnds == <>(pc = "done")
=============================================================================
