------------------------------ MODULE McStream ------------------------------
(***************************************************************************)
(* The McIDAS packet stream, and how decode/mc_proto.c reads it: getpkt    *)
(* takes a packet whole, p_mcfilbuf with getpacket goes from the data of   *)
(* one DATA packet to that of the next.                                    *)
(*                                                                         *)
(* A packet is a start byte, a routing code, the length of the packet, its *)
(* data, and a checksum that nobody looks at.  The feed hands out a unit   *)
(* at a time: a byte, or the two bytes of the length.  What a unit means   *)
(* is decided by the reader alone, from the part it thinks it is at.       *)
(***************************************************************************)
EXTENDS Integers, Sequences

CONSTANTS
  DataBytes,   (* bytes that occur as data and as checksums                 *)
  DataAt(_),   (* those of them that may be the i-th byte of data              *)
  SentKinds,   (* routing codes that occur in the feed                      *)
  NoiseUnits,  (* what a feed sends that has lost its framing               *)
  MaxData,     (* bound: bytes of data in a packet                    (762) *)
  MaxPackets   (* bound: packets before the trailer                         *)

HEADER_PKT     == 0
TRAILER_PKT    == 1
A_KEYIN_PKT    == 16
DATA_PKT       == 32
MAX_MC_PKTSIZE == 767
Overhead       == 5       (* the bytes of a packet that are not data *)

Kinds == {HEADER_PKT, TRAILER_PKT, A_KEYIN_PKT, DATA_PKT}

ASSUME McStreamAssumption ==
  /\ DataBytes \subseteq 0..255
  /\ SentKinds \subseteq Kinds
  /\ NoiseUnits \subseteq Nat
  /\ MaxData \in 0..(MAX_MC_PKTSIZE - Overhead)
  /\ MaxPackets \in Nat

StartBytes   == 240..247
RoutingCodes == 0..50
Parts        == {"start", "code", "length", "data", "sum"}
Packet       == [code : Kinds, data : Seq(DataBytes)]
Units        == {240} \cup SentKinds \cup {TRAILER_PKT} \cup Overhead..(Overhead + MaxData)
                  \cup DataBytes \cup NoiseUnits    (* what the feed can send *)

VARIABLES
  part,      (* feed: the part that comes next                              *)
  packet,    (* ... the packet it is of, as far as it was sent              *)
  left,      (* ... the number of its data bytes to come                    *)
  packets,   (* history: the packets sent whole                             *)
  text,      (* history: the data of the DATA packets sent                  *)
  at,        (* reader: the part it takes the next unit for                 *)
  rcode,     (* ... the routing code of its packet                          *)
  cnt,       (* ... the number of data bytes it has not read                *)
  buf        (* ... the data it has read of it                              *)

feed   == <<part, packet, left, packets, text>>
reader == <<at, rcode, cnt, buf>>

StreamTypeOK ==
  /\ part \in Parts \cup {"noise", "end"}
  /\ packet \in Packet
  /\ left \in 0..MaxData
  /\ packets \in Seq(Packet)
  /\ text \in Seq(DataBytes)
  /\ at \in Parts
  /\ rcode \in RoutingCodes
  /\ cnt \in 0..(MAX_MC_PKTSIZE - Overhead)
  /\ buf \in Seq(Units)

StreamInit ==
  /\ part = "start" /\ packet = [code |-> HEADER_PKT, data |-> <<>>] /\ left = 0
  /\ packets = <<>> /\ text = <<>>
  /\ at = "start" /\ rcode = HEADER_PKT /\ cnt = 0 /\ buf = <<>>

-----------------------------------------------------------------------------
(* The feed.  Each action sends the unit v. *)

SendStart(v) ==
  /\ part = "start" /\ v = 240
  /\ part' = "code"
  /\ packet' = [code |-> HEADER_PKT, data |-> <<>>]
  /\ UNCHANGED <<left, packets, text>>

(* The code of the packet: after enough packets only the trailer. *)
SendCode(v) ==
  /\ part = "code"
  /\ v \in IF Len(packets) < MaxPackets THEN SentKinds ELSE {TRAILER_PKT}
  /\ part' = "length"
  /\ packet' = [packet EXCEPT !.code = v]
  /\ UNCHANGED <<left, packets, text>>

SendLength(v) ==
  /\ part = "length"
  /\ v \in Overhead..(Overhead + MaxData)
  /\ left' = v - Overhead
  /\ part' = IF left' > 0 THEN "data" ELSE "sum"
  /\ UNCHANGED <<packet, packets, text>>

SendData(v) ==
  /\ part = "data" /\ v \in DataBytes \cap DataAt(Len(text) + Len(packet.data))
  /\ left' = left - 1
  /\ part' = IF left' > 0 THEN "data" ELSE "sum"
  /\ packet' = [packet EXCEPT !.data = Append(@, v)]
  /\ text' = IF packet.code = DATA_PKT THEN Append(text, v) ELSE text
  /\ UNCHANGED packets

SendSum(v) ==
  /\ part = "sum" /\ v \in DataBytes \cap DataAt(0)
  /\ part' = IF packet.code = TRAILER_PKT THEN "end" ELSE "start"
  /\ packets' = Append(packets, packet)
  /\ UNCHANGED <<packet, left, text>>

(* The feed loses its framing in the head of a packet, and sends anything. *)
SendNoise(v) ==
  /\ v \in NoiseUnits
  /\ \/ part = "noise"
     \/ part = "start" /\ v \notin StartBytes
     \/ part = "code" /\ v \notin RoutingCodes
     \/ part = "length" /\ v \notin Overhead..MAX_MC_PKTSIZE
  /\ part' = "noise"
  /\ UNCHANGED <<packet, left, packets, text>>

Send(v) == \/ SendStart(v) \/ SendCode(v) \/ SendLength(v)
           \/ SendData(v) \/ SendSum(v) \/ SendNoise(v)

-----------------------------------------------------------------------------
(* The reader.  Each action takes the unit v; sizes are the lengths that   *)
(* the caller accepts.                                                     *)

(* What getpkt accepts, and what getpacket does: not without data. *)
PacketSizes == Overhead..MAX_MC_PKTSIZE
DataSizes   == (Overhead + 1)..MAX_MC_PKTSIZE

(* With n bytes of data to come, the part that is next. *)
AfterHead(n) == IF n > 0 THEN "data" ELSE "sum"

(* Mutant of AfterData: the count is looked at after it is used up. *)
AfterDataLate(n) == IF n >= 0 THEN "data" ELSE "sum"

(* The same behind a byte of data: the checksum is read before the next    *)
(* packet, since the count is used up.                                     *)
AfterData(n) == IF n > 0 THEN "data" ELSE "sum"

GetStart(v) ==
  /\ at = "start" /\ v \in StartBytes
  /\ at' = "code" /\ buf' = <<>>
  /\ UNCHANGED <<rcode, cnt>>

GetCode(v) ==
  /\ at = "code" /\ v \in RoutingCodes
  /\ at' = "length" /\ rcode' = v
  /\ UNCHANGED <<cnt, buf>>

GetLength(v, sizes) ==
  /\ at = "length" /\ v \in sizes
  /\ cnt' = v - Overhead
  /\ at' = AfterHead(v - Overhead)
  /\ UNCHANGED <<rcode, buf>>

GetData(v) ==
  /\ at = "data"
  /\ cnt' = cnt - 1
  /\ at' = AfterData(cnt - 1)
  /\ buf' = Append(buf, v)
  /\ UNCHANGED rcode

GetSum ==
  /\ at = "sum"
  /\ at' = "start"
  /\ UNCHANGED <<rcode, cnt, buf>>

(* The head of the packet is not one: the reader says EOF. *)
Invalid(v, sizes) ==
  \/ at = "start" /\ v \notin StartBytes
  \/ at = "code" /\ v \notin RoutingCodes
  \/ at = "length" /\ v \notin sizes
=============================================================================
