--------------------------- MODULE McDecoderProofs --------------------------
(***************************************************************************)
(* Theorems about the decoders of the McIDAS packet stream, for packets of *)
(* any length, any number of them, any routing codes in the feed, and any  *)
(* number of LW files.                                                     *)
(*                                                                         *)
(* The argument is lockstep: as long as a packet reader reads, the part it *)
(* takes the next unit for is the part that the feed is about to send, and *)
(* what it keeps of the packet is what was sent of it.  It can only lose   *)
(* step by a unit that is no head of a packet, and then it stops reading.  *)
(***************************************************************************)
EXTENDS McDecoder, LwCacheProofs

Reading == pc \in {"header", "command", "copy", "records"}

(* The reader is where the feed is. *)
Sync ==
  /\ part = at
  /\ at # "start" => buf = packet.data
  /\ at \in {"length", "data", "sum"} => rcode = packet.code
  /\ at = "data" => cnt = left /\ cnt > 0

InStep == Reading => Sync

(* The kind of packet that the part is of. *)
FeedKnown ==
  /\ part = "code" => packet.code = HEADER_PKT /\ packet.data = <<>>
  /\ part = "length" => packet.data = <<>>
  /\ part = "data" => left > 0

WhoIsWhere ==
  /\ pc \in {"copy", "close"} => prog = "lwfile"
  /\ pc = "records" => prog = "records"
  /\ pc = "copy" /\ at \in {"data", "sum"} => rcode = DATA_PKT

(* Nothing but the header packet has been sent. *)
Heading ==
  /\ pc = "header" => /\ packets = <<>>
                      /\ text # <<>> => packet.code = DATA_PKT /\ part \in {"data", "sum"}
  /\ pc = "command" => Len(packets) = 1 /\ text = <<>> /\ at = "start"
  /\ pc \in {"header", "command"} => out = <<>> /\ recs = <<>>

OutIsText ==
  /\ pc = "copy" => out = text
  /\ prog = "lwfile" /\ whole /\ packet.code = TRAILER_PKT => out = text
  /\ prog = "records" => out = <<>>

RecsInStep ==
  /\ pc = "records" => /\ Len(packets) = Len(recs) + 1
                       /\ \A i \in 1..Len(recs) : recs[i].code # TRAILER_PKT
  /\ prog = "lwfile" => recs = <<>>

StreamInv == /\ StreamTypeOK /\ InStep /\ FeedKnown /\ WhoIsWhere /\ Heading
             /\ OutIsText /\ RecsInStep /\ FileIsText /\ RecordsAreThePackets

ProcessTypeOK ==
  /\ prog \in {"lwfile", "records"}
  /\ pc \in PCs
  /\ armed \in BOOLEAN /\ closed \in BOOLEAN /\ whole \in BOOLEAN
  /\ out \in Seq(Units)
  /\ filed \in {-2, -1, 0, 1}
  /\ recs \in Seq([code : RoutingCodes, data : Seq(Units)])

IInv == LwInv /\ ProcessTypeOK /\ StreamInv

-----------------------------------------------------------------------------
(* Feed and reader. *)

LEMMA UnitFacts ==
  /\ Kinds \subseteq RoutingCodes /\ SentKinds \subseteq Kinds
  /\ DataBytes \subseteq Units
  /\ MaxData \in Nat /\ MaxData <= MAX_MC_PKTSIZE - Overhead
BY McStreamAssumption DEF Kinds, RoutingCodes, Units, HEADER_PKT, TRAILER_PKT, A_KEYIN_PKT,
                          DATA_PKT, MAX_MC_PKTSIZE, Overhead

LEMMA StreamInitInv == StreamInit => StreamTypeOK
BY UnitFacts DEF StreamInit, StreamTypeOK, Parts, Packet, Kinds, RoutingCodes, HEADER_PKT,
                 MAX_MC_PKTSIZE, Overhead

(* What the feed sends keeps its types. *)
LEMMA SendTypes ==
  ASSUME StreamTypeOK, FeedKnown, NEW v, Send(v)
  PROVE  /\ part' \in Parts \cup {"noise", "end"}
         /\ packet' \in Packet
         /\ left' \in 0..MaxData
         /\ packets' \in Seq(Packet)
         /\ text' \in Seq(DataBytes)
         /\ FeedKnown'
<1> USE DEF StreamTypeOK
<1>1. CASE SendStart(v)
  BY <1>1 DEF SendStart, Parts, Packet, Kinds, HEADER_PKT, FeedKnown
<1>2. CASE SendCode(v)
  <2>1. v \in Kinds
    BY <1>2, UnitFacts DEF SendCode, Kinds
  <2> QED
    BY <2>1, <1>2 DEF SendCode, Parts, Packet, FeedKnown
<1>3. CASE SendLength(v)
  BY <1>3, UnitFacts DEF SendLength, Parts, Overhead, FeedKnown
<1>4. CASE SendData(v)
  <2>1. v \in DataBytes /\ left > 0
    BY <1>4 DEF SendData, FeedKnown
  <2>2. packet' \in Packet /\ text' \in Seq(DataBytes)
    <3>1. packet.data \in Seq(DataBytes) /\ packet.code \in Kinds
      BY DEF Packet
    <3>2. Append(packet.data, v) \in Seq(DataBytes) /\ Append(text, v) \in Seq(DataBytes)
      BY <2>1, <3>1
    <3>3. packet' = [code |-> packet.code, data |-> Append(packet.data, v)]
      BY <1>4 DEF SendData, Packet
    <3>4. text' = text \/ text' = Append(text, v)
      BY <1>4 DEF SendData
    <3> QED
      BY <3>1, <3>2, <3>3, <3>4 DEF Packet
  <2> QED
    BY <2>1, <2>2, <1>4, UnitFacts DEF SendData, Parts, FeedKnown
<1>5. CASE SendSum(v)
  BY <1>5 DEF SendSum, Parts, FeedKnown
<1>6. CASE SendNoise(v)
  BY <1>6 DEF SendNoise, FeedKnown
<1> QED
  BY <1>1, <1>2, <1>3, <1>4, <1>5, <1>6 DEF Send

(* What the reader takes for a part of a packet was sent as that part. *)
LEMMA LockStep ==
  ASSUME Sync, NEW v, Send(v)
  PROVE  /\ GetStart(v) => SendStart(v)
         /\ GetCode(v) => SendCode(v)
         /\ GetLength(v, PacketSizes) => SendLength(v)
         /\ GetLength(v, DataSizes) => SendLength(v)
         /\ GetData(v) => SendData(v)
         /\ GetSum => SendSum(v)
BY DEF Sync, Send, GetStart, GetCode, GetLength, GetData, GetSum, SendStart, SendCode,
       SendLength, SendData, SendSum, SendNoise, StartBytes, PacketSizes, DataSizes,
       MAX_MC_PKTSIZE, Overhead

(* A part that is not the last keeps them in step. *)
LEMMA FrameStep ==
  ASSUME StreamTypeOK, FeedKnown, Sync, NEW v, Send(v),
         \/ GetStart(v) \/ GetCode(v) \/ GetData(v)
         \/ GetLength(v, PacketSizes) \/ GetLength(v, DataSizes)
  PROVE  /\ StreamTypeOK' /\ FeedKnown' /\ Sync' /\ packets' = packets
         /\ at # "data" => text' = text
         /\ at = "data" => /\ text' = (IF rcode = DATA_PKT THEN Append(text, v) ELSE text)
                           /\ packet'.code = packet.code /\ rcode' = rcode
                           /\ part' \in {"data", "sum"}
<1> USE DEF StreamTypeOK
<1>1. CASE GetStart(v)
  <2>1. SendStart(v)
    BY <1>1, LockStep
  <2> QED
    BY <1>1, <2>1, SendTypes DEF GetStart, SendStart, Sync, Parts
<1>2. CASE GetCode(v)
  <2>1. SendCode(v)
    BY <1>2, LockStep
  <2> QED
    BY <1>2, <2>1, SendTypes DEF GetCode, SendCode, Sync, Parts, FeedKnown, Packet
<1>3. CASE GetLength(v, PacketSizes) \/ GetLength(v, DataSizes)
  <2>1. SendLength(v)
    BY <1>3, LockStep
  <2>2. /\ at = "length" /\ v \in PacketSizes
        /\ cnt' = v - Overhead /\ at' = AfterHead(v - Overhead)
        /\ UNCHANGED <<rcode, buf>>
    BY <1>3 DEF GetLength, PacketSizes, DataSizes, MAX_MC_PKTSIZE, Overhead
  <2>3. cnt' \in 0..(MAX_MC_PKTSIZE - Overhead)
    BY <2>2 DEF PacketSizes, MAX_MC_PKTSIZE, Overhead
  <2>4. Sync'
    BY <2>1, <2>2 DEF SendLength, Sync, AfterHead, FeedKnown, PacketSizes, MAX_MC_PKTSIZE, Overhead
  <2>5. at' \in Parts
    BY <2>2 DEF AfterHead, Parts
  <2> QED
    BY <2>1, <2>2, <2>3, <2>4, <2>5, SendTypes DEF SendLength
<1>4. CASE GetData(v)
  <2>1. SendData(v)
    BY <1>4, LockStep
  <2>2. at = "data" /\ cnt = left /\ cnt > 0 /\ rcode = packet.code /\ buf = packet.data
    BY <1>4 DEF GetData, Sync
  <2>3. packet'.code = packet.code /\ packet'.data = Append(packet.data, v)
    BY <2>1 DEF SendData, Packet
  <2>4. v \in Units
    BY <2>1, UnitFacts DEF SendData
  <2>5. Sync'
    BY <2>1, <2>2, <2>3, <1>4 DEF GetData, SendData, Sync, AfterData
  <2>6. cnt' \in 0..(MAX_MC_PKTSIZE - Overhead) /\ at' \in Parts
    BY <2>2, <1>4 DEF GetData, AfterData, Parts, MAX_MC_PKTSIZE, Overhead
  <2>7. part' \in {"data", "sum"}
    BY <2>1 DEF SendData
  <2>8. buf' \in Seq(Units) /\ rcode' = rcode
    BY <2>4, <1>4 DEF GetData
  <2>9. StreamTypeOK' /\ FeedKnown'
    BY <2>6, <2>8, SendTypes
  <2>10. packets' = packets /\ text' = (IF rcode = DATA_PKT THEN Append(text, v) ELSE text)
    BY <2>1, <2>2 DEF SendData
  <2> QED
    BY <2>2, <2>3, <2>5, <2>7, <2>8, <2>9, <2>10
<1> QED
  BY <1>1, <1>2, <1>3, <1>4

(* With its checksum the packet that the reader has is the one sent. *)
LEMMA SumStep ==
  ASSUME StreamTypeOK, FeedKnown, Sync, NEW v, Send(v), GetSum
  PROVE  /\ StreamTypeOK' /\ FeedKnown'
         /\ [code |-> rcode, data |-> buf] = packet
         /\ packets' = Append(packets, packet) /\ text' = text /\ packet' = packet
         /\ at' = "start" /\ rcode' = rcode
         /\ part' = (IF packet.code = TRAILER_PKT THEN "end" ELSE "start")
<1>1. SendSum(v)
  BY LockStep
<1>2. [code |-> rcode, data |-> buf] = packet
  BY DEF GetSum, Sync, StreamTypeOK, Packet
<1> QED
  BY <1>1, <1>2, SendTypes DEF GetSum, SendSum, StreamTypeOK, Parts

(* What is no head of a packet ends none. *)
LEMMA InvalidStep ==
  ASSUME StreamTypeOK, FeedKnown, Sync, NEW v, Send(v), UNCHANGED reader,
         Invalid(v, PacketSizes) \/ Invalid(v, DataSizes)
  PROVE  /\ StreamTypeOK' /\ FeedKnown' /\ packets' = packets /\ text' = text
<1>1. part \in {"start", "code", "length"}
  BY DEF Invalid, Sync
<1>2. packets' = packets /\ text' = text
  BY <1>1 DEF Send, SendStart, SendCode, SendLength, SendData, SendSum, SendNoise
<1> QED
  BY <1>2, SendTypes DEF StreamTypeOK, reader
-----------------------------------------------------------------------------
(* The files and the records, when the histories of the feed grow. *)

LEMMA TextGrows ==
  ASSUME StreamTypeOK, out \in Seq(Units), FileIsText, NEW v,
         text' = text \/ text' = Append(text, v), text' \in Seq(DataBytes),
         out' = out \/ (out = text /\ out' = text')
  PROVE  FileIsText'
<1>1. CASE out' = text'
  BY <1>1 DEF FileIsText, StreamTypeOK
<1>2. CASE out' = out
  <2>1. Len(text) <= Len(text') /\ \A i \in 1..Len(text) : text'[i] = text[i]
    BY DEF StreamTypeOK
  <2>2. Len(out) \in Nat /\ Len(text) \in Nat /\ Len(text') \in Nat
    BY DEF StreamTypeOK
  <2> QED
    BY <2>1, <2>2, <1>2 DEF FileIsText
<1> QED
  BY <1>1, <1>2

LEMMA PacketsGrow ==
  ASSUME StreamTypeOK, ProcessTypeOK, RecordsAreThePackets, recs' = recs,
         packets' = packets \/ packets' = Append(packets, packet),
         packets' \in Seq(Packet),
         prog' = prog,
         prog = "records" /\ pc' = "drain" => pc = "drain"
  PROVE  RecordsAreThePackets'
<1>1. Len(packets) <= Len(packets') /\ \A i \in 1..Len(packets) : packets'[i] = packets[i]
  BY DEF StreamTypeOK
<1>2. Len(packets) \in Nat /\ Len(packets') \in Nat /\ Len(recs) \in Nat
  BY DEF StreamTypeOK, ProcessTypeOK
<1>3. ASSUME NEW i \in 1..Len(recs), recs[i].code # TRAILER_PKT
      PROVE  i + 1 <= Len(packets') /\ recs[i] = packets'[i + 1]
  <2>1. i + 1 <= Len(packets) /\ recs[i] = packets[i + 1]
    BY <1>3 DEF RecordsAreThePackets
  <2>2. i + 1 \in 1..Len(packets)
    BY <2>1, <1>2
  <2> QED
    BY <2>1, <2>2, <1>1, <1>2
<1> QED
  BY <1>3 DEF RecordsAreThePackets

-----------------------------------------------------------------------------
(* The steps of the decoder. *)

(* Those that read a part of a packet and go on. *)
LEMMA FrameInv ==
  ASSUME ProcessTypeOK, StreamInv, NEW v,
         ReadHeader(v) \/ CopyFrame(v) \/ CopyData(v) \/ ReadRecord(v)
  PROVE  ProcessTypeOK' /\ StreamInv'
<1> USE DEF StreamInv
<1>1. /\ Send(v) /\ armed' = TRUE /\ UNCHANGED <<prog, pc, closed, lw, whole, filed, recs>>
      /\ pc \in {"header", "copy", "records"}
  BY DEF ReadHeader, CopyFrame, CopyData, ReadRecord, Receive, output
<1>2. Sync
  BY <1>1 DEF InStep, Reading
<1>3. CASE \/ GetStart(v) \/ GetCode(v) \/ GetData(v)
           \/ GetLength(v, PacketSizes) \/ GetLength(v, DataSizes)
  <2>1. /\ StreamTypeOK' /\ FeedKnown' /\ Sync' /\ packets' = packets
        /\ at # "data" => text' = text
        /\ at = "data" => /\ text' = (IF rcode = DATA_PKT THEN Append(text, v) ELSE text)
                          /\ packet'.code = packet.code /\ rcode' = rcode
                          /\ part' \in {"data", "sum"}
    BY <1>1, <1>2, <1>3, FrameStep
  <2>2. at = "data" => v \in Units
    BY <1>1, <1>2, UnitFacts
    DEF Sync, Send, SendStart, SendCode, SendLength, SendData, SendSum, SendNoise
  <2>3. IF pc = "copy" /\ at = "data" THEN out' = Append(out, v) ELSE out' = out
    BY <1>1 DEF ReadHeader, CopyFrame, CopyData, ReadRecord, GetData, GetStart, GetCode, GetSum,
                GetLength, output, Copied
  <2>4. pc = "copy" => out' = text'
    BY <2>1, <2>3 DEF OutIsText, WhoIsWhere
  <2>5. ProcessTypeOK'
    <3>1. out' \in Seq(Units)
      <4>1. at = "data" => Append(out, v) \in Seq(Units)
        BY <2>2 DEF ProcessTypeOK
      <4> QED
        BY <2>3, <4>1 DEF ProcessTypeOK
    <3> QED
      BY <1>1, <3>1 DEF ProcessTypeOK
  <2>6. WhoIsWhere'
    <3>1. pc = "copy" /\ at' \in {"data", "sum"} => rcode' = DATA_PKT
      BY <1>1, <1>2, <2>1 DEF ReadHeader, CopyFrame, CopyData, ReadRecord, GetData, GetStart,
                              GetCode, GetSum, GetLength, WhoIsWhere, IsData
    <3> QED
      BY <1>1, <3>1 DEF WhoIsWhere
  <2>7. Heading'
    <3>1. pc = "header" /\ text' # <<>> => packet'.code = DATA_PKT /\ part' \in {"data", "sum"}
      <4>1. CASE at = "data"
        BY <1>2, <2>1, <4>1 DEF Heading, Sync
      <4>2. CASE at # "data"
        BY <1>2, <1>3, <2>1, <4>2 DEF Heading, Sync, GetStart, GetCode, GetData, GetLength
      <4> QED
        BY <4>1, <4>2
    <3> QED
      BY <1>1, <2>1, <2>3, <3>1 DEF Heading
  <2>8. OutIsText'
    <3>1. DATA_PKT # TRAILER_PKT
      BY DEF DATA_PKT, TRAILER_PKT
    <3>2. pc = "header" /\ packet'.code = TRAILER_PKT => out' = text'
      BY <2>3, <2>7, <1>1, <3>1 DEF Heading
    <3> QED
      BY <1>1, <2>1, <2>3, <2>4, <3>2 DEF OutIsText, WhoIsWhere, ProcessTypeOK
  <2>9. FileIsText'
    <3>1. text' = text \/ text' = Append(text, v)
      BY <2>1
    <3>2. out' = out \/ (out = text /\ out' = text')
      BY <2>3, <2>4 DEF OutIsText
    <3>3. text' \in Seq(DataBytes)
      BY <2>1 DEF StreamTypeOK
    <3> QED
      BY <3>1, <3>2, <3>3, TextGrows DEF ProcessTypeOK
  <2>10. RecordsAreThePackets'
    <3>1. packets' \in Seq(Packet)
      BY <2>1 DEF StreamTypeOK
    <3> QED
      BY <1>1, <2>1, <3>1, PacketsGrow
  <2>11. RecsInStep' /\ InStep'
    BY <1>1, <2>1 DEF RecsInStep, InStep
  <2> QED
    BY <2>1, <2>5, <2>6, <2>7, <2>8, <2>9, <2>10, <2>11
<1>4. CASE CopyFrame(v) /\ GetSum
  <2>1. /\ StreamTypeOK' /\ FeedKnown'
        /\ packets' = Append(packets, packet) /\ text' = text /\ packet' = packet
        /\ at' = "start" /\ rcode' = rcode
        /\ part' = (IF packet.code = TRAILER_PKT THEN "end" ELSE "start")
    BY <1>1, <1>2, <1>4, SumStep
  <2>2. pc = "copy" /\ out' = out
    BY <1>4 DEF CopyFrame, output
  <2>3. ProcessTypeOK'
    BY <1>1, <2>2 DEF ProcessTypeOK
  <2>4. part' = "start" /\ packet.code # TRAILER_PKT
    BY <1>2, <1>4, <2>1, <2>2 DEF WhoIsWhere, Sync, GetSum, DATA_PKT, TRAILER_PKT
  <2>5. InStep' /\ WhoIsWhere' /\ Heading' /\ OutIsText' /\ RecsInStep'
    BY <1>1, <2>1, <2>2, <2>4
    DEF InStep, Sync, WhoIsWhere, Heading, OutIsText, RecsInStep
  <2>6. FileIsText'
    BY <2>1, <2>2 DEF FileIsText
  <2>7. RecordsAreThePackets'
    <3>1. packets' \in Seq(Packet)
      BY <2>1 DEF StreamTypeOK
    <3> QED
      BY <1>1, <2>1, <3>1, PacketsGrow
  <2> QED
    BY <2>1, <2>3, <2>5, <2>6, <2>7
<1> QED
  BY <1>3, <1>4 DEF ReadHeader, CopyFrame, CopyData, ReadRecord

(* A byte of data that cannot be put into the file. *)
LEMMA CopyFailsInv ==
  ASSUME ProcessTypeOK, StreamInv, NEW v, CopyFails(v)
  PROVE  ProcessTypeOK' /\ StreamInv'
<1> USE DEF StreamInv
<1>1. /\ Send(v) /\ GetData(v) /\ armed' = TRUE /\ whole' = FALSE
      /\ pc = "copy" /\ pc' = "close"
      /\ UNCHANGED <<prog, closed, lw, out, filed, recs>>
  BY DEF CopyFails, Receive, Goto
<1>2. Sync
  BY <1>1 DEF InStep, Reading
<1>3. /\ StreamTypeOK' /\ FeedKnown' /\ packets' = packets
      /\ text' = text \/ text' = Append(text, v)
  BY <1>1, <1>2, FrameStep
<1>4. ProcessTypeOK'
  BY <1>1 DEF ProcessTypeOK, PCs
<1>5. InStep' /\ WhoIsWhere' /\ Heading' /\ OutIsText' /\ RecsInStep'
  BY <1>1 DEF InStep, Reading, WhoIsWhere, Heading, OutIsText, RecsInStep
<1>6. FileIsText'
  <2>1. text' \in Seq(DataBytes)
    BY <1>3 DEF StreamTypeOK
  <2> QED
    BY <1>1, <1>3, <2>1, TextGrows DEF ProcessTypeOK
<1>7. RecordsAreThePackets'
  <2>1. packets' \in Seq(Packet)
    BY <1>3 DEF StreamTypeOK
  <2> QED
    BY <1>1, <1>3, <2>1, PacketsGrow
<1> QED
  BY <1>3, <1>4, <1>5, <1>6, <1>7

(* The header packet is whole. *)
LEMMA HeaderReadInv ==
  ASSUME ProcessTypeOK, StreamInv, NEW v, HeaderRead(v)
  PROVE  ProcessTypeOK' /\ StreamInv'
<1> USE DEF StreamInv
<1>1. /\ Send(v) /\ GetSum /\ armed' = TRUE
      /\ pc = "header" /\ pc' = (IF rcode = HEADER_PKT THEN "command" ELSE "done")
      /\ UNCHANGED <<prog, closed, lw, out, whole, filed, recs>>
  BY DEF HeaderRead, Receive, Goto, output
<1>2. Sync
  BY <1>1 DEF InStep, Reading
<1>3. /\ StreamTypeOK' /\ FeedKnown'
      /\ packets' = Append(packets, packet) /\ text' = text /\ packet' = packet
      /\ at' = "start" /\ rcode' = rcode
      /\ part' = (IF packet.code = TRAILER_PKT THEN "end" ELSE "start")
  BY <1>1, <1>2, SumStep
<1>4. at = "sum" /\ rcode = packet.code
  BY <1>1, <1>2 DEF GetSum, Sync
<1>5. ProcessTypeOK'
  BY <1>1 DEF ProcessTypeOK, PCs
<1>6. HEADER_PKT # TRAILER_PKT /\ HEADER_PKT # DATA_PKT /\ TRAILER_PKT # DATA_PKT
  BY DEF HEADER_PKT, TRAILER_PKT, DATA_PKT
<1>7. InStep' /\ WhoIsWhere'
  BY <1>1, <1>3, <1>4, <1>6 DEF InStep, Reading, Sync, WhoIsWhere
<1>8. Len(packets') = 1
  BY <1>1, <1>3 DEF Heading, StreamTypeOK
<1>9. Heading' /\ OutIsText' /\ RecsInStep'
  BY <1>1, <1>3, <1>4, <1>6, <1>8 DEF Heading, OutIsText, RecsInStep
<1>10. FileIsText'
  BY <1>1, <1>3 DEF FileIsText
<1>11. RecordsAreThePackets'
  <2>1. packets' \in Seq(Packet)
    BY <1>3 DEF StreamTypeOK
  <2> QED
    BY <1>1, <1>3, <2>1, PacketsGrow
<1> QED
  BY <1>3, <1>5, <1>7, <1>9, <1>10, <1>11

(* McIDAS is given a record: the packet read, or a trailer at its end.     *)
LEMMA GiveInv ==
  ASSUME ProcessTypeOK, StreamInv, pc = "records",
         NEW rec \in [code : RoutingCodes, data : Seq(Units)], GiveRecord(rec), armed' \in BOOLEAN,
         StreamTypeOK', FeedKnown', text' = text,
         \/ /\ rec.code = TRAILER_PKT
            /\ packets' = packets \/ packets' = Append(packets, packet)
         \/ rec = packet /\ packets' = Append(packets, packet) /\ Sync'
  PROVE  ProcessTypeOK' /\ StreamInv'
<1> USE DEF StreamInv
<1>1. /\ recs' = Append(recs, rec)
      /\ pc' = (IF rec.code = TRAILER_PKT THEN "drain" ELSE "records")
      /\ UNCHANGED <<prog, closed, lw, out, whole, filed>>
  BY DEF GiveRecord, Goto
<1>2. prog = "records" /\ out = <<>>
  BY DEF WhoIsWhere, OutIsText
<1>3. /\ Len(packets) = Len(recs) + 1 /\ Len(recs) \in Nat
      /\ \A i \in 1..Len(recs) : recs[i].code # TRAILER_PKT
  BY DEF RecsInStep, ProcessTypeOK
<1>4. /\ Len(recs') = Len(recs) + 1 /\ recs'[Len(recs) + 1] = rec
      /\ \A i \in 1..Len(recs) : recs'[i] = recs[i]
  BY <1>1 DEF ProcessTypeOK
<1>5. /\ Len(packets') >= Len(packets)
      /\ \A i \in 1..Len(packets) : packets'[i] = packets[i]
      /\ packets' = Append(packets, packet) => /\ Len(packets') = Len(packets) + 1
                                               /\ packets'[Len(packets) + 1] = packet
  <2>1. packets \in Seq(Packet) /\ packet \in Packet
    BY DEF StreamTypeOK
  <2>2. CASE packets' = packets
    BY <2>1, <2>2, <1>3
  <2>3. CASE packets' = Append(packets, packet)
    BY <2>1, <2>3
  <2> QED
    BY <2>2, <2>3
<1>6. ProcessTypeOK'
  BY <1>1 DEF ProcessTypeOK, PCs
<1>7. InStep' /\ WhoIsWhere' /\ Heading' /\ OutIsText'
  BY <1>1, <1>2 DEF InStep, Reading, WhoIsWhere, Heading, OutIsText
<1>8. RecsInStep'
  BY <1>1, <1>2, <1>3, <1>4, <1>5 DEF RecsInStep
<1>9. FileIsText'
  BY <1>1, <1>2 DEF FileIsText
<1>10. RecordsAreThePackets'
  <2>1. ASSUME NEW i \in 1..Len(recs'), recs'[i].code # TRAILER_PKT
        PROVE  i + 1 <= Len(packets') /\ recs'[i] = packets'[i + 1]
    <3>1. CASE i \in 1..Len(recs)
      BY <3>1, <2>1, <1>3, <1>4, <1>5 DEF RecordsAreThePackets
    <3>2. CASE i = Len(recs) + 1
      BY <3>2, <2>1, <1>3, <1>4, <1>5
    <3> QED
      BY <3>1, <3>2, <1>3, <1>4
  <2>2. \A i \in 1..(Len(recs') - 1) : recs'[i].code # TRAILER_PKT
    BY <1>3, <1>4
  <2>3. pc' = "drain" => recs' # <<>> /\ recs'[Len(recs')].code = TRAILER_PKT
    BY <1>1, <1>3, <1>4
  <2> QED
    BY <2>1, <2>2, <2>3 DEF RecordsAreThePackets
<1> QED
  BY <1>6, <1>7, <1>8, <1>9, <1>10

LEMMA RecordInv ==
  ASSUME ProcessTypeOK, StreamInv, NEW v, RecordRead(v) \/ RecordInvalid(v)
  PROVE  ProcessTypeOK' /\ StreamInv'
<1> USE DEF StreamInv
<1>1. Send(v) /\ armed' = TRUE /\ pc = "records"
  BY DEF RecordRead, RecordInvalid, Receive
<1>2. Sync
  BY <1>1 DEF InStep, Reading
<1>3. CASE RecordRead(v)
  <2>1. GetSum /\ GiveRecord([code |-> rcode, data |-> buf])
    BY <1>3 DEF RecordRead
  <2>2. /\ StreamTypeOK' /\ FeedKnown'
        /\ [code |-> rcode, data |-> buf] = packet
        /\ packets' = Append(packets, packet) /\ text' = text
        /\ at' = "start"
        /\ part' = (IF packet.code = TRAILER_PKT THEN "end" ELSE "start")
    BY <1>1, <1>2, <2>1, SumStep
  <2>3. [code |-> rcode, data |-> buf] \in [code : RoutingCodes, data : Seq(Units)]
    BY DEF StreamTypeOK
  <2>4. packet.code = TRAILER_PKT \/ Sync'
    BY <2>2 DEF Sync
  <2> QED
    BY <1>1, <2>1, <2>2, <2>3, <2>4, GiveInv
<1>4. CASE RecordInvalid(v)
  <2>1. UNCHANGED reader /\ Invalid(v, PacketSizes) /\ GiveRecord(GivenAtEnd)
    BY <1>4 DEF RecordInvalid
  <2>2. StreamTypeOK' /\ FeedKnown' /\ packets' = packets /\ text' = text
    BY <1>1, <1>2, <2>1, InvalidStep
  <2>3. GivenAtEnd \in [code : RoutingCodes, data : Seq(Units)] /\ GivenAtEnd.code = TRAILER_PKT
    BY DEF GivenAtEnd, MadeUpTrailer, RoutingCodes, TRAILER_PKT
  <2> QED
    BY <1>1, <2>1, <2>2, <2>3, GiveInv
<1> QED
  BY <1>3, <1>4

(* What is not a packet, or not one of data, ends the reading. *)
LEMMA InvalidInv ==
  ASSUME ProcessTypeOK, StreamInv, NEW v, HeaderInvalid(v) \/ CopyEnds(v)
  PROVE  ProcessTypeOK' /\ StreamInv'
<1> USE DEF StreamInv
<1>1. /\ Send(v) /\ armed' = TRUE
      /\ UNCHANGED <<prog, closed, lw, out, whole, filed, recs>>
      /\ \/ pc = "header" /\ pc' = "done"
         \/ pc = "copy" /\ pc' = "close"
  BY DEF HeaderInvalid, CopyEnds, Receive, Goto, output
<1>2. Sync
  BY <1>1 DEF InStep, Reading
<1>3. /\ at \in {"start", "code", "length"}
      /\ StreamTypeOK' /\ FeedKnown' /\ packets' = packets /\ text' = text
  <2>1. CASE UNCHANGED reader /\ (Invalid(v, PacketSizes) \/ Invalid(v, DataSizes))
    BY <2>1, <1>1, <1>2, InvalidStep DEF Invalid
  <2>2. CASE GetLength(v, DataSizes)
    <3>1. at = "length"
      BY <2>2 DEF GetLength
    <3> QED
      BY <2>2, <3>1, <1>1, <1>2, FrameStep
  <2> QED
    BY <2>1, <2>2 DEF HeaderInvalid, CopyEnds
<1>4. ProcessTypeOK'
  BY <1>1 DEF ProcessTypeOK, PCs
<1>5. pc = "header" => text = <<>>
  BY <1>2, <1>3 DEF Heading, Sync
<1>6. InStep' /\ WhoIsWhere' /\ Heading' /\ OutIsText' /\ RecsInStep'
  BY <1>1, <1>3, <1>5 DEF InStep, Reading, WhoIsWhere, Heading, OutIsText, RecsInStep
<1>7. FileIsText'
  BY <1>1, <1>3 DEF FileIsText
<1>8. RecordsAreThePackets'
  <2>1. packets' \in Seq(Packet)
    BY <1>3 DEF StreamTypeOK
  <2> QED
    BY <1>1, <1>3, <2>1, PacketsGrow
<1> QED
  BY <1>3, <1>4, <1>6, <1>7, <1>8

-----------------------------------------------------------------------------
(* The steps without the feed. *)

LEMMA EndOfInputInv ==
  ASSUME ProcessTypeOK, StreamInv, EndOfInput, UNCHANGED <<feed, reader>>, armed' \in BOOLEAN
  PROVE  ProcessTypeOK' /\ StreamInv'
<1> USE DEF StreamInv
<1>1. StreamTypeOK' /\ FeedKnown' /\ packets' = packets /\ text' = text
  BY DEF StreamTypeOK, FeedKnown, feed, reader
<1>2. CASE pc = "records" /\ GiveRecord(GivenAtEnd)
  <2>1. GivenAtEnd \in [code : RoutingCodes, data : Seq(Units)] /\ GivenAtEnd.code = TRAILER_PKT
    BY DEF GivenAtEnd, MadeUpTrailer, RoutingCodes, TRAILER_PKT
  <2> QED
    BY <1>1, <1>2, <2>1, GiveInv
<1>3. CASE /\ UNCHANGED <<prog, closed, lw, output>>
           /\ \/ pc \in {"header", "drain"} /\ pc' = "done"
              \/ pc = "copy" /\ pc' = "close"
  <2>1. ProcessTypeOK'
    BY <1>3 DEF ProcessTypeOK, PCs, output
  <2>2. InStep' /\ WhoIsWhere' /\ Heading' /\ RecsInStep'
    BY <1>1, <1>3 DEF InStep, Reading, WhoIsWhere, Heading, RecsInStep, output
  <2>3. OutIsText' /\ FileIsText' /\ RecordsAreThePackets'
    BY <1>1, <1>3 DEF OutIsText, FileIsText, RecordsAreThePackets, output, feed
  <2> QED
    BY <1>1, <2>1, <2>2, <2>3
<1> QED
  BY <1>2, <1>3 DEF EndOfInput, Goto

LEMMA ProcessInv ==
  ASSUME ProcessTypeOK, StreamInv,
         Begin \/ NotFiled \/ CloseFile \/ ClosePipe \/ Terminate
           \/ UNCHANGED <<feed, reader, process, output>>
  PROVE  ProcessTypeOK' /\ StreamInv'
<1> USE DEF StreamInv
<1>1. UNCHANGED <<feed, reader, recs, out>>
  BY DEF Begin, NotFiled, CloseFile, ClosePipe, Terminate, Heading, reader, output, CopyStart
<1>2. StreamTypeOK' /\ FeedKnown'
  BY <1>1 DEF StreamTypeOK, FeedKnown, feed, reader
<1>3. ProcessTypeOK'
  BY DEF ProcessTypeOK, PCs, Begin, NotFiled, CloseFile, ClosePipe, Terminate, Goto, output, process
<1>4. CASE Begin
  <2>1. pc = "command" /\ prog' = prog /\ whole' = whole
        /\ pc' = (IF prog = "lwfile" THEN "copy" ELSE "records")
    BY <1>4 DEF Begin, Goto, output
  <2>2. InStep' /\ WhoIsWhere'
    BY <1>1, <2>1 DEF InStep, Reading, Sync, WhoIsWhere, Heading, feed, reader, ProcessTypeOK
  <2>3. Heading' /\ OutIsText' /\ RecsInStep' /\ FileIsText' /\ RecordsAreThePackets'
    BY <1>1, <2>1 DEF Heading, OutIsText, RecsInStep, FileIsText, RecordsAreThePackets, feed,
                      ProcessTypeOK
  <2> QED
    BY <1>2, <1>3, <2>2, <2>3
<1>5. CASE ~Begin
  <2>1. /\ prog' = prog
        /\ pc' = pc \/ (pc = "command" /\ prog = "lwfile" /\ pc' = "drain")
             \/ (pc = "close" /\ pc' = "drain") \/ pc' = "done"
        /\ whole' => whole
    BY <1>5 DEF NotFiled, CloseFile, ClosePipe, Terminate, Goto, output, process, ProcessTypeOK
  <2>2. InStep' /\ WhoIsWhere' /\ Heading'
    BY <1>1, <2>1 DEF InStep, Reading, Sync, WhoIsWhere, Heading, feed, reader
  <2>3. OutIsText' /\ RecsInStep' /\ FileIsText' /\ RecordsAreThePackets'
    BY <1>1, <2>1 DEF OutIsText, RecsInStep, FileIsText, RecordsAreThePackets, feed, WhoIsWhere
  <2> QED
    BY <1>2, <1>3, <2>2, <2>3
<1> QED
  BY <1>4, <1>5

LEMMA IInvInit == Init => IInv
<1> SUFFICES ASSUME Init
             PROVE  IInv
  OBVIOUS
<1>1. LwInv
  BY LwInitInv DEF Init
<1>2. ProcessTypeOK
  <2>1. out = <<>> /\ recs = <<>>
    BY DEF Init
  <2>2. out \in Seq(Units) /\ recs \in Seq([code : RoutingCodes, data : Seq(Units)])
    BY <2>1
  <2>3. /\ armed \in BOOLEAN /\ closed \in BOOLEAN /\ whole \in BOOLEAN
        /\ prog \in {"lwfile", "records"} /\ pc \in PCs /\ filed \in {-2, -1, 0, 1}
    BY DEF Init, PCs
  <2> QED
    BY <2>2, <2>3 DEF ProcessTypeOK
<1>3. StreamTypeOK
  BY StreamInitInv DEF Init
<1> QED
  BY <1>1, <1>2, <1>3
  DEF IInv, StreamInv, Init, StreamInit, InStep, Sync, FeedKnown, WhoIsWhere, Heading, OutIsText,
      RecsInStep, FileIsText, RecordsAreThePackets

(* Only UseFile touches the descriptors, and it touches nothing else. *)
LEMMA LwStep ==
  ASSUME [Next]_vars, ~UNCHANGED lw
  PROVE  \E n \in Names, d \in FDs \cup {FAILED} : UseFile(n, d)
BY DEF Next, Decode, vars, ReadHeader, HeaderRead, HeaderInvalid, CopyFrame, CopyData, CopyEnds,
       CopyFails, ReadRecord, RecordRead, RecordInvalid, Begin, NotFiled, CloseFile, ClosePipe,
       PipeEnds, Alarm, Interrupt, Terminate, EndOfInput, GiveRecord

LEMMA IInvStep == IInv /\ [Next]_vars => IInv'
<1> SUFFICES ASSUME IInv, [Next]_vars
             PROVE  IInv'
  OBVIOUS
<1> USE DEF IInv
<1>1. LwInv'
  <2>1. CASE UNCHANGED lw
    BY <2>1, LwSame
  <2>2. CASE ~UNCHANGED lw
    BY <2>2, LwStep, LwOpenInv DEF UseFile
  <2> QED
    BY <2>1, <2>2
<1>2. ProcessTypeOK' /\ StreamInv'
  <2>1. CASE UNCHANGED vars
    BY <2>1, ProcessInv DEF vars
  <2>2. CASE Decode
    BY <2>2, FrameInv, CopyFailsInv, HeaderReadInv, RecordInv, InvalidInv, ProcessInv DEF Decode
  <2>3. CASE PipeEnds \/ Alarm \/ Interrupt
    BY <2>3, EndOfInputInv DEF PipeEnds, Alarm, Interrupt, ProcessTypeOK
  <2>4. CASE ClosePipe \/ Terminate
    BY <2>4, ProcessInv
  <2>5. CASE \E n \in Names, d \in FDs \cup {FAILED} : UseFile(n, d)
    BY <2>5, ProcessInv DEF UseFile
  <2> QED
    BY <2>1, <2>2, <2>3, <2>4, <2>5 DEF Next
<1> QED
  BY <1>1, <1>2

LEMMA SpecIInv == Spec => []IInv
<1> QED
  BY IInvInit, IInvStep, PTL DEF Spec

-----------------------------------------------------------------------------
(* The types of the feed, the reader, the descriptors and the process. *)
THEOREM McTypeCorrect == Spec => []TypeOK
<1>1. IInv => TypeOK
  BY DEF IInv, LwInv, ProcessTypeOK, StreamInv, TypeOK
<1> QED
  BY <1>1, SpecIInv, PTL

(* lwfile's mc_datacopy: what is in the output file is the data of the     *)
(* product from its first byte on, for packets of every length and a feed  *)
(* that breaks off or loses its framing anywhere.                          *)
THEOREM OnlyTextIsCopied == Spec => []FileIsText
<1>1. IInv => FileIsText
  BY DEF IInv, StreamInv
<1> QED
  BY <1>1, SpecIInv, PTL

(* ... and all of it, when lwfile has come to the trailer.                 *)
THEOREM AllOfItAtTheTrailer == Spec => []WholeAtTrailer
<1>1. IInv => WholeAtTrailer
  BY DEF IInv, StreamInv, OutIsText, WholeAtTrailer
<1> QED
  BY <1>1, SpecIInv, PTL

(* getpkt and c_getrec: McIDAS sees each packet once, whole and in order,  *)
(* and one trailer at the end, even if the feed has none.                  *)
THEOREM McIdasSeesThePackets == Spec => []RecordsAreThePackets
<1>1. IInv => RecordsAreThePackets
  BY DEF IInv, StreamInv
<1> QED
  BY <1>1, SpecIInv, PTL

(* c_lwopen leaks no descriptor and gives no two places the same, for a    *)
(* table of any size, and any names, of which some begin others.           *)
THEOREM DescriptorsAreKept == Spec => []NoDescriptorLost
<1>1. IInv => NoDescriptorLost
  BY DEF IInv, LwInv
<1> QED
  BY <1>1, SpecIInv, PTL

(* ... nor opens one file twice, whatever opens have failed in between.    *)
THEOREM OneDescriptorPerFile == Spec => []NoFileTwice
<1>1. IInv => NoFileTwice
  BY LwInvNoFileTwice DEF IInv
<1> QED
  BY <1>1, SpecIInv, PTL

(* ... and closes a file for another only when its table is full, and then *)
(* the one that has been open longest.                                     *)
THEOREM TheOldestGoes == Spec => OldestIsClosed
<1> DEFINE Kept == \A d \in FDs : open[d] # NoName /\ open'[d] # open[d] =>
                     /\ \A e \in FDs \ {d} : open[e] # NoName => e \in newer[d]
                     /\ \A i \in Places : fd[i] # FAILED
<1>1. IInv /\ [Next]_vars => [Kept]_lw
  <2> SUFFICES ASSUME IInv, [Next]_vars, ~UNCHANGED lw
               PROVE  Kept
    OBVIOUS
  <2>1. PICK n \in Names, c \in FDs \cup {FAILED} : UseFile(n, c)
    BY LwStep
  <2> QED
    BY <2>1, LwOpenClosesOldest DEF IInv, UseFile
<1> QED
  BY <1>1, SpecIInv, PTL DEF Spec, OldestIsClosed

-----------------------------------------------------------------------------
(* The alarm is set as long as packets are read: a read sets it, and when  *)
(* it goes off that is the last read of them.                              *)
ArmedWhileReading == Reading => armed

LEMMA ArmedStep == ArmedWhileReading /\ [Next]_vars => ArmedWhileReading'
<1> SUFFICES ASSUME ArmedWhileReading, [Next]_vars, Reading'
             PROVE  armed'
  BY DEF ArmedWhileReading
<1> USE DEF ArmedWhileReading, Reading
<1>1. CASE UNCHANGED vars
  BY <1>1 DEF vars, process
<1>2. CASE Decode
  BY <1>2 DEF Decode, ReadHeader, HeaderRead, HeaderInvalid, CopyFrame, CopyData, CopyEnds,
              CopyFails, ReadRecord, RecordRead, RecordInvalid, Begin, NotFiled, CloseFile,
              Receive, Goto
<1>3. CASE PipeEnds \/ Alarm \/ Interrupt
  BY <1>3 DEF PipeEnds, Alarm, Interrupt, EndOfInput, GiveRecord, GivenAtEnd, MadeUpTrailer, Goto
<1>4. CASE ClosePipe \/ Terminate
  BY <1>4 DEF ClosePipe, Terminate, Goto
<1>5. CASE \E n \in Names, d \in FDs \cup {FAILED} : UseFile(n, d)
  BY <1>5 DEF UseFile, process
<1> QED
  BY <1>1, <1>2, <1>3, <1>4, <1>5 DEF Next

(* Where a decoder can be after a step: it never goes back. *)
LEMMA Forward ==
  ASSUME [Next]_vars
  PROVE  /\ pc = "header"  => pc' \in {"header", "command", "done"}
         /\ pc = "command" => pc' \in {"command", "copy", "records", "drain", "done"}
         /\ pc = "copy"    => pc' \in {"copy", "close", "done"}
         /\ pc = "records" => pc' \in {"records", "drain", "done"}
         /\ pc = "close"   => pc' \in {"close", "drain", "done"}
         /\ pc = "drain"   => pc' \in {"drain", "done"}
         /\ pc = "done"    => pc' = "done"
         /\ closed => closed'
<1>1. CASE UNCHANGED vars
  BY <1>1 DEF vars, process
<1>2. CASE Decode
  BY <1>2 DEF Decode, ReadHeader, HeaderRead, HeaderInvalid, CopyFrame, CopyData, CopyEnds,
              CopyFails, ReadRecord, RecordRead, RecordInvalid, Begin, NotFiled, CloseFile,
              Receive, GiveRecord, Goto
<1>3. CASE PipeEnds \/ Alarm \/ Interrupt
  BY <1>3 DEF PipeEnds, Alarm, Interrupt, EndOfInput, GiveRecord, GivenAtEnd, MadeUpTrailer, Goto
<1>4. CASE ClosePipe \/ Terminate
  BY <1>4 DEF ClosePipe, Terminate, Goto
<1>5. CASE \E n \in Names, d \in FDs \cup {FAILED} : UseFile(n, d)
  BY <1>5 DEF UseFile, process
<1> QED
  BY <1>1, <1>2, <1>3, <1>4, <1>5 DEF Next

(* Where the end of the input leads to, however it is seen. *)
LEMMA EndLeads ==
  ASSUME PipeEnds \/ Alarm
  PROVE  /\ pc = "header"  => pc' = "done"
         /\ pc = "copy"    => pc' = "close"
         /\ pc = "records" => pc' = "drain"
         /\ pc = "drain"   => pc' = "done"
BY DEF PipeEnds, Alarm, EndOfInput, GiveRecord, GivenAtEnd, MadeUpTrailer, TRAILER_PKT, Goto

LEMMA WorkLeads ==
  ASSUME Begin \/ NotFiled \/ CloseFile
  PROVE  /\ pc = "command" => pc' \in {"copy", "records", "drain"}
         /\ pc = "close"   => pc' = "drain"
BY DEF Begin, NotFiled, CloseFile, Goto

(* A read can end by the alarm that it has set, and by the pipe that was   *)
(* closed; what main does between the reads can be done.                   *)
CanGoOn ==
  /\ pc \in {"header", "copy", "records", "drain"} =>
       /\ armed => ENABLED <<Alarm>>_vars
       /\ closed => ENABLED <<PipeEnds>>_vars
  /\ pc \in {"command", "close"} => ENABLED <<Begin \/ NotFiled \/ CloseFile>>_vars

(* The decoder comes to the end of the product even if the feed goes       *)
(* silent within it (mc_proto.c:39-75: the alarm is set before each read). *)
THEOREM SilentProductEnds == FairSpec /\ []CanGoOn => ProductEnds
<1>1. Init => ArmedWhileReading /\ pc = "header"
  BY DEF Init, ArmedWhileReading
<1>2. /\ pc = "drain" => pc \in {"drain", "done"}
      /\ pc = "done" => pc \in {"drain", "done"}
  OBVIOUS
<1>3. [Next]_vars =>
        /\ pc = "header" => (pc = "header")' \/ (pc = "command")' \/ (pc = "done")'
        /\ pc = "command" => \/ (pc = "command")' \/ (pc = "copy")' \/ (pc = "records")'
                             \/ (pc = "drain")' \/ (pc = "done")'
        /\ pc = "copy" => (pc = "copy")' \/ (pc = "close")' \/ (pc = "done")'
        /\ pc = "records" => (pc = "records")' \/ (pc = "drain")' \/ (pc = "done")'
        /\ pc = "close" => (pc = "close")' \/ (pc = "drain")' \/ (pc = "done")'
  BY Forward
<1>4. <<Alarm>>_vars =>
        /\ pc = "header" => (pc = "done")'
        /\ pc = "copy" => (pc = "close")'
        /\ pc = "records" => (pc = "drain")'
  BY EndLeads
<1>5. <<Begin \/ NotFiled \/ CloseFile>>_vars =>
        /\ pc = "command" => (pc = "copy")' \/ (pc = "records")' \/ (pc = "drain")'
        /\ pc = "close" => (pc = "drain")'
  BY WorkLeads
<1>6. ArmedWhileReading /\ CanGoOn =>
        /\ pc = "header" \/ pc = "copy" \/ pc = "records" => ENABLED <<Alarm>>_vars
        /\ pc = "command" \/ pc = "close" => ENABLED <<Begin \/ NotFiled \/ CloseFile>>_vars
  BY DEF ArmedWhileReading, Reading, CanGoOn
<1>7. Spec => []ArmedWhileReading
  BY <1>1, ArmedStep, PTL DEF Spec
<1> QED
  BY <1>1, <1>2, <1>3, <1>4, <1>5, <1>6, <1>7, PTL DEF FairSpec, Fairness, Spec, ProductEnds

(* When the LDM closes the pipe the process ends, wherever it is then.     *)
THEOREM ClosedPipeEnds == FairSpec /\ []CanGoOn => ClosedEnds
<1>1. IInv => \/ pc = "header" \/ pc = "command" \/ pc = "copy" \/ pc = "records"
              \/ pc = "close" \/ pc = "drain" \/ pc = "done"
  BY DEF IInv, ProcessTypeOK, PCs
<1>2. [Next]_vars =>
        /\ pc = "header" => (pc = "header")' \/ (pc = "command")' \/ (pc = "done")'
        /\ pc = "command" => \/ (pc = "command")' \/ (pc = "copy")' \/ (pc = "records")'
                             \/ (pc = "drain")' \/ (pc = "done")'
        /\ pc = "copy" => (pc = "copy")' \/ (pc = "close")' \/ (pc = "done")'
        /\ pc = "records" => (pc = "records")' \/ (pc = "drain")' \/ (pc = "done")'
        /\ pc = "close" => (pc = "close")' \/ (pc = "drain")' \/ (pc = "done")'
        /\ pc = "drain" => (pc = "drain")' \/ (pc = "done")'
        /\ closed => closed'
  BY Forward
<1>3. <<PipeEnds>>_vars =>
        /\ pc = "header" => (pc = "done")'
        /\ pc = "copy" => (pc = "close")'
        /\ pc = "records" => (pc = "drain")'
        /\ pc = "drain" => (pc = "done")'
  BY EndLeads
<1>4. <<Begin \/ NotFiled \/ CloseFile>>_vars =>
        /\ pc = "command" => (pc = "copy")' \/ (pc = "records")' \/ (pc = "drain")'
        /\ pc = "close" => (pc = "drain")'
  BY WorkLeads
<1>5. CanGoOn =>
        /\ closed /\ (pc = "header" \/ pc = "copy" \/ pc = "records" \/ pc = "drain")
             => ENABLED <<PipeEnds>>_vars
        /\ pc = "command" \/ pc = "close" => ENABLED <<Begin \/ NotFiled \/ CloseFile>>_vars
  BY DEF CanGoOn
<1> QED
  BY <1>1, <1>2, <1>3, <1>4, <1>5, SpecIInv, PTL DEF FairSpec, Fairness, Spec, ClosedEnds
=============================================================================
