--------------------------- MODULE NalSampleProofs ---------------------------
(***************************************************************************)
(* Proofs about NalSample, for slices and parameter sets of every size     *)
(* whose packet is below 2^31 bytes.                                       *)
(***************************************************************************)
EXTENDS NalSample, TLAPS

(* Four bytes, the highest first, decode to the length they came from.     *)
LEMMA BytesDecode ==
    ASSUME NEW n \in Nat, n < 2147483648
    PROVE  Value(BigEndian(n)) = n
<1> DEFINE q1 == n \div 256  q2 == n \div 65536  q3 == n \div 16777216
<1>1. n = 256 * q1 + (n % 256) /\ q1 \in Nat
  OBVIOUS
<1>2. q1 = 256 * q2 + (q1 % 256) /\ q2 \in Nat
  OBVIOUS
<1>3. q2 = 256 * q3 + (q2 % 256) /\ q3 \in 0 .. 127
  OBVIOUS
<1>4. Byte(n, 1) = (n % 256) /\ Byte(n, 256) = (q1 % 256) /\ Byte(n, 65536) = (q2 % 256)
      /\ Byte(n, 16777216) = q3
  BY <1>3 DEF Byte
<1>5. Value(BigEndian(n)) = ((q3 * 256 + (q2 % 256)) * 256 + (q1 % 256)) * 256 + (n % 256)
  BY <1>4 DEF Value, BigEndian
<1> QED
  BY <1>1, <1>2, <1>3, <1>5

(* What is known of the packet throughout, and of the sample once stored.  *)
IInv ==
    /\ slice \in SliceSizes
    /\ \/ kind = "idr" /\ sps \in SpsSizes /\ pps \in PpsSizes /\ rotate \in BOOLEAN
       \/ kind = "p" /\ sps = 0 /\ pps = 0 /\ rotate = FALSE
    /\ done \in 0 .. 2
    /\ ~sentMarked /\ (done < 2 => ~marked)
    /\ done = 2 => /\ from = Skipped /\ len = PacketSize - Deducted
                   /\ prefix = BigEndian(PrefixOf(len))

(* The packet is as the encoder made it when the callback gets it.         *)
LEMMA InitInv == InitPacket => IInv
  BY DEF InitPacket, IInv

(* RTSP comes first; the one store determines the sample.                  *)
LEMMA NextInv == IInv /\ [NextPacket]_packetVars => IInv'
<1> SUFFICES ASSUME IInv, [NextPacket]_packetVars PROVE IInv'
  OBVIOUS
<1>1. CASE SendRtsp
  <2>1. done = 0 /\ done' = 1
    BY <1>1 DEF SendRtsp, Turn, Order, IInv
  <2>2. ~marked
    BY <2>1 DEF IInv
  <2> QED
    BY <1>1, <2>1, <2>2 DEF SendRtsp, packet, IInv
<1>2. CASE Store
  <2>1. done = 1 /\ done' = 2
    BY <1>2 DEF Store, Turn, Order, IInv
  <2>2. Skipped' = Skipped /\ Deducted' = Deducted /\ PacketSize' = PacketSize
    BY <1>2 DEF Store, packet, Skipped, Deducted, PacketSize, SliceStart
  <2>3. from' = Skipped /\ len' = PacketSize - Deducted /\ prefix' = BigEndian(PrefixOf(len'))
    BY <1>2 DEF Store
  <2>4. BigEndian(PrefixOf(len))' = BigEndian(PrefixOf(len'))
    BY DEF BigEndian, PrefixOf, Byte
  <2> QED
    BY <1>2, <2>1, <2>2, <2>3, <2>4 DEF Store, packet, IInv
<1>3. CASE UNCHANGED packetVars
  BY <1>3 DEF packetVars, packet, IInv, Skipped, Deducted, PacketSize, SliceStart, BigEndian,
              PrefixOf, Byte
<1> QED
  BY <1>1, <1>2, <1>3 DEF NextPacket

(* The invariant holds in every state of the callback.                     *)
LEMMA Inductive == SpecPacket => []IInv
  BY InitInv, NextInv, PTL DEF SpecPacket

(* record_mp4 never changes a packet that RTSP has still to get.           *)
THEOREM RtspFirst == SpecPacket => []RtspGetsStartCode
<1>1. IInv => RtspGetsStartCode
  BY DEF IInv, RtspGetsStartCode
<1> QED
  BY <1>1, Inductive, PTL

(* A P slice of any size is stored whole, behind exactly its length.       *)
THEOREM DeltaExactAtEverySize == SpecPacket => []DeltaSampleExact
<1>1. IInv => DeltaSampleExact
  <2> SUFFICES ASSUME IInv, done = 2, kind = "p"
               PROVE  from = 0 /\ len = PacketSize /\ Value(prefix) = slice
    BY DEF DeltaSampleExact
  <2>1. slice \in Nat /\ slice < 2147483648
    BY NalAssumption, SMT DEF IInv, StartCode, MaxInt
  <2>2. Skipped = 0 /\ Deducted = 0 /\ PacketSize = 4 + slice
    BY <2>1 DEF IInv, Skipped, Deducted, PacketSize, SliceStart, StartCode
  <2>3. PrefixOf(len) = slice
    BY <2>1, <2>2 DEF IInv, PrefixOf
  <2> QED
    BY <2>1, <2>2, <2>3, BytesDecode DEF IInv
<1> QED
  BY <1>1, Inductive, PTL

(* Whatever the sizes of the slice and of the parameter sets, the sample   *)
(* holds all of the slice unless it begins a file with parameter sets of   *)
(* less than 30 bytes, and no more than one start code beyond the packet.  *)
THEOREM SliceKeptWhole == SpecPacket => []SliceComplete
<1>1. IInv => SliceComplete
  <2> SUFFICES ASSUME IInv, done = 2
               PROVE  /\ from <= SliceStart
                         <=> (rotate => sps + pps >= SPS_FRAME_LEN + PPS_FRAME_LEN)
                      /\ from + len \in PacketSize .. PacketSize + StartCode
    BY DEF SliceComplete
  <2>1. slice \in Nat /\ sps \in Nat /\ pps \in Nat
    <3>1. SliceSizes \subseteq Nat /\ SpsSizes \subseteq Nat /\ PpsSizes \subseteq Nat
      BY NalAssumption
    <3>2. CASE sps \in SpsSizes /\ pps \in PpsSizes
      BY <3>1, <3>2, Zenon DEF IInv
    <3>3. CASE sps = 0 /\ pps = 0
      BY <3>1, <3>3 DEF IInv
    <3> QED
      BY <3>2, <3>3 DEF IInv
  <2>2. CASE ~rotate
    BY <2>1, <2>2 DEF IInv, Skipped, Deducted, PacketSize, SliceStart, StartCode
  <2>3. CASE rotate
    <3>1. kind = "idr" /\ from = 38 /\ len = PacketSize - 34
      BY <2>3 DEF IInv, Skipped, Deducted, StartCode, SPS_FRAME_LEN, PPS_FRAME_LEN
    <3>2. SliceStart = 8 + sps + pps /\ PacketSize = 12 + sps + pps + slice
      BY <2>1, <3>1 DEF SliceStart, PacketSize, StartCode
    <3> QED
      BY <2>1, <2>3, <3>1, <3>2 DEF StartCode, SPS_FRAME_LEN, PPS_FRAME_LEN
  <2> QED
    BY <2>1, <2>2, <2>3
<1> QED
  BY <1>1, Inductive, PTL

=============================================================================
