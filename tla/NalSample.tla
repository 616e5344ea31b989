------------------------------ MODULE NalSample ------------------------------
(***************************************************************************)
(* What one H.264 packet becomes: monitor_venc_packet_cb (src/h264_venc.cc)*)
(* sends it to RTSP, then record_mp4 (src/mp4_process.cc) overwrites bytes *)
(* of it in place and stores part of it as an MP4 sample.                  *)
(*                                                                         *)
(* A packet is a row of NAL units, each behind a 4-byte start code: a      *)
(* slice, and before an IDR slice an SPS and a PPS.  The encoder decides   *)
(* how long these are; record_mp4 takes them for 26 and 4 bytes.           *)
(* Of the bytes only the four that record_mp4 writes are modelled.         *)
(***************************************************************************)
EXTENDS Integers, Sequences

CONSTANTS
    SliceSizes,         \* sizes of slice NAL units the encoder produces
    SpsSizes, PpsSizes  \* sizes of the parameter sets it puts before an IDR slice

StartCode == 4              \* FRAME_START_FLAG_LEN
SPS_FRAME_LEN == 26         \* what the recorder takes for the size of an SPS
PPS_FRAME_LEN == 4          \* and of a PPS

MaxInt == 2147483647

(* The size of a packet is an RK_S32 or int everywhere.                    *)
ASSUME NalAssumption ==
    /\ SliceSizes \subseteq Nat \ {0} /\ SpsSizes \subseteq Nat \ {0}
    /\ PpsSizes \subseteq Nat \ {0}
    /\ \A n \in SliceSizes :
          /\ StartCode + n <= MaxInt
          /\ \A s \in SpsSizes, p \in PpsSizes : n + s + p + 3 * StartCode <= MaxInt

VARIABLES
    kind,       \* "idr" or "p"
    slice,      \* size of the packet's slice NAL unit
    sps, pps,   \* sizes of its parameter sets, 0 in a P packet
    rotate,     \* this IDR packet starts a new file
    done,       \* steps of the callback that are over
    marked,     \* the packet's first four bytes are no start code any more
    sentMarked, \* RTSP was given a packet marked so
    from,       \* offset in the packet at which the sample starts
    len,        \* bytes of the sample
    prefix      \* the four bytes written at from

packet == <<kind, slice, sps, pps, rotate>>

packetVars == <<packet, done, marked, sentMarked, from, len, prefix>>

-----------------------------------------------------------------------------
(* Where the slice begins, at its start code, and where the packet ends.   *)
SliceStart == IF kind = "idr" THEN StartCode + sps + StartCode + pps ELSE 0

PacketSize == SliceStart + StartCode + slice

InitPacket ==
    /\ slice \in SliceSizes
    /\ \/ kind = "idr" /\ sps \in SpsSizes /\ pps \in PpsSizes /\ rotate \in BOOLEAN
       \/ kind = "p" /\ sps = 0 /\ pps = 0 /\ rotate = FALSE
    /\ done = 0 /\ marked = FALSE /\ sentMarked = FALSE
    /\ from = 0 /\ len = 0 /\ prefix = <<0, 0, 0, 1>>

-----------------------------------------------------------------------------
BugOrder == <<"record", "send">>
Order == <<"send", "record">>

Turn(what) ==
    /\ done < 2 /\ Order[done + 1] = what
    /\ done' = done + 1

(* rtsp_tx_video takes the packet as it is now.                            *)
SendRtsp ==
    /\ Turn("send")
    /\ sentMarked' = marked
    /\ UNCHANGED <<packet, marked, from, len, prefix>>

Byte(n, weight) == (n \div weight) % 256

BigEndian(n) == <<Byte(n, 16777216), Byte(n, 65536), Byte(n, 256), Byte(n, 1)>>

Value(bytes) == ((bytes[1] * 256 + bytes[2]) * 256 + bytes[3]) * 256 + bytes[4]

(* Where the sample begins after the parameter sets of a new file were     *)
(* copied out, and the length left: one start code is not subtracted.      *)
Skipped == IF rotate THEN StartCode + SPS_FRAME_LEN + StartCode + PPS_FRAME_LEN ELSE 0

BugDeducted == IF rotate THEN 2 * StartCode + Skipped ELSE 0

Deducted == IF rotate THEN PPS_FRAME_LEN + StartCode + SPS_FRAME_LEN ELSE 0

BugPrefixOf(n) == n
PrefixOf(n) == n - 4

Store ==
    /\ Turn("record")
    /\ from' = Skipped
    /\ len' = PacketSize - Deducted
    /\ prefix' = BigEndian(PrefixOf(len'))
    /\ marked' = (Skipped = 0 /\ prefix' # <<0, 0, 0, 1>>)
    /\ UNCHANGED <<packet, sentMarked>>

NextPacket == SendRtsp \/ Store

SpecPacket == InitPacket /\ [][NextPacket]_packetVars

-----------------------------------------------------------------------------
(* RTSP clients get Annex B units: the packet still has its start code     *)
(* when it is sent, though the recorder overwrites it in the same buffer.  *)
RtspGetsStartCode == ~sentMarked

(* The sample of a P slice is one NAL unit behind its own length, all the  *)
(* packet and nothing else; the four bytes decode to it at every size.     *)
DeltaSampleExact ==
    done = 2 /\ kind = "p" =>
        /\ from = 0 /\ len = PacketSize
        /\ Value(prefix) = slice

(* A sample of a packet that begins no file holds all of its slice; that   *)
(* of one that does loses the head of its slice exactly when the encoder's *)
(* parameter sets are together shorter than the 30 bytes the recorder      *)
(* takes them for.  Every sample reaches the packet's end, and runs past   *)
(* it by at most one start code.                                           *)
SliceComplete ==
    done = 2 =>
        /\ from <= SliceStart <=> (rotate => sps + pps >= SPS_FRAME_LEN + PPS_FRAME_LEN)
        /\ from + len \in PacketSize .. PacketSize + StartCode

(* mp4_process.cc:96, the track is declared with "4 bytes length before    *)
(* each NAL unit": the sample starts at a unit, whose length the prefix    *)
(* gives, and ends with it.                                                *)
LengthBeforeEachUnit ==
    done = 2 => from = SliceStart /\ Value(prefix) = slice

=============================================================================
