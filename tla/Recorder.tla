------------------------------ MODULE Recorder ------------------------------
(***************************************************************************)
(* The MP4 recorder of src/mp4_process.cc with the folder helpers of       *)
(* src/utils.cc, as the thread that delivers VENC packets runs them:       *)
(* monitor_venc_packet_cb calls record_mp4 once per H.264 packet.          *)
(*                                                                         *)
(* One action stands for the code between two uses of state another thread *)
(* can reach (the handle hMP4File, the MP4 library, the folder), so that   *)
(* RecorderShutdown can put the main thread's close between any two of     *)
(* them.  The MP4 library and the file system are external: a segment is   *)
(* what the library holds for one MP4CreateEx.  The globals that are only  *)
(* written (recordingVideo, ppsflag, mp4_file_inited) are left out.        *)
(* SPS-led IDR packets ("idr") and P slices ("p") are the packets that     *)
(* change state; any other packet returns without an effect.               *)
(***************************************************************************)
EXTENDS Integers, FiniteSets

CONSTANTS
    SaveMp4,        \* gParams.save_mp4
    PassFrameNum,   \* PASS_FRAME_NUM, packets skipped at the start
    Mp4Length,      \* gParams.mp4_length_sec, counted in IDR packets
    FileLimit,      \* g_file_number
    MaxDirs,        \* directory streams the process can have open
    OldFiles,       \* names of the recordings already in the folder
    LocalTimes,     \* what localtime may return, in any order
    CreateMayFail,  \* whether MP4CreateEx may return the invalid handle
    MaxSegments,    \* bound: calls of MP4CreateEx
    MaxPerSegment   \* bound: packets due to one segment

ASSUME RecorderAssumption ==
    /\ SaveMp4 \in BOOLEAN /\ CreateMayFail \in BOOLEAN
    /\ PassFrameNum \in Nat /\ Mp4Length \in Nat
    /\ FileLimit \in Nat \ {0} /\ MaxDirs \in Nat
    /\ MaxSegments \in Nat /\ MaxPerSegment \in Nat

ASSUME FolderAssumption ==
    /\ OldFiles \subseteq Int \X Int /\ IsFiniteSet(OldFiles)
    /\ Cardinality(OldFiles) <= FileLimit

ASSUME ClockAssumption ==
    LocalTimes \subseteq [year : 0 .. 8099, mon : 0 .. 11, mday : 1 .. 31,
                          hour : 0 .. 23, min : 0 .. 59, sec : 0 .. 60]

VARIABLES
    pc,         \* where the callback thread is
    passed,     \* passFrameCounter
    spsflag,    \* spsflag = 1: a first SPS was found
    gops,       \* finishFileTimeCounter
    handle,     \* hMP4File, NoFile for MP4_INVALID_FILE_HANDLE (NULL)
    track,      \* videoTrack is a track of the segment in handle
    dirs,       \* directory streams opened and never closed
    files,      \* the folder: per name the segment the file holds, NoFile for
                \* a recording that was there at the start
    status,     \* per segment: what became of its MP4CreateEx
    born,       \* per segment: the local time its name was made of
    keyFirst,   \* per segment: its first sample is a key frame
    samples,    \* per segment: samples stored
    syncs,      \* per segment: key frames stored
    offered,    \* per segment: packets received while it was the latest one
    tries,      \* number of calls of MP4CreateEx so far
    misused     \* an MP4 call got a handle that is already closed

stored == <<keyFirst, samples, syncs>>
library == <<status, born, keyFirst, samples, syncs>>

vars == <<pc, passed, spsflag, gops, handle, track, dirs, files,
          library, offered, tries, misused>>

-----------------------------------------------------------------------------
NoFile == 0
Segments == 1 .. MaxSegments

(* A struct tm before localtime filled it.                                 *)
NoTime == [year |-> 0, mon |-> 0, mday |-> 0, hour |-> 0, min |-> 0, sec |-> 0]

Statuses == {"none", "open", "closed", "failed"}

Locations == {"idle", "closeTest", "close", "count", "find", "remove",
              "create", "track", "params", "writeSync", "writeDelta", "crashed"}

Init ==
    /\ pc = "idle" /\ passed = 0 /\ spsflag = FALSE /\ gops = 0
    /\ handle = NoFile /\ track = FALSE /\ dirs = 0
    /\ files = [f \in OldFiles |-> NoFile]
    /\ status = [s \in Segments |-> "none"]
    /\ born = [s \in Segments |-> NoTime]
    /\ keyFirst = [s \in Segments |-> FALSE]
    /\ samples = [s \in Segments |-> 0]
    /\ syncs = [s \in Segments |-> 0]
    /\ offered = [s \in Segments |-> 0]
    /\ tries = 0 /\ misused = FALSE

-----------------------------------------------------------------------------
(* Receiving a packet: record_mp4 up to the frame type tests.              *)

Recording == SaveMp4 /\ passed >= PassFrameNum

PassFrame ==
    /\ pc = "idle" /\ SaveMp4 /\ passed < PassFrameNum
    /\ passed' = passed + 1
    /\ UNCHANGED <<pc, spsflag, gops, handle, track, dirs, files,
                   library, offered, tries, misused>>

BugTimeUp(count) == count > Mp4Length \/ ~spsflag
TimeUp(count) == count >= Mp4Length \/ ~spsflag

Offer(s) ==
    offered' = [r \in Segments |-> IF r = s THEN offered[r] + 1 ELSE offered[r]]

RotatingIdr ==
    /\ pc = "idle" /\ Recording /\ TimeUp(gops + 1)
    /\ tries < MaxSegments
    /\ gops' = gops + 1
    /\ pc' = "closeTest"
    /\ Offer(tries + 1)
    /\ UNCHANGED <<passed, spsflag, handle, track, dirs, files,
                   library, tries, misused>>

PlainIdr ==
    /\ pc = "idle" /\ Recording /\ ~TimeUp(gops + 1)
    /\ offered[tries] < MaxPerSegment
    /\ gops' = gops + 1
    /\ pc' = "writeSync"
    /\ Offer(tries)
    /\ UNCHANGED <<passed, spsflag, handle, track, dirs, files,
                   library, tries, misused>>

DeltaFrame ==
    /\ pc = "idle" /\ Recording
    /\ tries \in Segments => offered[tries] < MaxPerSegment
    /\ pc' = "writeDelta"
    /\ Offer(tries)
    /\ UNCHANGED <<passed, spsflag, gops, handle, track, dirs, files,
                   library, tries, misused>>

-----------------------------------------------------------------------------
(* reset_new_mp4_file: close_mp4_file_saving, then create_mp4_file.        *)

BugCloseTarget(h) == "count"
CloseTarget(h) == IF h # NoFile THEN "close" ELSE "count"

CloseTest ==
    /\ pc = "closeTest"
    /\ pc' = CloseTarget(handle)
    /\ UNCHANGED <<passed, spsflag, gops, handle, track, dirs, files,
                   library, offered, tries, misused>>

(* MP4Close on the segment h, for whichever thread calls it.               *)
MP4Close(h) ==
    IF status[h] = "open"
    THEN status' = [status EXCEPT ![h] = "closed"] /\ UNCHANGED misused
    ELSE misused' = TRUE /\ UNCHANGED status

Close ==
    /\ pc = "close"
    /\ MP4Close(handle)
    /\ pc' = "count"
    /\ UNCHANGED <<passed, spsflag, gops, handle, track, dirs, files,
                   born, stored, offered, tries>>

(* opendir fails when no descriptor is left, and readdir(NULL) crashes;    *)
(* nothing ever calls closedir.                                            *)
ScanFolder(next) ==
    IF dirs < MaxDirs THEN dirs' = dirs + 1 /\ pc' = next
                      ELSE pc' = "crashed" /\ UNCHANGED dirs

BugFull(n) == n > FileLimit
BugFullSwapped(n) == n <= FileLimit
Full(n) == n >= FileLimit

CountFiles ==
    /\ pc = "count"
    /\ ScanFolder(IF Full(Cardinality(DOMAIN files)) THEN "find" ELSE "create")
    /\ UNCHANGED <<passed, spsflag, gops, handle, track, files,
                   library, offered, tries, misused>>

FindOldest ==
    /\ pc = "find"
    /\ ScanFolder("remove")
    /\ UNCHANGED <<passed, spsflag, gops, handle, track, files,
                   library, offered, tries, misused>>

(* The path handed to remove is printed from the std::string object itself *)
(* and not from its characters, so it names no recording and remove fails. *)
RemoveOldest ==
    /\ pc = "remove"
    /\ pc' = "count"
    /\ UNCHANGED <<passed, spsflag, gops, handle, track, dirs, files,
                   library, offered, tries, misused>>

(* YYYYMMDDhhmmss: the digits of the date and those of the time, the two   *)
(* halves of a 64-bit number in the code.                                  *)
BugFileName(t) ==
    <<(t.year + 1900) * 10000 + (t.mon + 1) * 100 + t.mday,
      t.hour * 10000 + t.min * 10 + t.sec>>
FileName(t) ==
    <<(t.year + 1900) * 10000 + (t.mon + 1) * 100 + t.mday,
      t.hour * 10000 + t.min * 100 + t.sec>>

BugHandleAfterFailure(h) == h
HandleAfterFailure(h) == NoFile

(* MP4CreateEx puts an empty file behind the name, whatever was there.     *)
PutFile(f, s) ==
    files' = [g \in DOMAIN files \cup {f} |-> IF g = f THEN s ELSE files[g]]

CreateFile(now) ==
    LET s == tries + 1 IN
    /\ pc = "create"
    /\ tries' = s
    /\ pc' = "track"
    /\ \/ /\ handle' = s
          /\ born' = [born EXCEPT ![s] = now]
          /\ PutFile(FileName(now), s)
          /\ status' = [status EXCEPT ![s] = "open"]
       \/ /\ CreateMayFail
          /\ handle' = HandleAfterFailure(handle)
          /\ status' = [status EXCEPT ![s] = "failed"]
          /\ UNCHANGED <<files, born>>
    /\ UNCHANGED <<passed, spsflag, gops, track, dirs, stored, offered, misused>>

(* An MP4 call on hMP4File now uses a file that is closed.                 *)
UsesClosed == handle # NoFile /\ status[handle] = "closed"

(* MP4AddH264VideoTrack on handle: no track for the invalid handle.        *)
AddTrack ==
    /\ pc = "track"
    /\ spsflag' = TRUE
    /\ track' = (handle # NoFile /\ status[handle] = "open")
    /\ misused' = (misused \/ UsesClosed)
    /\ pc' = "params"
    /\ UNCHANGED <<passed, gops, handle, dirs, files, library, offered, tries>>

BugRestart == -1
Restart == 0

BugAfterParams == "idle"
AfterParams == "writeSync"

(* MP4AddH264SequenceParameterSet and MP4AddH264PictureParameterSet.       *)
AddParameterSets ==
    /\ pc = "params"
    /\ gops' = Restart
    /\ misused' = (misused \/ UsesClosed)
    /\ pc' = AfterParams
    /\ UNCHANGED <<passed, spsflag, handle, track, dirs, files,
                   library, offered, tries>>

-----------------------------------------------------------------------------
(* MP4WriteSample: stored when handle is open and has a track, refused for *)
(* the invalid handle, undefined for one that is closed.                   *)
MP4WriteSample(isSync) ==
    /\ IF handle # NoFile /\ status[handle] = "open" /\ track
       THEN /\ samples' = [samples EXCEPT ![handle] = @ + 1]
            /\ syncs' = IF isSync THEN [syncs EXCEPT ![handle] = @ + 1] ELSE syncs
            /\ keyFirst' = IF samples[handle] > 0 THEN keyFirst
                           ELSE [keyFirst EXCEPT ![handle] = isSync]
       ELSE UNCHANGED stored
    /\ misused' = (misused \/ UsesClosed)
    /\ UNCHANGED <<status, born>>

WriteSync ==
    /\ pc = "writeSync"
    /\ MP4WriteSample(TRUE)
    /\ pc' = "idle"
    /\ UNCHANGED <<passed, spsflag, gops, handle, track, dirs, files,
                   offered, tries>>

WriteDelta ==
    /\ pc = "writeDelta"
    /\ MP4WriteSample(FALSE)
    /\ pc' = "idle"
    /\ UNCHANGED <<passed, spsflag, gops, handle, track, dirs, files,
                   offered, tries>>

-----------------------------------------------------------------------------
(* The packets come from the encoder; the rest is the thread's own work.   *)
Receive == PassFrame \/ RotatingIdr \/ PlainIdr \/ DeltaFrame

Work == \/ CloseTest \/ Close
        \/ CountFiles \/ FindOldest \/ RemoveOldest
        \/ \E now \in LocalTimes : CreateFile(now)
        \/ AddTrack \/ AddParameterSets
        \/ WriteSync \/ WriteDelta

Next == Receive \/ Work

Spec == Init /\ [][Next]_vars

(* The thread is never stopped in the middle of a packet.                  *)
FairSpec == Spec /\ WF_vars(Work)

-----------------------------------------------------------------------------
FolderTypeOK ==
    /\ DOMAIN files \subseteq Int \X Int
    /\ files \in [DOMAIN files -> {NoFile} \cup Segments]
    /\ born \in [Segments -> LocalTimes \cup {NoTime}]

(* Types, with the bounds the guards give.                                 *)
TypeOK ==
    /\ pc \in Locations /\ passed \in 0 .. PassFrameNum
    /\ spsflag \in BOOLEAN /\ track \in BOOLEAN /\ misused \in BOOLEAN
    /\ gops \in Nat /\ handle \in {NoFile} \cup Segments
    /\ dirs \in 0 .. MaxDirs /\ FolderTypeOK
    /\ status \in [Segments -> Statuses]
    /\ keyFirst \in [Segments -> BOOLEAN] /\ samples \in [Segments -> Nat]
    /\ syncs \in [Segments -> Nat] /\ offered \in [Segments -> Nat]
    /\ tries \in 0 .. MaxSegments

IsStored(s) == status[s] \in {"open", "closed"}

(* Key frames of a full recording.                                         *)
Length == IF Mp4Length = 0 THEN 1 ELSE Mp4Length

(* The first sample of every file is a key frame: the P slices that reach  *)
(* record_mp4 before the first IDR packet, or after a failed creation, end *)
(* up in no file.                                                          *)
KeyFrameFirst == \A s \in Segments : samples[s] > 0 => keyFirst[s]

(* mp4_length is the length of a file: a file that rotation closed holds   *)
(* exactly mp4_length groups of pictures (one when it is configured as 0), *)
(* the counter being shared by files, failed creations and the first file. *)
FullSegments ==
    \A s \in Segments : status[s] = "closed" =>
        syncs[s] = Length

(* No packet is lost at a rotation: whenever the callback is between two   *)
(* packets, each file holds every packet received since it was created,    *)
(* the IDR packet that caused the rotation included.                       *)
NoPacketLost ==
    pc = "idle" => \A s \in Segments :
        IsStored(s) => samples[s] = offered[s]

(* close_mp4_file_saving leaves hMP4File dangling, and nothing is lost by  *)
(* it as long as one thread records: the only file ever open is the one in *)
(* hMP4File, so rotation never leaks an open file.                         *)
OnlyCurrentOpen == \A s \in Segments : status[s] = "open" => s = handle

(* ... and no MP4 call ever gets a handle that was closed before, however  *)
(* many creations fail in between.                                         *)
NoUseAfterClose == ~misused

(* Recordings are named by the local second, and the clock may stand still *)
(* between two creations, be set back, or start again in 1970: a recording *)
(* stays behind its name until one is begun in the very second of its own  *)
(* beginning, and then it is a finished one that is lost, never the one    *)
(* being written.                                                          *)
KeptUnlessSameSecond ==
    /\ \A s \in Segments : IsStored(s) /\ files[FileName(born[s])] # s =>
          /\ status[s] = "closed"
          /\ \E r \in Segments : r > s /\ IsStored(r) /\ born[r] = born[s]
    /\ \A f \in OldFiles : files[f] # NoFile =>
          \E s \in Segments : IsStored(s) /\ FileName(born[s]) = f

(* The folder never holds more than g_file_number recordings.              *)
FolderBounded == Cardinality(DOMAIN files) <= FileLimit

(* A rotation ends and the callback gets back to the encoder's next packet *)
(* (with descriptors left), unless the folder is full: then it never does. *)
RotationEnds ==
    (pc = "closeTest") ~> (pc = "idle" \/ Cardinality(DOMAIN files) >= FileLimit)

(* The recorder, with its thread locations, failed creations and folder,   *)
(* does nothing to the recordings that Recording would not do: a failed    *)
(* creation begins no recording, and its packets change none.              *)
RecordingState ==
    [s \in Segments |-> IF status[s] = "open" THEN "open"
                        ELSE IF status[s] = "closed" THEN "finished" ELSE "none"]

R == INSTANCE Recording WITH
        Files <- Segments, state <- RecordingState, keys <- syncs

ImplementsRecording == R!Spec

(* The order of the numbers the names stand for.                           *)
NotLater(f, g) == f[1] < g[1] \/ (f[1] = g[1] /\ f[2] <= g[2])

(* mp4_process.cc:32 "delete that oldest file": the step that deletes      *)
(* takes the recording with the smallest time stamp out of the folder.     *)
OldestDeleted ==
    [][pc = "remove" /\ pc' = "count" =>
        DOMAIN files' = DOMAIN files
            \ {f \in DOMAIN files : \A g \in DOMAIN files : NotLater(f, g)}]_vars

=============================================================================
