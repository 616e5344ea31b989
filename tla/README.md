# A TLA+ model of the camera, detection and recording program

The program runs on a Rockchip camera board. It takes pictures from the camera,
finds objects in them with a YOLO network, draws boxes into the video, encodes
it as H.264, serves it over RTSP and records it as MP4 files. This directory
holds TLA+ modules of its own logic, the configurations with which TLC checks
them, and theorems that TLAPS proves. Paths are relative to the repository;
`mp4_process.cc:45` means line 45 of `src/mp4_process.cc`.

## 1. The system

| component | state | operations | module |
|---|---|---|---|
| MP4 recorder (`mp4_process.cc`, `utils.cc`) | `hMP4File`, `videoTrack`, `spsflag`, the counters of skipped packets and of groups of pictures, the folder | `record_mp4` per packet, with rotation, retention, creation | `Recorder`, `Recording` |
| bytes of a sample (`mp4_process.cc`, `h264_venc.cc`) | the packet's buffer | RTSP send, in-place change, `MP4WriteSample` | `NalSample` |
| recording at shutdown (`main.cpp`) | `hMP4File` again, and the folder over restarts | `close_mp4_file_saving` by the main thread; crash, power cut, restart | `RecorderShutdown` |
| shared detection (`rknn_process.cc`, `monitor.cc`) | `detect_result_group`, `noBoxCounter`, `boxInfoList`, `boxInfoListNumber` | copy, expire, draw | `DetectionShare`, `DetectionHold` |
| inference (`rknn_model.cc`) | the NPU, `outputs` | `predict` | `Inference` |
| life cycle and pipeline (`main.cpp`, `vi_rga_venc.cpp`) | `g_flag_run`, thread ids, channels, media buffers | set-up, thread loops, Ctrl-C, `destroy_all` | `Lifecycle` |
| YOLO post-processing (`yolo.cc`) | candidate vectors, index array, result group | `process_u8`, quick sort, `nms`, output loop | `YoloDecode`, `YoloPost` |
| geometry (`img_utils.cc`, `monitor.cc`) | the model's picture, one rectangle | `fill_image_data`, mapping of a box | `BoxMap` |
| ISP control (`isp_app.cpp`) | `g_aiq_ctx`, the engine and its settings | `init_isp`, `SAMPLE_COMM_ISP_Stop` | `Isp` |
| watermark and JPEG, configuration, result list | | | not modelled, see 8 |

Four threads meet: main (set-up, two `getchar`, teardown), `rknn_yolo_thread`
(inference), `observer_thread` (drawing) and the media library's thread that
calls `monitor_venc_packet_cb` (RTSP and recording). They share
`detect_result_group`, `g_flag_run`, `hMP4File` and the buffers of the media
library, and no lock is taken anywhere on these paths.

What is hard here, and hard to test: the unlocked result group read field by
field while it is copied; the close of the recording by main while the callback
records; file rotation with creations that fail; workers blocked in the media
library while main waits to join them; buffer pools of three; library calls of
the NPU and the ISP that fail unnoticed; a power cut with a file open; an in-place
sort over two arrays; suppression that marks the array it scans; quantized
thresholds; offsets and lengths written out by hand. `PROJECT.json` lists each
with its line and the properties that would notice it going wrong.

## 2. The modules

**Recorder.** One action per stretch of code between two uses of state another
thread can reach. `pc` says where the callback is: `idle` between packets,
`closeTest`/`close` in `close_mp4_file_saving`, `count`/`find`/`remove` in the
retention loop, `create` and `track` and `params` up to the first sample,
`writeSync`/`writeDelta` at `MP4WriteSample`, `crashed` after
`readdir(NULL)`. `Receive` is the arrival of a packet (skipped, an IDR packet
that starts a file, another IDR packet, a P slice); `Work` is the rest. A
*segment* is what the MP4 library holds for one `MP4CreateEx`; `keyFirst`,
`samples`, `syncs` and `offered` are what it got and should have got. A file's name is
what the code formats of the local time: the pair of the numbers YYYYMMDD and HHMMSS.
The clock is not assumed to run: each creation reads any time of `LocalTimes`, so it may
stand still, be set back or start again in 1970. `files` says per name which segment the
file holds; a creation under a name in use truncates the file. The
library and the file system are external. Left out: globals that are written
and never read (`recordingVideo`, `ppsflag`, `mp4_file_inited`), audio.

**Recording** is what the recorder promises: recordings one after the other,
each begun by a key frame, finished when it holds the configured number of key
frames and never changed afterwards. `Recorder` implements it: an open segment is
a recording in progress, a closed one is finished, and the locations, the skipped
packets, the folder and creations that fail are stuttering.

**RecorderShutdown** extends `Recorder` by the main thread: `BeginDestroy` (the second
`getchar` returns), `MainCloseTest`, `MainClose`, `Exit`. Any callback action can come
between any two of these. The process can also end by the callback's crash or by
`PowerCut` in any state; `Restarted` starts it again with fresh memory and the folder as
it was; the clock is as free as before. `late` records that the process did not end
quietly: a packet was in work or came after main began to close, or main never got
there. `lost` collects the files a process left open: their index is written by
`MP4Close` only.

**NalSample** follows one packet: the callback is the sequence `Order` (RTSP,
then recording), the packet the sizes of its NAL units. The sizes of the parameter sets
are the encoder's (`sps`, `pps`); what the recorder takes them for are the fixed 26 and 4
of the source. Of the bytes only the four that are overwritten are modelled.

**DetectionShare** models the shared group by words. A write is a *generation*
that replaces the words one at a time in any order, as memcpy and memset may;
the reader's actions are the single reads of the drawing loop. `seen` collects
the generations of the words one picture was drawn from. The corner of a box
(left, top) is one word and so is (right, bottom): finer words would only add
mixtures of the same two generations. **DetectionHold** is what the repository's
`README` promises under 0217, without threads or memory; `Hold` maps a write to
its last word. **Inference** extends `DetectionShare` by what happens before a
write: `predict` sets the input, runs the network and gets the outputs, and tests
the result of none of the three calls. `input`, `ran` and `outputs` are the picture
each stage holds; a failing call leaves an older one there. `Turn` is one turn of the
inference loop up to its first write to the shared group.

**Lifecycle.** Main is a sequence of operations (`up`, `create`, `key`, `stop`,
`join`, `down`) in the order of the source. Any tested set-up call may fail,
which ends the process there and then. Each media buffer has a set of owners;
`SendMediaBuffer` adds the encoder, `ReleaseBuffer` takes the caller out.
`Interrupt` is `sig_proc`.

**Isp.** `init_isp` and `SAMPLE_COMM_ISP_Stop` are two straight pieces of code on the
main thread; `at` walks through their statements. Each statement is a wrapper of
`isp_app.cpp` with its guard (most return on a NULL context, some calls do not look)
and the library calls it makes, each of which may fail by itself. `engine` is the
library's engine, `told[s]` what setting `s` was last set to (a set, empty before).
The conversions of the configured levels are kept to the digit: `u32Value / 25.5`
clamped to 1..10, `fec_level * 2.55` truncated and cut at 255, `ldch_level` through an
unsigned type.

**YoloDecode** scans the outputs cell by cell with the source's offset formula into a
flat array: `SkipCell` is a cell the byte test rejects, `EnterCell`, `CompareClass` (one
turn of the class loop) and `LeaveCell` (score, box, push) are one it lets pass. Each
output has its own zero point and scale, as the network's have; the scales are fractions
over one denominator, so the numbers are exact. The properties speak of `Sources`: the
functions that give each candidate a wanted cell, in the order of the scan. **YoloPost**
takes over the candidates. The quick sort is the source's, with the recursion as the
list `todo` of ranges still to sort: `TakeKey` takes the first element of a range out,
`ScanDown` and `ScanUp` are the two inner loops with the move that ends each, `Place`
puts the key into the hole and leaves two ranges, `Return` ends a range of less than
two. `Suppress` and `Emit` are one turn of the outer loop of `nms` and of the loop that
fills the group; scores are percent and overlaps are compared as integers (both sides
times the union). **BoxMap** fills the model's picture row by row, takes any box in it
and maps it to the video picture. **MCFrame** puts `BoxMap` and `NalSample` one after
the other for TLC: the packet is that of the picture drawn, and the two share no
variable.

Each module holds, beside a few definitions, a `Bug...` variant with the same
parameters: a plausible mistake at that place. Replacing the definition by its
variant must make TLC report the property that `PROJECT.json` pairs with it,
which shows that the property depends on this code.

## 3. The properties, and the runs that check them

`rotation` (MCRecorder, four creations, four packets each, two older files, room
for four, creations may fail): `TypeOK`, `KeyFrameFirst`, `FullSegments`,
`NoPacketLost`, `NoUseAfterClose`, `KeptUnlessSameSecond`, `FolderBounded`, the refinement
`ImplementsRecording` and, under fairness, `RotationEnds`. `KeptUnlessSameSecond` is about
the names: whatever the clock does, a recording stays behind its name until another one
is begun in the same local second, and then it is a finished one that is lost. The four
local times are two in 1970 (a start without a clock; one of them is also the name of
an old file) and two around the end of a year, taken in any order and repeatedly. The
bounds let a failed creation be followed by a good one and then by a full
rotation, and the folder fill up.

`shutdown` (three creations, three packets each, three starts of the process):
`QuietShutdownCloses` (no late packet: all files of the process closed, none
twice, also after a restart) and `OneLostPerEnd` (any interleaving: an unclean end
costs at most one recording). Few descriptors let a rotation run into
`readdir(NULL)`, so that crash, power cut and late packets all happen and can
follow each other. The clock has one reading here: both properties speak of segments
and handles, and what names do is the question of `rotation`.

`detection_share` (MCInference: two boxes, expiry after two misses, three analysed
frames, one failing library call): `InBounds`, `NeverOlder`, `ExactWhenQuiet`,
`OldBoxesCleared`, `PictureEnds`, `ImplementsHold`, and `DrawnRecent`: whatever fails,
what is drawn is no older than the last good turn. Two boxes are enough for a loop
bound that grows and shrinks inside a picture, three frames for found, missed and
cleared in any order and for a good turn before and after a failing one. Two
failures (2.2 million states) give the same result and take twice as long.

`lifecycle` (pools of two, two packets in flight, every tested call may fail):
`PipelineUp`, `BoundEndsExist`, `BufferOwned`, `OnlyLatePacketsMisuseRtsp`, `ThreadsStop`,
`ShutdownEnds`, `PicturesFlow`. Two buffers let one wait while the other is worked
on; that the source has three makes no difference to the safety properties, which
are proved for pools of any size.

`frame` (MCFrame; a model's picture of 7 by 7 with four camera rows, which leaves an odd
difference of heights, and a video picture three times as large; ten slice sizes around
the carries of the length bytes; parameter sets of the sizes the recorder expects,
shorter and longer): `CoversObject` and `DrawnInPicture` for every box of the picture,
`RtspGetsStartCode`, `DeltaSampleExact`, `SliceComplete` for every packet. The last one
says when the first slice of a file loses its head: exactly when the encoder's parameter
sets are together shorter than the 30 bytes the recorder takes them for.

`isp` (each level one of thirteen values at and around the bounds of the conversions, up
to two failing calls): `LostOnlyByFailure` (NULL reaches the library, or the engine is
left behind, only after creation or prepare failed), `EngineOrder` (settings, prepare,
start, stop and release in the order the header asks for, except that
`SAMPLE_COMM_ISP_Stop` also releases an engine whose stop failed) and
`SettingsReachEngine` (with no failure the configured levels are in the engine before
the pictures start: `defog_level` in proportion, `ldch_level` as it is, `fec_level` as
the percentage the code makes of it).

`yolo_decode` (two branches with grids of 1 by 2 and 2 by 4, two anchors each, so 20
cells; three classes; another quantization for each branch; `MaxLoud` = 2: any two cells
are not quiet, with bytes on both sides of both thresholds and ties of classes):
`PrefilterSound`, `CandidatesParallel`, `BoxNearCell`. Two cells are enough for a
candidate in the wrong place or order; the theorems cover any number.

`yolo_post` (all inputs of at most four candidates over three chained boxes that
cross two edges, two classes, three scores, three result places):
`SortedWithIndices`, `SuppressionExact`, `BestResults`, `ResultsInPicture`. Four
candidates with three scores give ties, ranges of every length below five on both
sides of a key, a chain in which the middle box is suppressed and must suppress
nothing, and one candidate more than the group holds.

Every cfg switches the deadlock check off for the same reason: the inputs are
bounded and the program may end, so a finished run has no next step.

Four runs are expected to fail; each shows the code doing something else than
a document, a comment or an interface of the repository says.

* `oldest_deleted`: the retention loop deletes nothing. `utils.cc:60` passes the
  object `gParams.mp4_folder` to `%s`, so `remove` gets no recording's path,
  against "删除最老的那个文件" (delete the oldest file) at `mp4_process.cc:32`. With
  200 recordings in the folder the callback repeats the loop, each turn opening
  two directory streams that nothing closes, until `opendir` fails and
  `readdir(NULL)` crashes.
* `double_close`: `inc/mp4v2/file.h:93` says that `MP4Close` closes an opened
  file. The handle is left in `hMP4File` and main closes it without a lock, so a
  rotation after or during `destroy_all` closes or uses it again.
* `nal_length`: `mp4_process.cc:96` declares "4 bytes length before each NAL
  unit". After a rotation the length of the first slice is four too large and
  four bytes past the packet are read (`mp4_process.cc:188`); any other IDR
  packet is stored as one unit that contains SPS, PPS and slice.
* `fec_level`: `README:2` gives the level of the fisheye correction the range 0-255,
  and `config.ini:15` asks for 200. The code (`isp_app.cpp:998`) multiplies it by 2.55 and
  cuts it at 255: the engine gets another level than the configured one, and the
  strongest for everything over 100. The comment at `isp_app.cpp:1001` says percentage.

## 4. Fairness

`Recorder`: the callback thread is not stopped inside a packet
(`WF(Work)`); packets need not come. `Inference` (for `DetectionShare`): the drawing
thread blocks nowhere between getting a buffer and sending it, so `WF(Picture)`;
nothing is assumed of the inference thread, and `PictureEnds` holds although the loop
bound is rewritten meanwhile. `Lifecycle`: weak fairness for main, the callback, the
camera, the encoder and each worker, and strong fairness for a worker's `Get`,
because a get that waits in the library (timeout -1) alternates with failures that
may make it disabled. Pressing a key and Ctrl-C are never assumed. The other
modules have safety properties only and assume nothing.

## 5. What is proved

TLAPS proves for every value of the constants (under the named assumptions of
each module):

* `RecorderProofs`: `TypeCorrect`, `FilesAreFull`, `HandleSafe`, `NoLeakedFile`,
  `StartsWithKeyFrame`, `RotationLosesNothing`. None of the properties is inductive. The
  invariant `IInv` adds where `hMP4File` dangles (`Dangling`: from `MP4Close` to the
  next `MP4CreateEx`), that it always names the newest segment, and how many key frames
  the open file has as a function of the rotation counter and the location. One lemma
  per action shows that it is preserved, with one step per conjunct. Assumption:
  `RecorderAssumption` (ranges of the settings). `RecorderImplementsRecording` follows
  from the same invariant: each action of the recorder is a step of `Recording` or a
  stutter. `FolderNeverOverfull` has a small invariant of its own (`Room`).
  `KeptAtAnyClock` holds for any set of local times (`ClockAssumption` gives the ranges
  of a `struct tm`) and any old files (`FolderAssumption`): the lemmas about names show
  that the year, month, day, hour, minute and second can be read back from a name, so
  that equal names mean equal seconds, and its invariant `Held` says which creation owns
  each name. `QuietEndClosesAll` and `UncleanEndCostsOne` are about `RecorderShutdown`:
  the recorder's invariant does not survive late packets, so `ShutdownIInv` asks less of
  a process that does not end quietly.
* `DetectionShareProofs`: `TypeCorrect`, `ArraysSafe`, `NeverGoesBack`,
  `QuietPictureExact`, `OldBoxesExpire` and the refinement `SharedGroupHolds`. `IInv`
  says that every word is of the current generation or, while its replacement is
  pending, of the one before; that the box list is as long as the loop index; and what
  the miss counter has to do with the frames without a box. For the refinement each
  action is shown to be a step of `DetectionHold` or a stutter. `InferenceShares` shows
  that `Inference` is a `DetectionShare`, so all of these hold for it, and
  `StaleResultsEnd` is `DrawnRecent`: every stage of the NPU is at least as new as the
  last good turn, and so is every write since.
* `LifecycleProofs`: `ThreadsHaveTheirPipeline`, `BindingsHaveEnds`,
  `OneBufferPerThread` and `RtspMisuseIsLate`, for pools of any size and any set of
  calls that may fail. The invariant gives what is up as a function of main's place in
  the program, and a thread's buffer as a function of the thread's place in its loop.
* `NalSampleProofs`: `RtspFirst`, `DeltaExactAtEverySize`, `SliceKeptWhole`, for slices
  and parameter sets of any sizes whose packet a signed 32-bit length holds
  (`NalAssumption`). `SliceKeptWhole` gives the exact condition under which the first
  slice of a file is whole, and that no sample ends before the packet or more than a
  start code behind it. `BytesDecode` shows that the four length bytes give the length
  back.
* `IspProofs`: `LossNeedsFailure`, `EngineInOrder`, `ConfigReachesEngine`, for all
  levels and any number of failures. `EngineInv` ties context and engine to main's place
  and to what failed; each setting then has a small invariant of its own (it was told
  once its statement is passed), and two lemmas do the arithmetic of the conversions.
  `EngineInOrder` covers all failures but leaves out the release after a failed stop,
  which the code does and the header does not allow for; `ConfigReachesEngine` takes
  `fec_level` as the percentage of the code, see `fec_level` in 3.
* `YoloPostProofs`: `TypeCorrect`, `SortCorrect`, `SuppressionCorrect`, `BestKept` and
  `InPicture`, for any number of candidates and any boxes, scores and thresholds. While
  a range is partitioned one element is out of the arrays, and `score` and `order` by
  themselves are no permutation. The invariant therefore speaks of `FullScore` and
  `FullOrder`, the arrays with that element put back into the hole: every scan is then a
  swap of two places (`ScanSwaps`, `SwapPermutes`). The order is `Apart`: two places
  that are not in one range still to sort are in order already. `SwapKeepsApart` keeps
  it through a swap inside the range in work, `Partitioned` says what the two scans have
  passed, and `PlaceStep` splits the range from the two. `Suppressed` separates the
  places `nms` has been at (what is left there overlaps nothing left behind it, what is
  gone was taken by a better one) from those to come. `SortAdvances` and
  `SortNeverStuck` are the sort's end, put as safety: every step makes the places of the
  pending ranges fewer, or else the ranges, or else brings the partition on, each round
  of scans over fewer places (which needs `Ahead`: after a scan down the element at
  `low` exceeds the key); and each scan has a place to stop. The latter takes the least
  element of a set of numbers, from the library's `WFMin`. No run states either.
  `Filled` has a function `pick` from results to places, rising, that misses a place
  only when the group was full before it.
* `YoloDecodeProofs`: `PrefilterCorrect`, `VectorsParallel` and `BoxPlaced`, for any
  number of branches, anchors and classes, grids of any size and any quantization of
  each output that meets `DecodeAssumption`. `AtCell` undoes the offset formula,
  `Prefilter` shows that a confidence below the truncated byte threshold leaves the
  product below the float one, and `AdvanceScan` that the four counters visit the cells
  in the order `Before`. The invariant has a function from candidates to cells (`Maps`)
  that misses no wanted cell passed, and `ClassLoop`: of the classes so far the first of
  the best is kept. `FitsPostProcessing` closes the gap to `YoloPost`: what is handed
  over has parallel vectors, scores above the threshold and no negative width or height,
  which is what `PostAssumption` asks for. No single run covers both modules, so this is
  a theorem without a run.
* `BoxMapProofs`: `DrawnCovers` and `DrawnInside`, for pictures of any sizes with the
  ratio the two RGA channels have (`BoxMapAssumption`). The lemmas `ColumnsExact`,
  `UpperEdge`, `RowsCovered` and `RowsInPicture` do the arithmetic.

## 6. What is only model-checked

Every liveness property (`RotationEnds`, `PictureEnds`, `ThreadsStop`,
`ShutdownEnds`, `PicturesFlow`): the prover does not reason about fairness or
`ENABLED`. The end of the quick sort of `YoloPost` is proved without them, by
`SortAdvances` and `SortNeverStuck`. All safety properties and refinements of the
passing runs are proved.

## 7. Abstractions to know about

* A name is made of the local time alone. Two recordings begun in one local second
  share it and the second overwrites the first; nothing in the repository promises
  otherwise, so `KeptUnlessSameSecond` says that this is the only way to lose one.
* A closed file counts as written (`inc/mp4v2/file.h:93` says that the close writes out
  what is pending); no `fsync` is called, so a power cut soon after may lose more.
* `AddTrack` and `WriteSample` on an open handle do not fail.
* A P slice or IDR packet is one event; what encoder and NPU compute is input.
* Floating point is exact here. A score or overlap within rounding of its
  threshold may fall on the other side in the program.
* Box corners are whole numbers before clamping; the program truncates the
  clamped value, which keeps order and limits.
* A turn of the inference whose `outputs` are still NULL (the very first calls failed)
  ends the process by a NULL read and has no next state in `Inference`.
* The `fec_enable` of `README:8` is not read any more; the correction is always on.
* A failing `pthread_create` leaves a thread id unset, as the globals start at 0.
* The outputs of the network are taken to be sigmoid values of at most one
  (`DecodeAssumption`); otherwise the byte threshold could drop a candidate.

What some properties do not say:

* `NeverOlder` and `ExactWhenQuiet` allow a label and a box of two different detections in
  one picture: with no lock that is what the code does.
* `ThreadsStop` is about the workers. Main leaves `getchar` only when somebody presses a
  key; after Ctrl-C alone the process stays, with its workers gone.
* `DrawnInPicture` leaves out a box that begins below the camera's rows of the model's
  picture, where the drawn height is negative.
* `CandidatesParallel` compares only the number of coordinates with that of the
  candidates; which cell they come from is `BoxNearCell`.

## 8. What is not modelled, and why

Watermark, drawing primitives and JPEG (`monitor.cc`): pixels, by one thread on one
picture. `save_jpeg` divides by `jpeg_interval`; nothing in the repository says which
values it may have, so there is no property to state. Configuration (`param.cc`): read
before the threads start; its values are constants here. `init_model`: queries that fill
constants of the network. The setters of `isp_app.cpp` that `init_isp` does not call are
reached from nowhere. The result list (`rknn_funcs.cpp`) is created and destroyed and
not used between. `main_test`, `init_model_by_model_path`, `venc1_packet_cb`,
`observer_thread_good`, `main.origin` and `sample_common_isp.backup` are reached from
nowhere, too. Most of the repository's lines are headers of the ISP, NPU, RGA and MP4
libraries and vendored sources: there is no behaviour in them to model beyond the calls
the program makes.

## 9. Order of the modules

The modules were written with the most shared state first: Recorder,
RecorderShutdown, DetectionHold and DetectionShare, Lifecycle, NalSample, YoloDecode,
YoloPost, BoxMap; then Recording, Isp and Inference. The proofs came in the order
recorder, shared detection, geometry, shutdown, life cycle, samples, ISP,
post-processing. What could follow:

* `Recorder` and `Lifecycle` composed, so that the recording's end and the order of
  `destroy_all` are seen together; here `RecorderShutdown` takes the rest of
  `destroy_all` as one step that touches nothing of the recorder;
* an abstract post-processing (the best non-overlapping candidates of a picture) that
  `YoloDecode` and `YoloPost`, composed, implement; `FitsPostProcessing` is its first
  half.
