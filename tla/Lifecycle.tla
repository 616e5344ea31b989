------------------------------ MODULE Lifecycle ------------------------------
(***************************************************************************)
(* Start, run and end of the process: main and destroy_all of              *)
(* src/main.cpp, the channel set-up of src/vi_rga_venc.cpp, the buffer     *)
(* handling of the two worker threads (rknn_yolo_thread of                 *)
(* src/rknn_process.cc, observer_thread of src/monitor.cc) and of the VENC *)
(* callback (src/h264_venc.cc), and the Ctrl-C handler.                    *)
(*                                                                         *)
(* Main is a program of operations, in the order of the source.  What a    *)
(* picture or a packet holds is not modelled, only who owns its buffer.    *)
(* The media library (camera, RGA pools, encoder) is external: RGA channel *)
(* c turns each camera frame into a buffer of its own pool while VI c is   *)
(* streaming into it, SendMediaBuffer adds the encoder as an owner, and a  *)
(* buffer without owners is free again.                                    *)
(***************************************************************************)
EXTENDS Integers, Sequences, FiniteSets

CONSTANTS
    Buffers,        \* buffers of one RGA pool (u16BufPoolCnt of create_rga)
    MaxPackets,     \* bound: encoded packets waiting for the callback
    Fallible        \* resources whose set-up call may fail

Channels == {0, 1}
Threads == {"rknn", "observer"}
ChannelOf == [t \in Threads |-> IF t = "observer" THEN 0 ELSE 1]

Vi(c) == <<"vi", c>>
Rga(c) == <<"rga", c>>
Bind(c) == <<"bind", c>>
Stream(c) == <<"stream", c>>
Single == {<<r, 0>> : r \in {"model", "list", "isp", "rtsp", "sys", "venc", "callback"}}
Resources == Single \cup ({"vi", "rga", "bind", "stream"} \X Channels)

(* Set-up calls whose result main tests.                                   *)
Tested == Resources \ {<<r, 0>> : r \in {"list", "isp", "rtsp", "sys"}}

ASSUME LifecycleAssumption ==
    Fallible \subseteq Tested /\ MaxPackets \in Nat \ {0} /\ IsFiniteSet(Buffers)

-----------------------------------------------------------------------------
(* The program of the main thread.                                         *)
Setup == << <<"up", <<"model", 0>> >>, <<"up", <<"list", 0>> >>,
            <<"up", <<"isp", 0>> >>, <<"up", <<"rtsp", 0>> >>,
            <<"up", <<"sys", 0>> >>,
            <<"up", Vi(0)>>, <<"up", Vi(1)>>,
            <<"up", Rga(0)>>, <<"up", Bind(0)>>,
            <<"up", Rga(1)>>, <<"up", Bind(1)>>,
            <<"up", Stream(1)>>, <<"up", Stream(0)>>,
            <<"up", <<"venc", 0>> >>, <<"up", <<"callback", 0>> >>,
            <<"create", "rknn">>, <<"create", "observer">> >>

BugDestroy == << <<"down", <<"rtsp", 0>> >>,
              <<"down", Bind(0)>>, <<"down", Bind(1)>>,
              <<"join", "observer">>, <<"join", "rknn">>,
              <<"down", Rga(0)>>, <<"down", Rga(1)>>,
              <<"down", Vi(0)>>, <<"down", Vi(1)>>,
              <<"down", <<"isp", 0>> >>, <<"down", <<"list", 0>> >> >>

BugUnbindLate == << <<"join", "observer">>, <<"join", "rknn">>,
              <<"down", <<"rtsp", 0>> >>,
              <<"down", Vi(0)>>, <<"down", Vi(1)>>,
              <<"down", Bind(0)>>, <<"down", Bind(1)>>,
              <<"down", Rga(0)>>, <<"down", Rga(1)>>,
              <<"down", <<"isp", 0>> >>, <<"down", <<"list", 0>> >> >>

(* destroy_all after close_mp4_file_saving (see RecorderShutdown).  The    *)
(* join of get_rga_buffer_thread_id never happens: no one sets that id.    *)
(* VENC is not destroyed, and VI_DisableChn also ends the stream.          *)
Destroy == << <<"join", "observer">>, <<"join", "rknn">>,
              <<"down", <<"rtsp", 0>> >>,
              <<"down", Bind(0)>>, <<"down", Bind(1)>>,
              <<"down", Vi(0)>>, <<"down", Vi(1)>>,
              <<"down", Rga(0)>>, <<"down", Rga(1)>>,
              <<"down", <<"isp", 0>> >>, <<"down", <<"list", 0>> >> >>

BugStop == << >>
Stop == << <<"stop", 0>> >>

Keys == << <<"key", 0>>, <<"key", 0>> >>

Program == Setup \o Keys \o Stop \o Destroy

FirstDestroy == Len(Setup) + Len(Keys) + Len(Stop) + 1

VARIABLES
    at,             \* main: index in Program, past its end when main returns
    ended,          \* the process: "no", "failed" (return -1), "ok" (return 0)
    up,             \* resources set up and not torn down
    flag,           \* g_flag_run
    thread,         \* where each worker thread is
    created,        \* threads whose id is set
    owners,         \* per channel and buffer: who refers to it
    packets,        \* encoded packets not yet delivered
    callback,       \* where the thread that delivers them is
    drained,        \* the encoder was empty when main deleted the RTSP server
    rtspMisused     \* the RTSP server was used after its deletion

vars == <<at, ended, up, flag, thread, created, owners, packets, callback,
          drained, rtspMisused>>

Init ==
    /\ at = 1 /\ ended = "no" /\ up = {} /\ flag = TRUE
    /\ thread = [t \in Threads |-> "off"] /\ created = {}
    /\ owners = [c \in Channels |-> [b \in Buffers |-> {}]]
    /\ packets = 0 /\ callback = "idle"
    /\ drained = TRUE /\ rtspMisused = FALSE

-----------------------------------------------------------------------------
(* The main thread.                                                        *)
Op(kind) == ended = "no" /\ at <= Len(Program) /\ Program[at][1] = kind

Arg == Program[at][2]

InUse(c) == \E b \in Buffers : "venc" \in owners[c][b]

Succeed ==
    /\ Op("up")
    /\ up' = up \cup {Arg}
    /\ at' = at + 1
    /\ UNCHANGED <<ended, flag, thread, created, owners, packets, callback,
                   drained, rtspMisused>>

(* A failed set-up call: main returns -1 and cleans nothing up.            *)
Fail ==
    /\ Op("up") /\ Arg \in Fallible
    /\ ended' = "failed"
    /\ UNCHANGED <<at, up, flag, thread, created, owners, packets, callback,
                   drained, rtspMisused>>

(* pthread_create, whose result is not tested.                             *)
Create ==
    /\ Op("create")
    /\ \/ /\ thread' = [thread EXCEPT ![Arg] = "test"]
          /\ created' = created \cup {Arg}
       \/ UNCHANGED <<thread, created>>
    /\ at' = at + 1
    /\ UNCHANGED <<ended, up, flag, owners, packets, callback, drained, rtspMisused>>

(* A getchar returns.                                                      *)
PressKey ==
    /\ Op("key")
    /\ at' = at + 1
    /\ UNCHANGED <<ended, up, flag, thread, created, owners, packets, callback,
                   drained, rtspMisused>>

ClearFlag ==
    /\ Op("stop")
    /\ flag' = FALSE
    /\ at' = at + 1
    /\ UNCHANGED <<ended, up, thread, created, owners, packets, callback,
                   drained, rtspMisused>>

Join ==
    /\ Op("join")
    /\ Arg \in created => thread[Arg] = "done"
    /\ at' = at + 1
    /\ UNCHANGED <<ended, up, flag, thread, created, owners, packets, callback,
                   drained, rtspMisused>>

Removed(r) == IF r \in {Vi(0), Vi(1)} THEN {r, Stream(r[2])} ELSE {r}

TearDown ==
    /\ Op("down")
    /\ up' = up \ Removed(Arg)
    /\ drained' = IF Arg = <<"rtsp", 0>>
                  THEN packets = 0 /\ callback = "idle" /\ ~InUse(0) ELSE drained
    /\ at' = at + 1
    /\ UNCHANGED <<ended, flag, thread, created, owners, packets, callback, rtspMisused>>

Return ==
    /\ ended = "no" /\ at > Len(Program)
    /\ ended' = "ok"
    /\ UNCHANGED <<at, up, flag, thread, created, owners, packets, callback,
                   drained, rtspMisused>>

(* Ctrl-C, once signal was called: sig_proc clears the flag, and main goes *)
(* on waiting in getchar.                                                  *)
Interrupt ==
    /\ ended = "no" /\ flag
    /\ flag' = FALSE
    /\ UNCHANGED <<at, ended, up, thread, created, owners, packets, callback,
                   drained, rtspMisused>>

-----------------------------------------------------------------------------
(* The worker threads: while (g_flag_run) { get; work; [send;] release }.  *)
Step(t, from, to) ==
    /\ ended = "no" /\ thread[t] = from
    /\ thread' = [thread EXCEPT ![t] = to]

TestFlag(t) ==
    /\ Step(t, "test", IF flag THEN "get" ELSE "done")
    /\ UNCHANGED <<at, ended, up, flag, created, owners, packets, callback,
                   drained, rtspMisused>>

Get(t) ==
    /\ Step(t, "get", "work")
    /\ \E b \in Buffers :
          /\ owners[ChannelOf[t]][b] = {"queue"}
          /\ owners' = [owners EXCEPT ![ChannelOf[t]][b] = {t}]
    /\ UNCHANGED <<at, ended, up, flag, created, packets, callback, drained, rtspMisused>>

BugAfterNull == "work"
AfterNull == "test"

(* GetMediaBuffer returns NULL: sleep and test the flag again.             *)
GetNull(t) ==
    /\ Step(t, "get", AfterNull)
    /\ UNCHANGED <<at, ended, up, flag, created, owners, packets, callback,
                   drained, rtspMisused>>

(* The inference result is handed over as DetectionShare says.             *)
Infer ==
    /\ Step("rknn", "work", "release")
    /\ UNCHANGED <<at, ended, up, flag, created, owners, packets, callback,
                   drained, rtspMisused>>

(* The picture is drawn and sent; a failing send is not noticed.           *)
Send ==
    /\ Step("observer", "work", "release")
    /\ \E b \in Buffers :
          /\ "observer" \in owners[0][b]
          /\ \/ owners' = [owners EXCEPT ![0][b] = @ \cup {"venc"}]
             \/ UNCHANGED owners
    /\ UNCHANGED <<at, ended, up, flag, created, packets, callback, drained, rtspMisused>>

BugReleased(o, t) == o
Released(o, t) == o \ {t}

Release(t) ==
    /\ Step(t, "release", "test")
    /\ owners' = [owners EXCEPT ![ChannelOf[t]] =
                     [b \in Buffers |-> Released(@[b], t)]]
    /\ UNCHANGED <<at, ended, up, flag, created, packets, callback, drained, rtspMisused>>

-----------------------------------------------------------------------------
(* The media library and the packet callback.                              *)
Camera(c) ==
    /\ ended = "no" /\ {Vi(c), Stream(c), Bind(c), Rga(c)} \subseteq up
    /\ \E b \in Buffers :
          /\ owners[c][b] = {}
          /\ owners' = [owners EXCEPT ![c][b] = {"queue"}]
    /\ UNCHANGED <<at, ended, up, flag, thread, created, packets, callback,
                   drained, rtspMisused>>

Encode ==
    /\ ended = "no" /\ <<"venc", 0>> \in up /\ packets < MaxPackets
    /\ \E b \in Buffers :
          /\ "venc" \in owners[0][b]
          /\ owners' = [owners EXCEPT ![0][b] = @ \ {"venc"}]
    /\ packets' = packets + 1
    /\ UNCHANGED <<at, ended, up, flag, thread, created, callback, drained, rtspMisused>>

(* monitor_venc_packet_cb: the packet goes to RTSP when g_rtsplive is set, *)
(* which rtsp_del_demo never resets.                                       *)
Deliver ==
    /\ ended = "no" /\ <<"callback", 0>> \in up /\ packets > 0 /\ callback = "idle"
    /\ callback' = "record"
    /\ rtspMisused' = (rtspMisused \/ <<"rtsp", 0>> \notin up)
    /\ UNCHANGED <<at, ended, up, flag, thread, created, owners, packets, drained>>

(* record_mp4, then the packet's only release.                             *)
Record ==
    /\ ended = "no" /\ callback = "record"
    /\ callback' = "idle"
    /\ packets' = packets - 1
    /\ UNCHANGED <<at, ended, up, flag, thread, created, owners, drained, rtspMisused>>

-----------------------------------------------------------------------------
Main == Succeed \/ Fail \/ Create \/ ClearFlag \/ Join \/ TearDown \/ Return

Worker(t) == TestFlag(t) \/ Release(t) \/ (t = "rknn" /\ Infer) \/ (t = "observer" /\ Send)

Library == (\E c \in Channels : Camera(c)) \/ Encode

Delivery == Deliver \/ Record

Next ==
    \/ Main \/ PressKey \/ Interrupt
    \/ \E t \in Threads : Worker(t) \/ Get(t) \/ GetNull(t)
    \/ Library \/ Delivery

Spec == Init /\ [][Next]_vars

(* No thread is starved, the camera and the encoder keep working, and a    *)
(* thread that asks for buffers again and again while some wait gets one.  *)
(* No one has to press a key.                                              *)
FairSpec ==
    /\ Spec
    /\ WF_vars(Main) /\ WF_vars(Delivery) /\ WF_vars(Encode)
    /\ \A c \in Channels : WF_vars(Camera(c))
    /\ \A t \in Threads : WF_vars(Worker(t)) /\ SF_vars(Get(t))

-----------------------------------------------------------------------------
(* Types, with the bounds the guards give.                                 *)
TypeOK ==
    /\ at \in 1 .. Len(Program) + 1 /\ ended \in {"no", "failed", "ok"}
    /\ up \subseteq Resources /\ flag \in BOOLEAN
    /\ thread \in [Threads -> {"off", "test", "get", "work", "release", "done"}]
    /\ created \subseteq Threads
    /\ owners \in [Channels -> [Buffers -> SUBSET ({"queue", "venc"} \cup Threads)]]
    /\ packets \in 0 .. MaxPackets /\ callback \in {"idle", "record"}
    /\ drained \in BOOLEAN /\ rtspMisused \in BOOLEAN

Alive(t) == ended = "no" /\ thread[t] \notin {"off", "done"}

Needs(t) ==
    LET c == ChannelOf[t] IN
    {Vi(c), Stream(c), Bind(c), Rga(c)}
        \cup (IF t = "rknn" THEN {<<"model", 0>>} ELSE {<<"venc", 0>>})

(* A worker thread never runs on a pipeline that is not complete: it       *)
(* starts after the last set-up call that can fail, and destroy_all takes  *)
(* nothing it works on away before it has joined it.                       *)
PipelineUp == \A t \in Threads : Alive(t) => Needs(t) \subseteq up

(* An RGA channel stays bound to its VI channel only while both exist, in  *)
(* the set-up as in the teardown.                                          *)
BoundEndsExist == \A c \in Channels : Bind(c) \in up => {Vi(c), Rga(c)} \subseteq up

(* Each buffer a thread gets is released once, on every path: it owns one  *)
(* buffer of its channel's pool from the get to the release, none outside. *)
BufferOwned ==
    \A t \in Threads :
        LET mine == {b \in Buffers : t \in owners[ChannelOf[t]][b]} IN
        IF thread[t] \in {"work", "release"} THEN Cardinality(mine) = 1 ELSE mine = {}

(* The callback can touch the deleted RTSP server only with a packet whose *)
(* picture was sent before main deleted it: the joins let nothing follow.  *)
OnlyLatePacketsMisuseRtsp == rtspMisused => ~drained

(* A cleared g_flag_run, by Ctrl-C or by main, ends every worker thread,   *)
(* though it may be blocked in GetMediaBuffer when that happens.           *)
ThreadsStop ==
    \A t \in Threads : (~flag /\ Alive(t)) ~> (thread[t] = "done" \/ ended # "no")

(* Once the keys are pressed the process ends: no join waits for ever.     *)
ShutdownEnds == (at >= FirstDestroy) ~> (ended = "ok")

(* The pools never run dry for good: while the program runs, each thread   *)
(* keeps getting buffers, though the encoder still refers to some.         *)
PicturesFlow ==
    \A t \in Threads : (flag /\ thread[t] = "get") ~> (thread[t] = "work" \/ ~flag)

=============================================================================
