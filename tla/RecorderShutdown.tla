-------------------------- MODULE RecorderShutdown --------------------------
(***************************************************************************)
(* The recorder over the whole life of the board: shutdown, crash, power   *)
(* cut and restart.                                                        *)
(*                                                                         *)
(* At a shutdown (src/main.cpp) the main thread leaves its two getchar     *)
(* calls, clears g_flag_run and runs destroy_all, whose first call is      *)
(* close_mp4_file_saving, on the same hMP4File and with no lock, while the *)
(* VENC callback still delivers packets: the VENC channel is never         *)
(* destroyed, so it stops only when the process ends.  The rest of         *)
(* destroy_all touches no state of the recorder and is one step here       *)
(* (Lifecycle has its order).                                              *)
(*                                                                         *)
(* The process may also end by a crash of the callback or a power cut, in  *)
(* any state.  The folder outlives it, its memory does not, and a file it  *)
(* left open is lost: only MP4Close writes the index of an MP4 file.       *)
(***************************************************************************)
EXTENDS Recorder

CONSTANT MaxStarts      \* bound: starts of the process

ASSUME ShutdownAssumption == MaxStarts \in Nat \ {0}

VARIABLES
    mainPc,     \* where the main thread is
    late,       \* a packet was in work or came since main began to close, or
                \* the process did not end by main's return
    starts,     \* starts of the process
    unclean,    \* processes before this one that ended with late
    lost        \* segments a process left open

shutdownVars == <<vars, mainPc, late, starts, unclean, lost>>

MainLocations == {"getchar", "closeTest", "close", "joining", "exited"}

InitShutdown ==
    /\ Init
    /\ mainPc = "getchar" /\ late = FALSE
    /\ starts = 1 /\ unclean = 0 /\ lost = {}

Closing == mainPc \notin {"getchar", "exited"}

(* The callback thread, alive until the process is gone; its segmentation  *)
(* fault ends the process.                                                 *)
Callback ==
    /\ mainPc # "exited"
    /\ Next
    /\ IF pc' = "crashed"
       THEN mainPc' = "exited" /\ late' = TRUE
       ELSE mainPc' = mainPc /\ late' = (late \/ Closing)
    /\ UNCHANGED <<starts, unclean, lost>>

(* getchar returned twice: g_flag_run = 0 and destroy_all begins.          *)
BeginDestroy ==
    /\ mainPc = "getchar"
    /\ mainPc' = "closeTest"
    /\ late' = (pc # "idle")
    /\ UNCHANGED <<vars, starts, unclean, lost>>

MainCloseTest ==
    /\ mainPc = "closeTest"
    /\ mainPc' = IF CloseTarget(handle) = "close" THEN "close" ELSE "joining"
    /\ UNCHANGED <<vars, late, starts, unclean, lost>>

(* hMP4File is read a second time for the call.                            *)
MainClose ==
    /\ mainPc = "close"
    /\ IF handle = NoFile THEN UNCHANGED <<status, misused>> ELSE MP4Close(handle)
    /\ mainPc' = "joining"
    /\ UNCHANGED <<pc, passed, spsflag, gops, handle, track, dirs, files,
                   born, stored, offered, tries, late, starts, unclean, lost>>

Exit ==
    /\ mainPc = "joining"
    /\ mainPc' = "exited"
    /\ UNCHANGED <<vars, late, starts, unclean, lost>>

PowerCut ==
    /\ mainPc # "exited"
    /\ mainPc' = "exited" /\ late' = TRUE
    /\ UNCHANGED <<vars, starts, unclean, lost>>

LeftOpen == {s \in Segments \ lost : status[s] = "open"}

(* The program is started again: the globals and the static counters have  *)
(* their initial values; the folder is as it was.                          *)
Restarted ==
    /\ mainPc = "exited" /\ starts < MaxStarts
    /\ starts' = starts + 1
    /\ lost' = lost \cup LeftOpen
    /\ unclean' = IF late THEN unclean + 1 ELSE unclean
    /\ mainPc' = "getchar" /\ late' = FALSE
    /\ pc' = "idle" /\ passed' = 0 /\ spsflag' = FALSE /\ gops' = 0
    /\ handle' = NoFile /\ track' = FALSE /\ dirs' = 0 /\ misused' = FALSE
    /\ UNCHANGED <<files, library, offered, tries>>

Destroy == MainCloseTest \/ MainClose \/ Exit

NextShutdown == Callback \/ BeginDestroy \/ Destroy \/ PowerCut \/ Restarted

SpecShutdown == InitShutdown /\ [][NextShutdown]_shutdownVars

-----------------------------------------------------------------------------
(* When the encoder is quiet from the moment main begins to close until    *)
(* the process ends, every recording of the process is closed exactly      *)
(* once, so that its index reaches the disk; also after a restart.         *)
QuietShutdownCloses ==
    mainPc = "exited" /\ ~late => LeftOpen = {} /\ ~misused

(* A crash, a power cut or late packets, however they interleave with the  *)
(* close, cost at most one recording each, over any number of restarts:    *)
(* every other one was closed by the rotation that replaced it or by main. *)
OneLostPerEnd ==
    /\ Cardinality(lost) <= unclean
    /\ Cardinality(LeftOpen) <= 1

(* inc/mp4v2/file.h:93 "MP4Close closes a previously opened mp4 file":     *)
(* every call gets a file that is open.                                    *)
CloseOnlyOpened == ~misused

=============================================================================
