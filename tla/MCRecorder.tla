----------------------------- MODULE MCRecorder -----------------------------
(***************************************************************************)
(* Small instances of Recorder for TLC.                                    *)
(***************************************************************************)
EXTENDS Recorder

At(year, mon, mday, hour, min, sec) ==
    [year |-> year, mon |-> mon, mday |-> mday, hour |-> hour, min |-> min, sec |-> sec]

(* Two seconds after a start without a clock, in 1970, and two of a clock  *)
(* that was set, around the end of a year.                                 *)
MCLocalTimes == {At(70, 0, 1, 0, 1, 0), At(70, 0, 1, 0, 0, 10),
                 At(123, 11, 31, 23, 59, 59), At(124, 0, 1, 0, 0, 0)}

(* One of an earlier start without a clock, at a second that comes again.  *)
MCOldFiles == {<<19700101, 10>>, <<20231230, 120000>>}

=============================================================================
