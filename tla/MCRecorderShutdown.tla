------------------------- MODULE MCRecorderShutdown -------------------------
(***************************************************************************)
(* Small instances of RecorderShutdown for TLC.                            *)
(***************************************************************************)
EXTENDS RecorderShutdown

(* One clock reading: no property of these instances depends on names.     *)
MCLocalTimes ==
    {[year |-> 124, mon |-> 1, mday |-> 7, hour |-> 12, min |-> 0, sec |-> 0]}

MCOldFiles == {<<20240206, 120000>>, <<20240207, 110000>>}

=============================================================================
