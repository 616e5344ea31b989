------------------------------- MODULE MCIsp -------------------------------
(***************************************************************************)
(* Small instance of Isp for TLC: levels at and around the bounds of every *)
(* conversion, the values of config.ini among them.                        *)
(***************************************************************************)
EXTENDS Isp

BoundaryLevels == {-1, 0, 1, 5, 25, 26, 99, 100, 101, 200, 254, 255, 256}

=============================================================================
