----------------------------- MODULE MCNalSample -----------------------------
(* Slices whose lengths need one, two or three bytes, and the carries      *)
(* between; an encoded picture is not larger than a raw one of 3110400.    *)
(* Parameter sets of the sizes the recorder expects, shorter and longer.   *)
EXTENDS NalSample

MCSliceSizes == {1, 127, 252, 255, 256, 32768, 65532, 65536, 131071, 3110400}
MCSpsSizes == {22, 26, 29}
MCPpsSizes == {4, 6}

=============================================================================
