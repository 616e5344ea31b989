------------------------------ MODULE Recording ------------------------------
(***************************************************************************)
(* What the MP4 recorder promises, without packets, handles, the folder or *)
(* failed creations: recordings follow each other, one at a time; each     *)
(* begins with a key frame and is finished when it holds the configured    *)
(* number of key frames, never before; a finished one does not change.     *)
(* Recorder implements this module.                                        *)
(***************************************************************************)
EXTENDS Integers

CONSTANTS
    Files,      \* the recordings, numbered in the order of their beginning
    Length      \* key frames of a finished recording

VARIABLES
    state,      \* per recording: "none", "open" or "finished"
    keys,       \* per recording: key frames stored
    samples     \* per recording: samples stored

contents == <<keys, samples>>

Init ==
    /\ state = [f \in Files |-> "none"]
    /\ keys = [f \in Files |-> 0]
    /\ samples = [f \in Files |-> 0]

(* The next recording begins, empty, when the one before is finished.      *)
Begin(f) ==
    /\ \A g \in Files : state[g] # "open" /\ (g >= f => state[g] = "none")
    /\ state' = [state EXCEPT ![f] = "open"]
    /\ UNCHANGED contents

AppendKey(f) ==
    /\ state[f] = "open" /\ keys[f] < Length
    /\ keys' = [keys EXCEPT ![f] = @ + 1]
    /\ samples' = [samples EXCEPT ![f] = @ + 1]
    /\ UNCHANGED state

AppendDelta(f) ==
    /\ state[f] = "open" /\ keys[f] > 0
    /\ samples' = [samples EXCEPT ![f] = @ + 1]
    /\ UNCHANGED <<state, keys>>

Finish(f) ==
    /\ state[f] = "open" /\ keys[f] = Length
    /\ state' = [state EXCEPT ![f] = "finished"]
    /\ UNCHANGED contents

Next == \E f \in Files : Begin(f) \/ AppendKey(f) \/ AppendDelta(f) \/ Finish(f)

Spec == Init /\ [][Next]_<<state, keys, samples>>

=============================================================================
