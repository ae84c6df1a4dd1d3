-------------------------------- MODULE MCFrames -------------------------------
(* Frames on a ring of 16 bytes, in which half and four fifths are soon    *)
(* exceeded.                                                               *)
EXTENDS Frames

MCThresholds == <<50, 80>>
MCBucketStarts == <<0, 7, 13>>
================================================================================
