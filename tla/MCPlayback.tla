------------------------------ MODULE MCPlayback ------------------------------
(* Small instances of Playback for TLC.                                    *)
EXTENDS Playback, TLC

CONSTANTS MaxBytes

\* Six bytes play one millisecond and a half, or three quarters of one.
Pcm == [kind |-> "pcm16", sample_rate |-> 2000]
G711 == [kind |-> "g711"]
BothFormats == {Pcm, G711}

Symmetry == Permutations(Responses)

\* A part stops growing at MaxBytes.
Short == \A p \in Parts : audio[p].bytes <= MaxBytes
=============================================================================
