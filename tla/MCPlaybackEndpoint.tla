-------------------------- MODULE MCPlaybackEndpoint --------------------------
(* Small instances of PlaybackEndpoint for TLC.                            *)
EXTENDS PlaybackEndpoint, TLC

CONSTANTS MaxBytes

Pcm == [kind |-> "pcm16", sample_rate |-> 2000]
G711 == [kind |-> "g711"]
BothFormats == {Pcm, G711}

\* Responses are interchangeable; parts are not: only some are first parts.
Symmetry == Permutations(Responses)

\* A part stops growing at MaxBytes.
Short == \A p \in Parts : audio[p].bytes <= MaxBytes
=============================================================================
