---------------------------- MODULE MCAvbStream -----------------------------
(* An instance of AvbStream for TLC.                                        *)
EXTENDS AvbStream

StreamPackets == {T!Pdu(seq, ts, k, due) :
    seq \in 0 .. SeqMod - 1, ts \in 0 .. Epoch - 1,
    k \in 1 .. MaxFrames, due \in 1 .. MaxTime + MaxTransit}

=============================================================================
