--------------------------- MODULE MCAvbListener ----------------------------
(* Instances of AvbListener for TLC: the frames the network may deliver.    *)
EXTENDS AvbListener

Frame(kind, seq, ts, pcm) == [kind |-> kind, seq |-> seq, ts |-> ts, pcm |-> pcm]

(* Every presentation time of an epoch, and a frame of another stream. *)
BufferPackets ==
    {Frame("aaf", SeqMod - 1, ts, "a") : ts \in 0 .. Epoch - 1}
        \cup {Frame("foreign", 1, 0, "x")}

(* Two distinguishable fragments, early and late, and a short frame. *)
RecordPackets ==
    {Frame("aaf", 0, 1, "a"), Frame("aaf", 1, 3, "b"), Frame("short", 0, 0, "x")}

=============================================================================
