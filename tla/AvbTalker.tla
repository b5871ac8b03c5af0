----------------------------- MODULE AvbTalker ------------------------------
(***************************************************************************)
(* avbperf's talker (avbperf/avb_aaf.c, avb_aaf_talker): one process that  *)
(* reads a fragment from the sound card, stamps it with the time it is due *)
(* at the listener and a sequence number, and sends it.                    *)
(*                                                                         *)
(* A payload is a record [k, due]: the packet's place in the stream, and   *)
(* the full due time of which calculate_avtp_time keeps the low part.  To  *)
(* the code it is opaque bytes; only the properties read it.               *)
(***************************************************************************)
EXTENDS AvtpTime, Sequences

CONSTANTS
    SeqMod,         \* size of the sequence number field, 256 in the program
    MaxTransit,     \* set.max_transit_time
    MaxFrames       \* bound: packets of one session

VARIABLES
    now,            \* CLOCK_REALTIME
    tpc,            \* where the talker's loop is
    seq_num,        \* the next sequence number
    pdu,            \* the packet being built
    sent,           \* packets stamped so far
    wire            \* packets between the two hosts

Pdu(seq, ts, k, due) ==
    [kind |-> "aaf", seq |-> seq, ts |-> ts, pcm |-> [k |-> k, due |-> due]]

TalkerInit ==
    /\ tpc = "setup"
    /\ seq_num = 0 /\ sent = 0
    /\ pdu = Pdu(0, 0, 0, 0)
    /\ wire = <<>>

TalkerSetup ==
    /\ tpc = "setup"
    /\ tpc' = "read"
    /\ UNCHANGED <<seq_num, pdu, sent, wire>>

(* There may be no socket, no interface or no sound card.  Without an      *)
(* interface the clean-up closes a sound card whose handle nothing has     *)
(* assigned: the process ends in one way or the other.                     *)
TalkerSetupFails ==
    /\ tpc = "setup"
    /\ tpc' \in {"returned", "crashed"}
    /\ UNCHANGED <<seq_num, pdu, sent, wire>>

(* The read of the sound card returns after one period, or at once with an *)
(* error that is only printed; the payload is sent in either case.         *)
avb_alsa_read ==
    /\ tpc = "read"
    /\ sent < MaxFrames
    /\ tpc' = "stamp"
    /\ UNCHANGED <<seq_num, pdu, sent, wire>>

Stamp ==
    /\ tpc = "stamp"
    /\ sent' = sent + 1
    /\ pdu' = Pdu(seq_num, calculate_avtp_time(now, MaxTransit), sent + 1, now + MaxTransit)
    /\ seq_num' = (seq_num + 1) % SeqMod
    /\ tpc' = "send"
    /\ UNCHANGED wire

Send ==
    /\ tpc = "send"
    /\ wire' = Append(wire, pdu)
    /\ tpc' = "key"
    /\ UNCHANGED <<seq_num, pdu, sent>>

(* sendto fails: the talker ends. *)
SendFails ==
    /\ tpc = "send"
    /\ tpc' = "returned"
    /\ UNCHANGED <<seq_num, pdu, sent, wire>>

(* ESC ends the loop between two packets. *)
TalkerKey ==
    /\ tpc = "key"
    /\ tpc' \in {"read", "returned"}
    /\ UNCHANGED <<seq_num, pdu, sent, wire>>

Talker == \/ TalkerSetup \/ TalkerSetupFails \/ avb_alsa_read \/ Stamp \/ Send \/ SendFails
          \/ TalkerKey

=============================================================================
