------------------------------ MODULE Playout -------------------------------
(***************************************************************************)
(* What the listener's buffer promises, without sockets, timers or polls:  *)
(* fragments are played once each, in the order they were buffered; the    *)
(* first fragment of a burst waits until it is due, the ones behind it     *)
(* follow at the pace of the sound card, and the burst is over as soon as  *)
(* the buffer is empty, whatever comes next being a first fragment again.  *)
(***************************************************************************)
EXTENDS Integers, Sequences

CONSTANT Sample   \* records with at least the fields tspec and pcm

VARIABLES now, samples, mode, played
vars == <<now, samples, mode, played>>

Mode == {"idle", "armed", "running", "stopped"}

TypeOK ==
    /\ now \in Nat
    /\ samples \in Seq(Sample)
    /\ mode \in Mode
    /\ played \in Seq(Sample)

Init ==
    /\ now \in Nat
    /\ samples = <<>>
    /\ mode = "idle"
    /\ played = <<>>

(* A fragment is buffered; into an empty buffer, it becomes a first one. *)
Insert ==
    /\ mode # "stopped"
    /\ samples' \in Seq(Sample)
    /\ Len(samples') = Len(samples) + 1
    /\ \A i \in 1 .. Len(samples) : samples'[i] = samples[i]
    /\ mode' = IF mode = "idle" THEN "armed" ELSE mode
    /\ UNCHANGED <<now, played>>

Emit ==
    /\ samples # <<>>
    /\ played' = Append(played, Head(samples))
    /\ samples' = Tail(samples)
    /\ mode' = IF Tail(samples) = <<>> THEN "idle" ELSE "running"
    /\ UNCHANGED now

(* The first fragment of a burst, not before it is due. *)
Start == mode = "armed" /\ Head(samples).tspec <= now /\ Emit

(* The fragments behind it. *)
Drain == mode = "running" /\ Emit

(* The clock only moves forward. *)
Advance == now' \in Nat /\ now' > now /\ UNCHANGED <<samples, mode, played>>

(* The session may end at any time; what is still buffered is not played. *)
Stop ==
    /\ mode # "stopped"
    /\ mode' = "stopped"
    /\ UNCHANGED <<now, samples, played>>

Next == Insert \/ Start \/ Drain \/ Advance \/ Stop

Spec == Init /\ [][Next]_vars

=============================================================================
