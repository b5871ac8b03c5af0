---------------------------- MODULE MCAvbSession ----------------------------
(* Instances of AvbSession for TLC: command lines and sound cards.          *)
EXTENDS AvbSession

Line(depth, rate, channels, latency) ==
    [ifname |-> TRUE, talker |-> FALSE, dst_addr |-> TRUE, prio |-> 2,
     bit_depth |-> depth, sample_rate |-> rate, channels |-> channels,
     hw_latency |-> latency, transit_time |-> 2, timeout |-> 0, file |-> FALSE]

Recorded(line) == [line EXCEPT !.file = TRUE, !.timeout = 10]
Pair(t, l) == [talker |-> [t EXCEPT !.talker = TRUE], listener |-> l]

Mono == Line(16, 96000, 1, 2)

(* One side's line differs from the other's in one option, or in two that  *)
(* make up for each other in the payload's length, or is refused.          *)
Mismatched == {Pair(Mono, l) : l \in
    {Line(16, 96000, 2, 1), Line(16, 96000, 1, 1), Line(16, 96000, 1, 3),
     Line(32, 96000, 1, 1), Line(24, 96000, 1, 2), Line(16, 48000, 1, 2),
     [Mono EXCEPT !.transit_time = 1],
     [Mono EXCEPT !.file = TRUE], [Mono EXCEPT !.prio = 7]}}
    \cup {Pair([Mono EXCEPT !.dst_addr = FALSE], Mono)}

Exact  == [rates |-> {44100, 48000, 96000}, periods |-> {1, 2, 3}]
Coarse == [rates |-> {48000, 96000}, periods |-> {1, 3}]

Plugged(pairs, models) == [args : pairs, cards : [talker : models, listener : models]]

Recordings == {Pair(l, Recorded(l)) : l \in
    {Mono, Line(24, 48000, 2, 1), Line(32, 44100, 3, 1)}}

(* Two models of card, of which one cannot give the period asked for. *)
OnePair == Plugged({Pair(Mono, Mono)}, {Exact, Coarse})

(* Cards that give what is asked, and no difference between the two sides. *)
Matched == Plugged({Pair(Mono, Mono)}, {Exact})

AllSetups == Plugged(Mismatched \cup Recordings, {Exact}) \cup OnePair

=============================================================================
