------------------------------ MODULE AvbStats ------------------------------
(***************************************************************************)
(* The figures a listener prints at the end of a session                   *)
(* (avbperf/avb_stats.c).  A node is [arrival, presentation]; nodes come   *)
(* newest first.  All sums and differences are unsigned, of Word values.   *)
(***************************************************************************)
EXTENDS AvbSettings, SequencesExt

CONSTANT Word           \* 2^64

ASSUME WordAssumption == Word \in Nat \ {0}

(* capture = presentation - transit - hw_latency. *)
get_cap_time(node, set) ==
    (node.presentation - set.max_transit_time - avb_aaf_hwlatency_to_ns(set)) % Word

Total(data) == FoldSeq(+, 0, data)

(* What a double becomes as a uint64_t: one too large is undefined, and    *)
(* compiled code gives 0 (x86-64) or the largest value (AArch64, AVX-512). *)
ToWord(x) == IF x < Word THEN {x} ELSE {0, Word - 1}

(* The values the sum of squares may have: a sample below the mean has an  *)
(* unsigned difference of almost Word, which is squared as a double.       *)
SquareSums(data, mean) ==
    FoldLeft(LAMBDA sums, x :
                 UNION {ToWord(s + ((x - mean) % Word) * ((x - mean) % Word)) : s \in sums},
             {0}, data)

Root(x) == CHOOSE r \in 0 .. x : r * r <= x /\ x < (r + 1) * (r + 1)

process_stat(data) ==
    LET n == Len(data)
        mean == (Total(data) % Word) \div n
    IN  [min : {Min(ToSet(data) \cup {Word - 1})},
         max : {Max(ToSet(data) \cup {0})},
         mean : {mean},
         std : {Root(s \div n) : s \in SquareSums(data, mean)},
         count : {n}]

(* Mutant: the travel time is counted from the capture. *)
travel_from_capture(node, set) == (node.arrival - get_cap_time(node, set)) % Word

(* travel = arrival - (presentation - transit). *)
travel(node, set) == (node.arrival - (node.presentation - set.max_transit_time)) % Word

(* avb_stats_process_stats on two nodes or more: the travel time of every  *)
(* packet and the capture time from each packet to the next.               *)
Travels(stats, set) == [i \in 1 .. Len(stats) |-> travel(stats[i], set)]
CaptureDeltas(stats, set) ==
    [i \in 1 .. Len(stats) - 1 |->
        (get_cap_time(stats[i], set) - get_cap_time(stats[i + 1], set)) % Word]

process_stats(stats, set) ==
    [travel : process_stat(Travels(stats, set)),
     delta_cap : process_stat(CaptureDeltas(stats, set))]

=============================================================================
