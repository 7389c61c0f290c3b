------------------------------- MODULE MCRing -------------------------------
(***************************************************************************)
(* Three questions about what is kept of an item, in one run: its ring     *)
(* file while headers are written, errors and power losses included; its   *)
(* ring file with a reader among minute writes that fail; its live ring.   *)
(* A behaviour asks one of them, and part restricts it to what bears on    *)
(* that question.                                                          *)
(***************************************************************************)
EXTENDS RingFile

CONSTANTS
    k1, k2,                 \* the members of Keys
    LiveKeys, LiveSlots, LiveSeries, liveStep, MinuteLen,
    LastTime, MaxPuts,      \* of LiveRing
    Steps, Points           \* stored ranges: units of a point, points

VARIABLES part, liveStamp, series, last, accMin, mins, smps, since

Graph == INSTANCE LiveRing WITH Ranges <- [step : Steps, n : Points]

\* Query's ranges have points of whole minutes.
ASSUME LiveAssumption ==
    /\ IsFiniteSet(LiveKeys) /\ LiveSlots \in Nat \ {0} /\ LiveSeries \in Nat
    /\ liveStep \in Nat \ {0} /\ MinuteLen \in Nat \ {0}
    /\ LastTime \in Nat /\ MaxPuts \in Nat /\ Points \subseteq Nat \ {0}
    /\ \A s \in Steps : s \in Nat \ {0} /\ s % MinuteLen = 0

liveVars == <<liveStamp, series, last, accMin, mins, smps, since>>
allVars  == <<part, vars, liveVars>>

MCInit == part \in {"header", "read", "live"} /\ Init /\ Graph!Init

\* One minute is enough beside the headers; no one reads.
ForHeaders == Next /\ rd' = rd /\ log' \in {<<>>, <<1>>}

\* One series and one process, and no power loss: a reader sees the page cache.
ForReaders ==
    /\ Next /\ status' # "lost" /\ lives' = lives /\ wr'.v \subseteq {0}
    /\ rh'.keys \in {<<>>, <<k1>>} /\ tgt'.keys \in {<<>>, <<k1>>}
    /\ pc = "idle" /\ tgt' # NoTgt => rh.seq = 1

MCNext ==
    /\ UNCHANGED part
    /\ \/ part = "header" /\ ForHeaders /\ UNCHANGED liveVars
       \/ part = "read" /\ ForReaders /\ UNCHANGED liveVars
       \/ part = "live" /\ Graph!Next /\ UNCHANGED vars

MCSpec == MCInit /\ [][MCNext]_allVars

-----------------------------------------------------------------------------
(* The properties of the live ring, where it runs.                         *)

\* A live point is the last sample of its slot or a gap: see LiveRing.
LiveExact == part = "live" => Graph!LiveExact

\* A point of a stored range holds the minutes of its time: see LiveRing.
StoredExact == part = "live" => Graph!StoredExact

=============================================================================
