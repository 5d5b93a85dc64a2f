--------------------------- MODULE MCSpaceTimers ---------------------------
(* Two laps; two sessions on the stopwatch, one on the timer, one that also *)
(* visits the clock and the benchmarks, and one that goes between the two   *)
(* instruments.                                                             *)
EXTENDS SpaceTimers

MCLaps == <<"lap1", "lap2">>

Session(tabs, exposed, n, t) ==
    [tabs |-> tabs, exposed |-> exposed, strikes |-> n, ticks |-> t]

MCSessions ==
    {Session({"Stopwatch"}, {"accumulated"}, 2, 2),
     Session({"Stopwatch"}, {"accumulated", "started_at", "lap1"}, 2, 1),
     Session({"Timer"}, {"spent", "timer_started_at"}, 2, 2),
     Session({"Timer", "Clock", "Bench"}, {"spent"}, 1, 2),
     Session({"Stopwatch", "Timer"}, {"spent"}, 1, 1)}
=============================================================================
