----------------------------- MODULE MCPipeline -----------------------------
(***************************************************************************)
(* Pipeline for TLC.  A byte has eight values and a degree a thousand, so  *)
(* that ten minutes are 100: two bytes are -32 .. 31 or 0 .. 63, four are  *)
(* 0 .. 4095.                                                              *)
(***************************************************************************)
EXTENDS Pipeline

Usual ==
    [temperature |-> 21, pressure |-> 1049, humidity |-> 4500,
     gas_resistance |-> 20499, utc |-> 1, lat |-> 1345, lon |-> 1599, fix |-> 1,
     sat |-> 7, alt |-> 124, speed |-> 40, power |-> 2, bavg |-> 63]

\* Below zero, and without a fix; values too large for their fields; a position
\* closer than six minutes behind a full degree; an altitude of which the sign
\* bit is set.
MCMeasurements ==
    {Usual,
     [Usual EXCEPT !.temperature = -5, !.fix = 0, !.lat = 0, !.lon = 0],
     [Usual EXCEPT !.humidity = 7600, !.lat = 1000, !.lon = 0, !.alt = 900],
     [Usual EXCEPT !.lon = 1036, !.utc = 3],
     [Usual EXCEPT !.alt = 400, !.temperature = -32, !.humidity = 7499]}

=============================================================================
