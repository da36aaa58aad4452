----------------------------- MODULE MCSimulation -----------------------------
EXTENDS Simulation, TLC

(* The calibrator of the catalog with an integer output, which the setpoint  *)
(* overdrives, and a sensor of every other kind of signal at the upper end   *)
(* of its register.                                                          *)
Bench == <<"setpoint", "output", "level", "reset">>
BenchMode == [setpoint |-> "rw", output |-> "r", level |-> "r", reset |-> "w"]
BenchType == [setpoint |-> "i16", output |-> "i8", level |-> "u8", reset |-> "bit"]
BenchInitial == [setpoint |-> 40, output |-> 0, level |-> 0, reset |-> 0]
BenchSignal ==
    [output |-> <<Follow("setpoint"), Noise(1)>>,
     level  |-> <<RandomWalk(2, 1, 1, 3), Square(2, 1, 0, 4), Sawtooth(3, 1003, 1009),
                  Ramp(2, 0), Constant(1), Sine(1, 2)>>]
BenchInputs == {Whole(200), Whole(1), Whole(40000), Decimal(8), Boolean(0)}
=============================================================================
