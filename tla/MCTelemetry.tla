----------------------------- MODULE MCTelemetry -----------------------------
(* Telemetry on four worlds: every field at its default, every field beyond  *)
(* its limit, and the values around the seven-bit groups.                    *)
EXTENDS Telemetry

Plain == [cycles |-> 0, players |-> 0, season |-> "autumn", moon |-> 1, temp |-> 0,
          phase |-> "day", rain |-> FALSE, snow |-> FALSE, nightmare |-> "calm",
          rem |-> 0, awake |-> FALSE]
Extreme == [cycles |-> 2097152, players |-> 128, season |-> "summer", moon |-> 20,
            temp |-> -8192, phase |-> "night", rain |-> TRUE, snow |-> TRUE,
            nightmare |-> "none", rem |-> 128, awake |-> TRUE]
Low7 == [cycles |-> 128, players |-> 1, season |-> "spring", moon |-> 16, temp |-> -1,
         phase |-> "dusk", rain |-> TRUE, snow |-> FALSE, nightmare |-> "dawn",
         rem |-> 127, awake |-> FALSE]
High7 == [cycles |-> 16384, players |-> 127, season |-> "winter", moon |-> 15, temp |-> -129,
          phase |-> "day", rain |-> FALSE, snow |-> TRUE, nightmare |-> "wild",
          rem |-> -1, awake |-> TRUE]
MCStates ==
    {[env |-> Plain, timer |-> NoTimer], [env |-> Extreme, timer |-> 70000],
     [env |-> Low7, timer |-> Living], [env |-> High7, timer |-> 481]}
=============================================================================
