---------------------------- MODULE MCTheftMode ----------------------------
EXTENDS TheftMode, TLC

\* The weights of sentinel.py for the signals the pings below raise.
Weights == [sim_changed |-> 35, failed_unlocks |-> 20, vehicle |-> 25,
            location_disabled |-> 20, jump |-> 15, unusual_time |-> 10]

Ping(signals, night, inside) ==
    [signals |-> signals, moving |-> FALSE, night |-> night, inside |-> inside]

Calm == Ping({}, TRUE, TRUE)
High == Ping({"sim_changed", "jump"}, TRUE, TRUE)
Critical == Ping({"sim_changed", "failed_unlocks", "vehicle", "location_disabled"}, TRUE, FALSE)

Handlers == Permutations(Handler)

AllPings == {Calm, High, Critical}
=============================================================================
