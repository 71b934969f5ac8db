-------------------------- MODULE ServerStatements ---------------------------
(* Statements that the server executes on its store, in the form SqlFacade   *)
(* reads them: one of each kind that its rewriting treats differently.       *)

One(place) == <<place>>
Either(place) == <<"COALESCE", "(", place, ",", "column", ")">>
Fixed == <<"value">>
Live == {
    \* devices.py:217, a registration
    [verb |-> "update", column |-> <<"text", "text", "text", "time">>, keyed |-> TRUE,
     value |-> <<One("?text"), One("?text"), Either("?text"), One("?time")>>,
     rest |-> <<"WHERE", "id =", "?text">>],
    \* devices.py:1093, a heartbeat
    [verb |-> "update", column |-> <<"time", "text", "bool", "text">>, keyed |-> TRUE,
     value |-> <<One("?time"), One("?text"), Either("?bool"), Either("?text")>>,
     rest |-> <<"WHERE", "id =", "?text">>],
    \* devices.py:526, ussd.py:53, whatsapp.py:169: a command
    [verb |-> "insert", column |-> <<"text", "text", "text", "text", "int", "time", "time", "text">>,
     keyed |-> TRUE,
     value |-> <<One("?text"), One("?text"), Fixed, Fixed, Fixed, One("?time"), One("?time"), Fixed>>,
     rest |-> <<>>],
    \* devices.py:780, a zone entered or left
    [verb |-> "update", column |-> <<"bool*">>, value |-> <<One("?bool*")>>, keyed |-> TRUE,
     rest |-> <<"WHERE", "id =", "?int">>],
    \* sentinel.py:236, theft mode
    [verb |-> "update", column |-> <<"bool", "time", "text", "int">>, keyed |-> TRUE,
     value |-> <<Fixed, One("?time"), Fixed, One("?int")>>, rest |-> <<"WHERE", "id =", "?text">>],
    \* dashboard.py:1890, an error resolved
    [verb |-> "update", column |-> <<"bool", "time", "text", "text">>, keyed |-> TRUE,
     value |-> <<Fixed, One("?time"), One("?text"), One("?text")>>, rest |-> <<"WHERE", "id =", "?int">>],
    \* archive_monitor.py:59, the archive sweep
    [verb |-> "update", column |-> <<"time">>, value |-> << <<"datetime(", "'now'", ")">> >>, keyed |-> TRUE,
     rest |-> <<"WHERE", "datetime(", "column", ")", "<", "datetime(", "'now'", ",", "?span", ")">>],
    \* devices.py, a position: flags among numbers
    [verb |-> "insert", column |-> <<"text", "int", "bool", "time", "bool">>, keyed |-> TRUE,
     value |-> <<One("?text"), One("?int"), One("?bool"), One("?time"), One("?bool")>>, rest |-> <<>>],
    \* dashboard.py:755, a cell tower's position
    [verb |-> "replace", column |-> <<"text", "int", "int", "int", "text">>, keyed |-> TRUE,
     value |-> <<One("?text"), One("?int"), One("?int"), One("?int"), One("?text")>>, rest |-> <<>>],
    \* auth.py:131, a refresh token revoked
    [verb |-> "ignore", column |-> <<"text", "text">>, value |-> <<One("?text"), One("?text")>>,
     keyed |-> TRUE, rest |-> <<>>],
    \* statistics of the dashboard, with a quoted question mark (test_storage_facade.py:58)
    [verb |-> "select", column |-> <<>>, value |-> <<>>, keyed |-> TRUE,
     rest |-> <<"julianday(", "'now'", ")", "-", "julianday(", "column", ")", "WHERE",
                "bool = 1", "AND", "column", "=", "'", "?text", "'", "AND",
                "datetime(", "COALESCE", "(", "column", ",", "column", ")", ")",
                ">=", "datetime(", "'now'", ",", "?span", ")", "LIMIT", "?int">>]}
=============================================================================
