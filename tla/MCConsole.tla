----------------------------- MODULE MCConsole ------------------------------
(* TLC's instance of Console: each dll.* method, and messages that are     *)
(* refused for each reason there is.                                       *)
EXTENDS Console

MCMethod == {"dll.toggleConsole", "dll.getInfo", "dll.getLogs", "dll.setLogConfig"}

Call(method, params) ==
    [kind |-> "json", isObject |-> TRUE, jsonrpc |-> "2.0", method |-> method,
     params |-> params, id |-> 7]

MCRequest ==
    {Call("dll.toggleConsole", Absent), Call("dll.getInfo", Misfit),
     Call("dll.getLogs", [offset |-> 1]), Call("dll.getLogs", Misfit),
     Call("dll.setLogConfig", [maxEntries |-> 1, showInConsole |-> TRUE]),
     Call("dll.setLogConfig", [maxEntries |-> 0])}
    \cup {[kind |-> "unread"], [kind |-> "text"],
          Call("unknown", Absent),
          [Call("dll.toggleConsole", Absent) EXCEPT !.jsonrpc = Absent, !.id = Absent]}
=============================================================================
