------------------------------ MODULE Dispatch ------------------------------
(***************************************************************************)
(* From the bytes of a request to the handler of its method: what          *)
(* CommandPipe reads (src/ipc/CommandPipe.cpp), Request::fromRaw, dispatch *)
(* and MethodRegistry (src/rpc), as operators on a request.                *)
(*                                                                         *)
(* A message is of one of three kinds: "unread" if ReadFile fails or reads *)
(* nothing (it is empty, or has more than 4095 bytes), "text" if it is not *)
(* JSON, and "json".  Of the JSON value only what is looked at is kept:    *)
(* whether it is an object, and the members jsonrpc, method, params (a     *)
(* function from names to values) and id (a number, or Absent).            *)
(***************************************************************************)
EXTENDS Integers

CONSTANTS
    Method,    \* names of the registered methods
    NoMethod,  \* no "method", or not a string
    Absent,    \* a member the message does not have
    Misfit     \* params that are no object, or hold a value of a wrong type

Object == <<>>  \* Json::object(): no members

InvalidRequest == [valid |-> FALSE]

\* Request::fromJson: a request without an id, or with one that is no number,
\* has the id 0.
FromJson(j) ==
    IF ~j.isObject \/ j.jsonrpc # "2.0" \/ j.method = NoMethod THEN InvalidRequest
    ELSE [valid |-> TRUE, method |-> j.method, params |-> IF j.params = Absent THEN Object ELSE j.params,
          id |-> IF j.id = Absent THEN 0 ELSE j.id]

\* Request::fromRaw
FromRaw(raw) == IF raw.kind = "json" THEN FromJson(raw) ELSE InvalidRequest

\* params.value(): a member of the params, or its default.
ValueOf(params, name, default) ==
    IF name \in DOMAIN params THEN params[name] ELSE default

\* makeError and makeResult
Error(code, id) == [id |-> id, error |-> code]
Result(id, value) == [id |-> id, error |-> 0, value |-> value]

\* MethodRegistry finds a handler.
Reaches(raw) == FromRaw(raw).valid /\ FromRaw(raw).method \in Method

\* What is answered to a message that reaches no handler: a parse error for
\* what cannot be read and for what is no JSON, an invalid request, or a method
\* that is not found.
Refusal(raw) ==
    IF raw.kind # "json" THEN Error(-32700, 0)
    ELSE IF ~FromRaw(raw).valid THEN Error(-32600, 0)
    ELSE Error(-32601, FromRaw(raw).id)
=============================================================================
