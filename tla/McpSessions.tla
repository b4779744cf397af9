----------------------------- MODULE McpSessions -----------------------------
(***************************************************************************)
(* ragx/mcp and its routes: the server's dispatch of JSON-RPC requests,    *)
(* the SSE transport with one server and one queue per session, and the    *)
(* stdio transport.                                                        *)
(***************************************************************************)
EXTENDS Integers, Sequences, TLC

CONSTANTS
    Kb,           \* knowledge bases
    Session,
    Unrestricted  \* the access list of a key without one

VARIABLES
    session,      \* what app.state.mcp_sessions holds of a session
    stdin         \* what the stdio transport has yet to read, and its server

mcpVars == <<session, stdin>>

(* Methods and, for tools/call, tool names that the server tells apart, a  *)
(* reading tool whose arguments are no object, and what is no request.     *)
Methods == {"initialize", "tools/list", "ragx_search", "ragx_generate", "ragx_list_kbs",
            "no arguments", "no such tool", "no such method", "garbage"}

(* JSON-RPC answers: an error code, a result, or a result with is_error. *)
PARSE_ERROR == -32700
INVALID_REQUEST == -32600
METHOD_NOT_FOUND == -32601
INVALID_PARAMS == -32602
INTERNAL_ERROR == -32603
Ok == 0
IsError == 1
Answer(msg, code) == [id |-> IF code = PARSE_ERROR THEN 0 ELSE msg.id, code |-> code]

(* A session before it is opened.  seen is what its client has received,   *)
(* owed the number of messages taken up for it.                            *)
NoSession == [known |-> FALSE, open |-> FALSE, acl |-> Unrestricted, ready |-> FALSE,
              queue |-> <<>>, seen |-> <<>>, owed |-> 0]

McpInit(lines) ==
    /\ session = [s \in Session |-> NoSession]
    /\ stdin = [lines |-> lines, ready |-> FALSE, out |-> <<>>]

MutantOpenSession(s, acl) ==
    session' = [session EXCEPT ![s] = [NoSession EXCEPT !.known = TRUE, !.open = TRUE]]

(* mcp_sse: a transport, a server scoped to the caller's access list, and  *)
(* an entry in the registry, which no code ever removes.                   *)
OpenSession(s, acl) ==
    session' = [session EXCEPT ![s] = [NoSession EXCEPT !.known = TRUE, !.open = TRUE, !.acl = acl]]

InScope(acl, kb) == acl = Unrestricted \/ kb \in acl

(* The tools, whose call reaches the backend and may fail there, and those *)
(* of them that read a knowledge base.                                     *)
Reads(msg) == msg.method \in {"ragx_search", "ragx_generate"}
Tool(msg) == Reads(msg) \/ msg.method = "ragx_list_kbs"

(* handle_request and _handle_tools_call: the answers to a message from a  *)
(* server that is ready (initialized) or not and has an access list.  A    *)
(* backend failure becomes a result with is_error; so do arguments that    *)
(* are no object, unless an access list is looked up with them first: that *)
(* raises, and the transport answers with an internal error.               *)
HandleRequest(msg, ready, acl, works) ==
    CASE msg.method = "garbage" -> PARSE_ERROR
      [] msg.method = "initialize" -> Ok
      [] msg.method \notin {"garbage", "initialize"} /\ ~ready -> INVALID_REQUEST
      [] msg.method = "tools/list" /\ ready -> Ok
      [] msg.method = "no such method" /\ ready -> METHOD_NOT_FOUND
      [] msg.method = "no such tool" /\ ready -> INVALID_PARAMS
      [] msg.method = "no arguments" /\ ready ->
            IF acl = Unrestricted THEN IsError ELSE INTERNAL_ERROR
      [] Reads(msg) /\ ready /\ ~InScope(acl, msg.kb) -> IsError
      [] OTHER -> IF works THEN Ok ELSE IsError

(* deliver_message finds the queue of a session that is not closed. *)
Found(s) == session[s].known /\ session[s].open

(* A message is taken up: a handshake makes the server ready at once. *)
Taken(record, msg) ==
    [record EXCEPT !.owed = @ + 1, !.ready = @ \/ msg.method = "initialize"]

MutantAnswered(record, msg, code) ==
    [record EXCEPT !.queue = IF code = IsError THEN @ ELSE Append(@, Answer(msg, code))]

(* queue.put of the answer.  The queue is the one found before the await:  *)
(* of a session closed since, nobody reads it.                             *)
Answered(record, msg, code) ==
    [record EXCEPT !.queue = IF record.open THEN Append(@, Answer(msg, code)) ELSE @]

(* sse_stream: one event. *)
Push(s) ==
    /\ session[s].open /\ session[s].queue # <<>>
    /\ session' = [session EXCEPT ![s].seen = Append(@, Head(session[s].queue)),
                                  ![s].queue = Tail(@)]
    /\ UNCHANGED stdin

(* The client disconnects, or the session was idle for sse_idle_timeout;   *)
(* close_session drops the queue.                                          *)
CloseSession(s) ==
    /\ session[s].open
    /\ session' = [session EXCEPT ![s].open = FALSE, ![s].queue = <<>>]
    /\ UNCHANGED stdin

(* StdioTransport.run: one line, answered before the next is read.  Its    *)
(* server has no access list; the application is never started, so that    *)
(* the metadata store is not connected and ragx_list_kbs fails.            *)
StdioLine ==
    /\ stdin.lines # <<>>
    /\ \E works \in BOOLEAN :
        LET msg == Head(stdin.lines)
            code == HandleRequest(msg, stdin.ready, Unrestricted,
                                  works /\ msg.method # "ragx_list_kbs")
        IN  stdin' = [lines |-> Tail(stdin.lines), out |-> Append(stdin.out, Answer(msg, code)),
                      ready |-> stdin.ready \/ msg.method = "initialize"]
    /\ UNCHANGED session
================================================================================
