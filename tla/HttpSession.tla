---------------------------- MODULE HttpSession ----------------------------
(***************************************************************************)
(* One connection of the server, from the moment the listener hands over   *)
(* the accepted socket until the last asynchronous operation that keeps    *)
(* the session object alive has completed: detect_session, then            *)
(* ssl_http_session or plain_http_session, with the pipelining queue of    *)
(* http_session.                                                           *)
(*                                                                         *)
(* All handlers of a connection run on its strand, so each of them is one  *)
(* action. Between two handlers the session consists of the operations it  *)
(* has started and that have not completed; each of those holds a          *)
(* shared_ptr to the session.                                              *)
(***************************************************************************)
EXTENDS Naturals, Sequences

CONSTANTS
    Limit,        \* queue::limit, 8 in the code
    Requests,     \* the requests a client may send
    MaxRequests   \* bound: how many requests the client sends at most

\* What the session depends on in a request: whether the client wants the
\* connection kept (req.keep_alive()), the HTTP version, whether the route
\* answers with redirect_permanent, and whether handle_request lets an
\* exception out.
Request == [keep : BOOLEAN, v : {10, 11}, redirect : BOOLEAN, throws : BOOLEAN]

ASSUME LimitAssumption == Limit \in Nat \ {0}
ASSUME RequestsAssumption == Requests \subseteq Request
ASSUME MaxRequestsAssumption == MaxRequests \in Nat

Op == {"run", "detect", "handshake", "read", "write", "shutdown"}

\* A queued response: the number of its request on this connection, and
\* msg_.need_eof().
Response == [id : Nat, eof : BOOLEAN]

VARIABLES
    kind,      \* "detect" until on_detect, then the class of the session
    pending,   \* how many operations of each kind are outstanding
    doomed,    \* outstanding operations that can only complete with an error
    open,      \* FALSE once a timeout has closed the socket
    items,     \* queue::items_
    handled,   \* number of requests given to handle_request
    written,   \* history: the responses whose write completed
    eofs,      \* history: calls of do_eof by on_read and by on_write
    over,      \* history: logging::fail or do_eof has been called
    running    \* FALSE once ioc.stop() was called or the process has died

vars == <<kind, pending, doomed, open, items, handled, written, eofs, over, running>>

----------------------------------------------------------------------------
(* Helpers                                                                 *)

\* message::need_eof() of the response: every response builder copies the
\* client's keep-alive except redirect_permanent, whose response keeps the
\* default of the HTTP version. All of them have a Content-Length.
need_eof(req) == IF req.redirect THEN req.v = 10 ELSE ~req.keep

\* Faulty variant: the limit is passed by one response.
FaultyFull(q) == Len(q) > Limit
is_full(q) == Len(q) >= Limit

\* The queue starts a response as soon as it is the only one.
starts_write(q) == Len(q) = 1

SendShut == eofs["read"] + eofs["write"] > 0

\* The handler of `done` has run and started the operations in `started`.
\* An operation on a closed socket, or a write after our own shutdown, can
\* only fail.
Switch(done, started) ==
    /\ pending' = [o \in Op |-> pending[o] - (IF o = done THEN 1 ELSE 0)
                                           + (IF o \in started THEN 1 ELSE 0)]
    /\ doomed' = (doomed \ {done})
                   \cup {o \in started : ~open \/ (o = "write" /\ SendShut)}

\* Faulty variant: a handler runs although its operation is not outstanding.
FaultySucceeds(o) == o \notin doomed
Succeeds(o) == pending[o] > 0 /\ o \notin doomed

\* Faulty variant: the handler retries the operation that failed.
FaultyFails(o) ==
    /\ pending[o] > 0
    /\ over' = TRUE
    /\ Switch(o, {o})
    /\ UNCHANGED <<kind, open, items, handled, written, eofs, running>>

\* if(ec) return logging::fail(ec, ...): the read, write, handshake or detect
\* operation failed (network error, malformed or oversized message, timeout).
Fails(o) ==
    /\ pending[o] > 0
    /\ over' = TRUE
    /\ Switch(o, {})
    /\ UNCHANGED <<kind, open, items, handled, written, eofs, running>>

\* plain: shutdown(shutdown_send) at once; ssl: start async_shutdown.
EofOps == IF kind = "ssl" THEN {"shutdown"} ELSE {}
do_eof(caller) ==
    /\ eofs' = [eofs EXCEPT ![caller] = @ + 1]
    /\ over' = TRUE
    /\ Switch(caller, EofOps)

----------------------------------------------------------------------------
(* Handlers                                                                *)

on_run ==
    /\ pending["run"] > 0
    /\ Switch("run", {"detect"})
    /\ UNCHANGED <<kind, open, items, handled, written, eofs, over, running>>

on_detect ==
    \/ Fails("detect")
    \/ /\ Succeeds("detect")
       /\ \/ kind' = "ssl" /\ Switch("detect", {"handshake"})
          \/ kind' = "plain" /\ Switch("detect", {"read"})
       /\ UNCHANGED <<open, items, handled, written, eofs, over, running>>

on_handshake ==
    \/ Fails("handshake")
    \/ /\ Succeeds("handshake")
       /\ Switch("handshake", {"read"})
       /\ UNCHANGED <<kind, open, items, handled, written, eofs, over, running>>

\* The operations on_read leaves running, q being the queue after the
\* response was sent to it.
AfterRead(q) == (IF starts_write(q) THEN {"write"} ELSE {})
                  \cup (IF is_full(q) THEN {} ELSE {"read"})

\* A request arrived: handle_request sends exactly one response to the queue,
\* then the next request is read unless the queue is full.
on_read_request ==
    /\ Succeeds("read")
    /\ handled < MaxRequests
    /\ \E req \in Requests :
         /\ ~req.throws
         /\ handled' = handled + 1
         /\ items' = Append(items, [id |-> handled + 1, eof |-> need_eof(req)])
         /\ Switch("read", AfterRead(items'))
    /\ UNCHANGED <<kind, open, written, eofs, over, running>>

\* Faulty variant: on_read goes on to read after do_eof.
FaultyReadEof ==
    /\ Succeeds("read")
    /\ eofs' = [eofs EXCEPT !["read"] = @ + 1]
    /\ over' = TRUE
    /\ Switch("read", EofOps \cup {"read"})
    /\ UNCHANGED <<kind, open, items, handled, written, running>>

\* The client closed its side between two requests.
on_read_eof ==
    /\ Succeeds("read")
    /\ do_eof("read")
    /\ UNCHANGED <<kind, open, items, handled, written, running>>

\* The handlers are never called again.
Halt ==
    /\ running' = FALSE
    /\ pending' = [o \in Op |-> 0]
    /\ doomed' = {}
    /\ UNCHANGED <<kind, open, items, handled, written, eofs, over>>

\* handle_request lets an exception out; nothing catches it in ioc.run(), so
\* the process terminates.
on_read_throw ==
    /\ Succeeds("read")
    /\ handled < MaxRequests
    /\ \E req \in Requests : req.throws
    /\ Halt

on_read ==
    \/ on_read_request
    \/ on_read_eof
    \/ on_read_throw
    \/ Fails("read")

\* Faulty variants: do_read after every write; the emptiness test before the
\* erase; was_full computed after the erase; the next response not started.
FaultyAlwaysRead(q) == (IF Tail(q) # <<>> THEN {"write"} ELSE {}) \cup {"read"}
FaultyNotEmpty(q) == {"write"} \cup (IF is_full(q) THEN {"read"} ELSE {})
FaultyWasFull(q) == (IF Tail(q) # <<>> THEN {"write"} ELSE {})
                      \cup (IF is_full(Tail(q)) THEN {"read"} ELSE {})
FaultyNoNext(q) == IF is_full(q) THEN {"read"} ELSE {}

\* The operations on_write leaves running, q being the queue before the
\* written response is erased.
AfterWrite(q) == (IF Tail(q) # <<>> THEN {"write"} ELSE {})
                   \cup (IF is_full(q) THEN {"read"} ELSE {})

\* The written response asked for the connection to be closed; it stays in
\* the queue.
on_write_close ==
    /\ Succeeds("write")
    /\ Head(items).eof
    /\ written' = Append(written, Head(items))
    /\ do_eof("write")
    /\ UNCHANGED <<kind, open, items, handled, running>>

\* Faulty variants: the queue loses its newest response instead of the
\* written one; the close flag is ignored.
FaultyPopBack ==
    /\ Succeeds("write")
    /\ ~Head(items).eof
    /\ written' = Append(written, Head(items))
    /\ items' = SubSeq(items, 1, Len(items) - 1)
    /\ Switch("write", AfterWrite(items))
    /\ UNCHANGED <<kind, open, handled, eofs, over, running>>
FaultyIgnoreClose ==
    /\ Succeeds("write")
    /\ written' = Append(written, Head(items))
    /\ items' = Tail(items)
    /\ Switch("write", AfterWrite(items))
    /\ UNCHANGED <<kind, open, handled, eofs, over, running>>

\* queue::on_write: erase the written response, start the next one, and read
\* again if the queue had been full.
on_write_next ==
    /\ Succeeds("write")
    /\ ~Head(items).eof
    /\ written' = Append(written, Head(items))
    /\ items' = Tail(items)
    /\ Switch("write", AfterWrite(items))
    /\ UNCHANGED <<kind, open, handled, eofs, over, running>>

on_write ==
    \/ on_write_close
    \/ on_write_next
    \/ Fails("write")

\* Whether or not it failed, nothing follows the TLS shutdown.
on_shutdown ==
    /\ pending["shutdown"] > 0
    /\ Switch("shutdown", {})
    /\ UNCHANGED <<kind, open, items, handled, written, eofs, over, running>>

----------------------------------------------------------------------------
(* Environment                                                             *)

\* The 30 second timer of an outstanding operation expires: the stream closes
\* the socket, so this operation fails; another one may have completed just
\* before.
Timeout ==
    /\ open
    /\ \E o \in Op \ {"run"} :
         /\ Succeeds(o)
         /\ doomed' = doomed \cup {o}
    /\ open' = FALSE
    /\ UNCHANGED <<kind, pending, items, handled, written, eofs, over, running>>

\* SIGINT or SIGTERM: ioc.stop().
Stop ==
    /\ running
    /\ Halt

Init ==
    /\ kind = "detect"
    /\ pending = [o \in Op |-> IF o = "run" THEN 1 ELSE 0]
    /\ doomed = {}
    /\ open = TRUE
    /\ items = <<>>
    /\ handled = 0
    /\ written = <<>>
    /\ eofs = [c \in {"read", "write"} |-> 0]
    /\ over = FALSE
    /\ running = TRUE

Next ==
    \/ on_run
    \/ on_detect
    \/ on_handshake
    \/ on_read
    \/ on_write
    \/ on_shutdown
    \/ Timeout
    \/ Stop

Spec == Init /\ [][Next]_vars

\* Every operation that was started completes: at the latest its timer closes
\* the socket, and a thread of the io_context then runs the handler.
Fairness ==
    /\ WF_vars(on_run)
    /\ WF_vars(on_detect)
    /\ WF_vars(on_handshake)
    /\ WF_vars(on_read)
    /\ WF_vars(on_write)
    /\ WF_vars(on_shutdown)

FairSpec == Spec /\ Fairness

----------------------------------------------------------------------------
(* Properties                                                              *)

TypeOK ==
    /\ kind \in {"detect", "plain", "ssl"}
    /\ pending \in [Op -> Nat]
    /\ doomed \subseteq Op
    /\ open \in BOOLEAN
    /\ items \in Seq(Response)
    /\ handled \in Nat
    /\ written \in Seq(Response)
    /\ eofs \in [{"read", "write"} -> Nat]
    /\ over \in BOOLEAN
    /\ running \in BOOLEAN

\* The stream aborts the process when a second read, write or handshake is
\* started while one is outstanding. do_read is called from on_read and, when
\* the queue was full, from on_write: the two never overlap.
NoOverlappingOps == \A o \in Op \ {"shutdown"} : pending[o] <= 1

\* "Maximum number of responses we will queue": pipelining never queues more
\* than Limit responses, also while nothing is being written any more.
QueueBounded == Len(items) <= Limit

\* BOOST_ASSERT(!items_.empty()) in queue::on_write: whenever a write is
\* outstanding, the response it writes is at the front of the queue.
WriteHasItem == pending["write"] > 0 => items # <<>>

\* Responses leave in the order of their requests, none skipped or repeated.
InOrder == \A k \in 1..Len(written) : written[k].id = k

\* A healthy session never stalls: it is reading exactly when the queue has
\* room and writing exactly when the queue holds a response.
NoStall ==
    (running /\ kind # "detect" /\ pending["handshake"] = 0 /\ ~over) =>
        /\ pending["read"] > 0 <=> Len(items) < Limit
        /\ pending["write"] > 0 <=> items # <<>>

\* Nothing is written after a response that announced the end of the
\* connection.
NothingAfterClose == \A k \in 1..Len(written) : written[k].eof => k = Len(written)

\* do_eof is called at most once for the end of the request stream and at
\* most once for a closing response, in either order.
EofOnce == eofs["read"] <= 1 /\ eofs["write"] <= 1

(* The inductive invariant the proofs rest on.                             *)

\* Which operations go with which stage of the connection.
StageInv ==
    /\ kind = "detect" => \A o \in Op \ {"run", "detect"} : pending[o] = 0
    /\ kind # "detect" => pending["run"] = 0 /\ pending["detect"] = 0
    /\ pending["run"] > 0 => pending["detect"] = 0
    /\ pending["handshake"] > 0 => pending["read"] = 0 /\ kind = "ssl"
    /\ (kind = "detect" \/ pending["handshake"] > 0) => items = <<>> /\ ~SendShut

\* A read is outstanding only while there is room; after the end of the
\* request stream the queue only shrinks, so no read is started again.
ReadInv ==
    /\ pending["read"] > 0 => Len(items) < Limit
    /\ eofs["read"] > 0 => pending["read"] = 0 /\ Len(items) < Limit

\* After a closing response the queue is stuck: nothing is written any more.
WriteInv ==
    /\ WriteHasItem
    /\ eofs["write"] > 0 => pending["write"] = 0 /\ items # <<>>

\* The queue holds consecutive responses up to the last request, and the one
\* being written continues what has been written.
OrderInv ==
    /\ Len(items) <= handled
    /\ \A k \in 1..Len(items) : items[k].id = handled - Len(items) + k
    /\ (pending["write"] > 0 \/ items = <<>>) => Len(written) = handled - Len(items)
    /\ \A k \in 1..Len(written) : written[k].eof => eofs["write"] > 0

\* All of the above holds together in every reachable state, which is what
\* makes the queue protocol of on_read and on_write correct.
IInv ==
    /\ TypeOK
    /\ NoOverlappingOps
    /\ QueueBounded
    /\ InOrder
    /\ NoStall
    /\ NothingAfterClose
    /\ EofOnce
    /\ StageInv
    /\ ReadInv
    /\ WriteInv
    /\ OrderInv

\* Every request given to handle_request gets its response, unless the
\* session has reported an error, shut down its side, or the server stopped.
Answered ==
    \A n \in 1..MaxRequests :
        handled >= n ~> (Len(written) >= n \/ over \/ ~running)

\* No connection leaks: the last operation of every session completes, and
\* the session object is destroyed.
Released == <>[](\A o \in Op : pending[o] = 0)

\* "At this point the connection is closed gracefully" (do_eof): the server
\* never starts a response into a direction it has itself shut down.
GracefulClose == open => "write" \notin doomed

\* After do_eof for a closing response the connection is closed: no further
\* request is taken from it.
QuietAfterClose == [][eofs["write"] > 0 => handled' = handled]_vars
=============================================================================
