------------------------------- MODULE Server -------------------------------
(***************************************************************************)
(* The running server: main() from the listeners to the joined threads,    *)
(* the accept loops, the queue of the io_context, the threads that run     *)
(* handlers from it, and the descriptors that connections use up. What a   *)
(* session does is the subject of HttpSession; here it has operations, a   *)
(* read and a write at the same time, whose handlers go through its strand *)
(* and share the ownership of it.                                          *)
(***************************************************************************)
EXTENDS Integers, Sequences, FiniteSets

CONSTANTS
    Clients,      \* clients, each of which connects once
    None,         \* no client, port or handler
    Configs,      \* possible values of threads and port2 in config.toml
    Width,        \* width of the unsigned integers (32 and 16)
    ThreadLimit,  \* worker threads the system lets the process create
    Descriptors,  \* descriptors that are free for connections
    MaxRuns       \* bound: operations of one connection

ASSUME NoneAssumption == None \notin Clients
ASSUME BoundsAssumption == {Width, ThreadLimit, Descriptors} \subseteq Nat /\ MaxRuns \in Nat \ {0}
ASSUME ConfigsAssumption == Configs \subseteq [threads : Int, port2 : Int]
\* Nobody can create as many threads as a counter that wrapped around asks for.
ASSUME LimitAssumption == ThreadLimit < 2^Width - 1

Ports == {"port", "port2"}
Main == 0
Threads == 0..ThreadLimit

VARIABLES
    config,    \* config.toml
    pc,        \* where the main thread is
    created,   \* threads in the vector
    running,   \* threads inside ioc.run()
    handler,   \* the handler each thread runs, or None
    ready,     \* handlers that can run, oldest first
    acceptor,  \* state of each acceptor_
    pending,   \* ports whose async_accept waits for a client
    conn,      \* the port a client waits at, or the state of its connection
    free,      \* free descriptors
    runs,      \* operations a session has started, ever
    ops,       \* operations of a session that the reactor has
    strand,    \* handlers in the strand of a session, the running one included
    refs,      \* shared_ptrs to a session, one in each handler
    pipe,      \* a signal in the pipe of the signal_set
    signalled, \* SIGINT or SIGTERM has arrived
    stopped    \* ioc.stop() has been called

mainvars == <<config, pc, created, running>>
netvars == <<acceptor, pending, conn, free>>
sessionvars == <<runs, ops, strand, refs>>
signalvars == <<pipe, signalled, stopped>>
vars == <<mainvars, handler, ready, netvars, sessionvars, signalvars>>

----------------------------------------------------------------------------
(* Configuration                                                           *)

\* tbl_[...].value<T>(): an integer that is out of range is no value.
value(n, default) == IF n \in 0..2^Width - 1 THEN n ELSE default
get_config_threads == value(config.threads, 2)
get_config_port2 == value(config.port2, 0)

\* Faulty variant: as many workers as threads.
FaultyWorkers == get_config_threads

\* get_config_threads() - 1, without a sign.
Workers == (get_config_threads - 1) % 2^Width

----------------------------------------------------------------------------
(* Handlers                                                                *)

Accepted(p, c) == [kind |-> "on_accept", port |-> p, client |-> c]
Completed(c) == [kind |-> "completed", port |-> None, client |-> c]
Invoker(c) == [kind |-> "invoker", port |-> None, client |-> c]
Signal == [kind |-> "signal", port |-> None, client |-> None]

Handler == [kind : {"on_accept"}, port : Ports, client : Clients \cup {None}]
           \cup [kind : {"completed", "invoker"}, port : {None}, client : Clients]
           \cup {Signal}

ASSUME HandlerAssumption == None \notin Handler

Waiting(p) == {c \in Clients : conn[c] = p}

\* The io_context runs handlers in the order in which they become ready.
post(queue, h) == Append(queue, h)

\* async_accept on an acceptor in state acc. One that does not listen, and a
\* process without free descriptors, get an error at once (the descriptor is
\* allocated before a client is looked for); without a client the operation
\* waits. The new connection of this handler, if any, is opened.
do_accept(p, acc, new) ==
    LET conn0 == [c \in Clients |-> IF c = new THEN "open" ELSE conn[c]]
    IN  \/ /\ acc # "listening" \/ free = 0
           /\ ready' = post(ready, Accepted(p, None))
           /\ pending' = pending \ {p}
           /\ conn' = conn0 /\ UNCHANGED free
        \/ /\ acc = "listening" /\ free > 0 /\ Waiting(p) = {}
           /\ pending' = pending \cup {p}
           /\ conn' = conn0 /\ UNCHANGED <<ready, free>>
        \/ /\ acc = "listening" /\ free > 0
           /\ \E c \in Waiting(p) :
                /\ ready' = post(ready, Accepted(p, c))
                /\ conn' = [conn0 EXCEPT ![c] = "accepted"]
           /\ pending' = pending \ {p}
           /\ free' = free - 1

----------------------------------------------------------------------------
(* main()                                                                  *)

\* The constructor may fail to open (or to set the option), to bind or to
\* listen; it logs that and returns, and run() is called all the same.
Outcomes == {"closed", "opened", "listening"}

listen(p, next) ==
    /\ \E acc \in Outcomes : do_accept(p, acc, None) /\ acceptor' = [acceptor EXCEPT ![p] = acc]
    /\ pc' = next
    /\ UNCHANGED <<config, created, running, handler, sessionvars, signalvars>>

\* Steps that concern only the main thread.
MainOnly(next) ==
    /\ pc' = next
    /\ UNCHANGED <<config, created, running, handler, ready, netvars, sessionvars, signalvars>>

listener == pc = "listener" /\ listen("port", "listener2")
listener2 == pc = "listener2" /\ get_config_port2 # 0 /\ listen("port2", "reserve")
no_listener2 == pc = "listener2" /\ get_config_port2 = 0 /\ MainOnly("reserve")

\* An exception out of main() or out of a thread: std::terminate.
Terminate ==
    /\ pc' = "terminated"
    /\ running' = {}
    /\ handler' = [t \in Threads |-> None]
    /\ UNCHANGED <<config, created, ready, netvars, sessionvars, signalvars>>

\* v.reserve(); it throws when there is no memory for so many threads.
reserve == pc = "reserve" /\ MainOnly("spawn")
reserve_throws == pc = "reserve" /\ Workers > ThreadLimit /\ Terminate

\* Faulty variant: the system's refusal is ignored.
FaultySpawn ==
    /\ pc = "spawn" /\ created < Workers
    /\ created' = created + 1
    /\ UNCHANGED <<config, pc, running, handler, ready, netvars, sessionvars, signalvars>>

\* v.emplace_back(); the new thread enters ioc.run().
spawn ==
    /\ pc = "spawn" /\ created < Workers /\ created < ThreadLimit
    /\ created' = created + 1
    /\ running' = running \cup {created + 1}
    /\ UNCHANGED <<config, pc, handler, ready, netvars, sessionvars, signalvars>>

spawn_throws == pc = "spawn" /\ created < Workers /\ created = ThreadLimit /\ Terminate

run ==
    /\ pc = "spawn" /\ created = Workers
    /\ pc' = "run"
    /\ running' = running \cup {Main}
    /\ UNCHANGED <<config, created, handler, ready, netvars, sessionvars, signalvars>>

\* ioc.run() returns in the main thread; then the pid file is removed.
run_returns == pc = "run" /\ Main \notin running /\ MainOnly("join")

\* t.join() for every thread, and the end of main().
join == pc = "join" /\ running = {} /\ MainOnly("returned")

main ==
    \/ listener \/ listener2 \/ no_listener2 \/ reserve \/ reserve_throws
    \/ spawn \/ spawn_throws \/ run \/ run_returns \/ join

----------------------------------------------------------------------------
(* ioc.run()                                                               *)

\* A thread takes the oldest handler.
take(t) ==
    /\ t \in running /\ handler[t] = None
    /\ ~stopped /\ ready # <<>>
    /\ handler' = [handler EXCEPT ![t] = Head(ready)]
    /\ ready' = Tail(ready)
    /\ UNCHANGED <<mainvars, netvars, sessionvars, signalvars>>

\* A stopped io_context: run() returns.
leave(t) ==
    /\ t \in running /\ handler[t] = None
    /\ stopped
    /\ running' = running \ {t}
    /\ UNCHANGED <<config, pc, created, handler, ready, netvars, sessionvars, signalvars>>

Runs(t, kind) == handler[t] # None /\ handler[t].kind = kind
Done(t) == handler' = [handler EXCEPT ![t] = None]

\* A new detect_session for client c, if there is one: run() enters its strand
\* at once and starts the first operation.
new_session(c) ==
    LET first(f) == [d \in Clients |-> IF d = c THEN 1 ELSE f[d]]
    IN  /\ runs' = first(runs) /\ ops' = first(ops) /\ refs' = first(refs)
        /\ UNCHANGED strand

\* Faulty variant: an error ends the accept loop.
FaultyOnAccept(t) ==
    /\ Runs(t, "on_accept")
    /\ LET h == handler[t]
       IN  IF h.client = None THEN UNCHANGED <<ready, netvars, sessionvars>>
           ELSE /\ new_session(h.client)
                /\ do_accept(h.port, acceptor[h.port], h.client)
                /\ UNCHANGED acceptor
    /\ Done(t)
    /\ UNCHANGED <<mainvars, signalvars>>

\* An error is logged; a socket becomes a session. Then the next accept is
\* started in either case.
on_accept(t) ==
    /\ Runs(t, "on_accept")
    /\ LET h == handler[t]
       IN  /\ new_session(h.client)
           /\ do_accept(h.port, acceptor[h.port], h.client)
    /\ Done(t)
    /\ UNCHANGED <<mainvars, acceptor, signalvars>>

\* Faulty variant: the connection is not given a strand.
FaultyDispatch(t) ==
    /\ Runs(t, "completed")
    /\ LET c == handler[t].client
       IN  /\ strand' = [strand EXCEPT ![c] = @ + 1]
           /\ handler' = [handler EXCEPT ![t] = Invoker(c)]
    /\ UNCHANGED <<mainvars, ready, netvars, runs, ops, refs, signalvars>>

\* An operation has completed, and its handler is dispatched to the strand of
\* the connection: it waits there if the strand is taken, else the thread goes
\* on with it.
dispatch(t) ==
    /\ Runs(t, "completed")
    /\ LET c == handler[t].client
       IN  /\ strand' = [strand EXCEPT ![c] = @ + 1]
           /\ handler' = [handler EXCEPT ![t] = IF strand[c] = 0 THEN Invoker(c) ELSE None]
    /\ UNCHANGED <<mainvars, ready, netvars, runs, ops, refs, signalvars>>

\* The handler gives up its shared_ptr and leaves n more in the handlers of
\* new operations. With the last one the session is destroyed and its socket
\* closed.
release(c, n) ==
    /\ refs' = [refs EXCEPT ![c] = @ - 1 + n]
    /\ IF refs'[c] = 0 THEN conn' = [conn EXCEPT ![c] = "closed"] /\ free' = free + 1
       ELSE UNCHANGED <<conn, free>>

\* The strand is left, for the handler that waits in it if there is one. (Of
\* more than one, asio would run several before it goes back to the queue.)
leave_strand(t, c) ==
    /\ strand' = [strand EXCEPT ![c] = @ - 1]
    /\ ready' = IF strand[c] > 1 THEN post(ready, Invoker(c)) ELSE ready
    /\ Done(t)

\* A session has at most two: a read or the shutdown after it, and a write or
\* the shutdown after it.
MaxOps == 2

\* Faulty variant: operations are bound to `this' and not to shared_from_this().
FaultySessionHandler(t) ==
    /\ Runs(t, "invoker")
    /\ LET c == handler[t].client
       IN  \E n \in 0..MaxOps :
             /\ runs[c] + n <= MaxRuns /\ refs[c] - 1 + n <= MaxOps
             /\ runs' = [runs EXCEPT ![c] = @ + n]
             /\ ops' = [ops EXCEPT ![c] = @ + n]
             /\ refs[c] > 0 /\ release(c, 0)
             /\ leave_strand(t, c)
    /\ UNCHANGED <<mainvars, acceptor, pending, signalvars>>

\* A handler of a session runs and starts n operations,
session_handler(t) ==
    /\ Runs(t, "invoker")
    /\ LET c == handler[t].client
       IN  \E n \in 0..MaxOps :
             /\ runs[c] + n <= MaxRuns /\ refs[c] - 1 + n <= MaxOps
             /\ runs' = [runs EXCEPT ![c] = @ + n]
             /\ ops' = [ops EXCEPT ![c] = @ + n]
             /\ release(c, n)
             /\ leave_strand(t, c)
    /\ UNCHANGED <<mainvars, acceptor, pending, signalvars>>

\* or throws.
session_throws(t) == Runs(t, "invoker") /\ Terminate

\* Faulty variant: it stops only after an error.
FaultyOnSignal(t) ==
    /\ Runs(t, "signal")
    /\ Done(t)
    /\ UNCHANGED <<mainvars, ready, netvars, sessionvars, signalvars>>

\* The lambda in main().
on_signal(t) ==
    /\ Runs(t, "signal")
    /\ stopped' = TRUE
    /\ Done(t)
    /\ UNCHANGED <<mainvars, ready, netvars, sessionvars, pipe, signalled>>

thread(t) ==
    \/ take(t) \/ leave(t) \/ on_accept(t) \/ on_signal(t)
    \/ dispatch(t) \/ session_handler(t)

----------------------------------------------------------------------------
(* Clients, kernel and reactor                                             *)

Up == pc \notin {"returned", "terminated"}

connect(c) ==
    /\ Up /\ conn[c] = "away"
    /\ \E p \in Ports : acceptor[p] = "listening" /\ conn' = [conn EXCEPT ![c] = p]
    /\ UNCHANGED <<mainvars, handler, ready, acceptor, pending, free, sessionvars, signalvars>>

\* The reactor is an entry of the queue that the threads come back to.
Polled == running # {} /\ ~stopped

\* It finds an acceptor readable and accepts.
reactor_accept(p) ==
    /\ Polled /\ p \in pending /\ Waiting(p) # {}
    /\ do_accept(p, acceptor[p], None)
    /\ UNCHANGED <<mainvars, handler, acceptor, sessionvars, signalvars>>

\* One of the operations of a session completes, at the latest by its timer.
reactor_complete(c) ==
    /\ Polled /\ ops[c] > 0
    /\ ops' = [ops EXCEPT ![c] = @ - 1]
    /\ ready' = post(ready, Completed(c))
    /\ UNCHANGED <<mainvars, handler, netvars, runs, strand, refs, signalvars>>

\* A signal arrives: what signal_set has installed writes to its pipe. A
\* second one would find no async_wait to complete.
signal ==
    /\ pc \in {"reserve", "spawn", "run"} /\ ~signalled
    /\ signalled' = TRUE /\ pipe' = TRUE
    /\ UNCHANGED <<mainvars, handler, ready, netvars, sessionvars, stopped>>

\* The reactor reads the pipe.
reactor_signal ==
    /\ Polled /\ pipe
    /\ pipe' = FALSE
    /\ ready' = post(ready, Signal)
    /\ UNCHANGED <<mainvars, handler, netvars, sessionvars, signalled, stopped>>

Ended == ~Up /\ UNCHANGED vars

Init ==
    /\ config \in Configs
    /\ pc = "listener"
    /\ created = 0
    /\ running = {}
    /\ handler = [t \in Threads |-> None]
    /\ ready = <<>>
    /\ acceptor = [p \in Ports |-> "closed"]
    /\ pending = {}
    /\ conn = [c \in Clients |-> "away"]
    /\ free = Descriptors
    /\ runs = [c \in Clients |-> 0]
    /\ ops = [c \in Clients |-> 0]
    /\ strand = [c \in Clients |-> 0]
    /\ refs = [c \in Clients |-> 0]
    /\ pipe = FALSE
    /\ signalled = FALSE
    /\ stopped = FALSE

Next ==
    \/ main \/ signal \/ reactor_signal \/ Ended
    \/ \E t \in Threads : thread(t) \/ session_throws(t)
    \/ \E c \in Clients : connect(c) \/ reactor_complete(c)
    \/ \E p \in Ports : reactor_accept(p)

\* Threads run, and operations complete: every operation of a session has a
\* timer. Nobody has to connect, to send a signal, or to throw.
Fairness ==
    /\ WF_vars(main)
    /\ \A t \in Threads : WF_vars(thread(t))
    /\ \A c \in Clients : WF_vars(reactor_complete(c))
    /\ \A p \in Ports : WF_vars(reactor_accept(p))
    /\ WF_vars(reactor_signal)

Spec == Init /\ [][Next]_vars /\ Fairness

----------------------------------------------------------------------------
(* Properties                                                              *)

TypeOK ==
    /\ config \in Configs
    /\ pc \in {"listener", "listener2", "reserve", "spawn", "run", "join", "returned", "terminated"}
    /\ created \in 0..ThreadLimit
    /\ running \subseteq Threads
    /\ handler \in [Threads -> Handler \cup {None}]
    /\ ready \in Seq(Handler)
    /\ acceptor \in [Ports -> Outcomes]
    /\ pending \subseteq Ports
    /\ conn \in [Clients -> Ports \cup {"away", "accepted", "open", "closed"}]
    /\ free \in 0..Descriptors
    /\ runs \in [Clients -> 0..MaxRuns]
    /\ ops \in [Clients -> Nat] /\ strand \in [Clients -> Nat] /\ refs \in [Clients -> Nat]
    /\ pipe \in BOOLEAN /\ signalled \in BOOLEAN /\ stopped \in BOOLEAN

\* Where a queue has handlers of a set, which threads run one, and how many
\* there are.
Positions(queue, S) == {i \in DOMAIN queue : queue[i] \in S}
Holders(held, S) == {t \in Threads : held[t] \in S}
Count(S) == Cardinality(Positions(ready, S)) + Cardinality(Holders(handler, S))

AcceptsOf(p) == {h \in Handler : h.kind = "on_accept" /\ h.port = p}
ArrivalsOf(c) == {h \in Handler : h.kind = "on_accept" /\ h.client = c}

\* What a session has started and not yet handled, wherever it is: in the
\* reactor, in the queue, in a thread or in the strand.
Outstanding(c) == ops[c] + Count({Completed(c)}) + strand[c]

\* The clients whose connection holds a descriptor.
Live == {c \in Clients : conn[c] \in {"accepted", "open"}}

Started(p) ==
    \/ p = "port" /\ pc # "listener"
    \/ p = "port2" /\ pc \notin {"listener", "listener2"} /\ get_config_port2 # 0

\* The accept loop of a listener never ends and never runs twice: whatever
\* errors there have been, one accept of every port is waiting, queued or
\* being handled.
AcceptLoopAlive ==
    pc # "terminated" =>
       \A p \in Ports :
          Count(AcceptsOf(p)) + (IF p \in pending THEN 1 ELSE 0) = (IF Started(p) THEN 1 ELSE 0)

\* A session lives exactly as long as something of it is outstanding: it is
\* not destroyed under an operation, whatever the order in which a read and a
\* write complete, and it does not stay when the last one is handled. No
\* descriptor is lost on the way.
DescriptorsBalanced ==
    pc # "terminated" =>
       /\ \A c \in Clients : conn[c] = "open" <=> Outstanding(c) > 0
       /\ free + Cardinality(Live) = Descriptors

\* No two threads run handlers of one session at the same time, although its
\* read and its write may complete on different threads.
SessionExclusive ==
    \A c \in Clients, t, u \in Threads :
       (handler[t] = Invoker(c) /\ handler[u] = Invoker(c)) => t = u

\* The main thread serves only with as many threads as configured, and never
\* with threads = 0, whose predecessor wraps around; and main() does not
\* return, and destroy the io_context, before every one has left it.
ThreadsAsConfigured ==
    /\ pc \in {"run", "join", "returned"} => created + 1 = get_config_threads
    /\ pc = "returned" => running = {} /\ \A t \in Threads : handler[t] = None

\* An accepted socket is in one handler, a strand that is taken has one
\* invoker, and the shared_ptrs to a session are those of its handlers.
SessionInv ==
    pc # "terminated" =>
       \A c \in Clients :
          /\ Count(ArrivalsOf(c)) = (IF conn[c] = "accepted" THEN 1 ELSE 0)
          /\ Count({Invoker(c)}) = (IF strand[c] > 0 THEN 1 ELSE 0)
          /\ refs[c] = Outstanding(c)

\* The inductive invariant: with these, only threads inside ioc.run() have a
\* handler, none is left when the process has been terminated, and at every
\* time finitely many connections are live, however many clients there are.
IInv ==
    /\ TypeOK
    /\ AcceptLoopAlive
    /\ DescriptorsBalanced
    /\ SessionInv
    /\ ThreadsAsConfigured
    /\ \A t \in Threads : handler[t] # None => t \in running
    /\ pc = "terminated" => running = {}
    /\ IsFiniteSet(Live)

\* A client in the backlog of a listening port is accepted, although another
\* listener may fail forever, and although accepts fail while there is no free
\* descriptor; unless the server is stopped or dies.
ClientsAccepted ==
    \A c \in Clients :
       conn[c] \in Ports ~> (conn[c] \notin Ports \/ stopped \/ ~Up)

\* After a signal the process ends: the signal is not overtaken forever by
\* failing accepts, and no thread stays in ioc.run().
StopCompletes == signalled ~> ~Up
=============================================================================
