# shadyurl: a TLA+ verification project

shadyurl is a URL shortener that hands out long, suspicious-looking tokens. It is
a multi-threaded HTTP(S) server on Boost.Beast with one SQLite table, a pid file
and a double fork. This directory holds TLA+ models of the parts in which order,
concurrency and failure matter, the TLC configurations that check them, and
proofs for TLAPS.

Paths below are relative to the directory that holds `src/` (the repository) and
`tla/` (this project). `PROJECT.json` holds the machine-readable version: the map
from every definition to its lines, the runs, the mutants, the hazards and the
theorems.

## 1. Inventory of the system

| Component | State it keeps | Operations | Talks to |
|---|---|---|---|
| Session and pipelining queue (`include/session.hpp`, `src/session.cpp`) | stream, parser, `queue::items_`, outstanding asynchronous operations | `on_run`, `on_detect`, `on_handshake`, `do_read`/`on_read`, `queue::operator()`, `on_write`, `do_eof`, `on_shutdown` | `handle_request` (call), Beast (callbacks on the connection's strand) |
| Listener (`src/session.cpp`) | acceptor | constructor (open, bind, listen), `do_accept`, `on_accept` | creates sessions |
| Routing and responses (`include/request.hpp`) | none | `handle_request`, the response builders | the handlers below; the queue (one `send` per request) |
| POST and GET of short URLs (`include/request.hpp`, `include/sqlite_helper.hpp`, `init.sh`) | the table `urls` (both columns UNIQUE), file locks of the per-request connections | `handle_post`, `handle_get_url` | SQLite, generator, parsers, templates |
| Static files, MIME types, paths (`include/request.hpp`, `src/mime.cpp`, `src/path.cpp`) | MIME map, read-only after start | `handle_file`, `get_mime_type`, `path_cat` | file system |
| Query strings, multipart forms (`src/parseqs.cpp`, `src/multipart_wrapper.cpp`) | the part being read | `parse_qsl`, `unquote`, `split_by_eq`, reader callbacks, `parse_header_value` | `handle_post` |
| Token generator (`src/generate.cpp`) | none beyond a call (a new engine per token) | `generate_random_filename`, `generate_randstr` | `handle_post` |
| Process life cycle (`src/main.cpp`, `src/daemon.cpp`) | pid file, user, umask, listening sockets | `check_pid`, `daemonise`, `write_pid`, `drop_privs`, `remove_pid`, signal handler, joining the threads | everything |
| Configuration, logging, certificates | read-only after start | getters, `logging::fail` | everything |

What is hard in this code:

* **Two places restart reading.** `on_read` reads on while the queue has room,
  `on_write` reads on if the queue *had been* full. One restart too many is an
  assertion failure in Beast, one too few stops the connection for good.
* **Handlers of one connection complete in any order**: a read, a write, a TLS
  shutdown and a 30 s timer can be outstanding together, and end of stream and
  `Connection: close` can both lead to `do_eof`.
* **Requests meet in SQLite's file locks.** Each request opens its own connection
  and there is no busy handler, so a lock that is not free is an immediate error,
  which the two handlers treat in different ways.
* **A POST has several steps** (check, commit, render, send), any of which can
  fail, or be the last one before a crash.
* **The pid file is checked long before it is written**, its owner changes user
  before removing it, and pids are reused.
* **A session has a read and a write outstanding together**, which complete on any of
  the threads: the strand given to its socket keeps their handlers apart, and the
  `shared_ptr` in each of them decides when the session and its socket go.
* **Accepts are restarted after every error**, so a listener that cannot work, or a
  process without descriptors, keeps the threads busy while clients wait and a
  signal has to get through.
* **A URL passes several conversions** (splitting, quoting, header parameters,
  pieces of a multipart body) before it is stored, and nothing checks the result
  but a test of its beginning.

What makes each part correct is stated as the properties in section 3. The full
list of hazards, each at its line and with the properties that cover it, is under
`hazards` in `PROJECT.json`.

## 2. The modules and how they correspond to the code

### HttpSession

One connection. A handler runs on the connection's strand, so **each handler is
one action**; between two handlers the session *is* the set of operations it has
started (`pending`), each of which holds a `shared_ptr` to it. `Switch(done,
started)` is the common step: the handler of `done` ran and started `started`.

| Model | Code |
|---|---|
| `pending["read"]`, `["write"]`, ... | outstanding `async_read`, `async_write`, ... |
| `doomed` | operations that can only complete with an error: started on a closed socket, hit by the timer, or a write after our own `shutdown_send` |
| `open` | FALSE once a timer of `beast::tcp_stream` has closed the socket |
| `items`, `is_full`, `AfterRead`, `AfterWrite` | `queue::items_`, `is_full`, `operator()`, `on_write` |
| `need_eof` | `message::need_eof()` of what the response builders make; `redirect_permanent` is the one that does not copy `keep_alive` |
| `on_read_throw`, `Stop` | an exception leaving `ioc.run()`; `ioc.stop()` |

`handled`, `written`, `eofs` and `over` are history variables (numbering of
requests, completed responses, calls of `do_eof`, whether the session has
reported an error or begun to close).

A request is reduced to what the session can tell apart: keep-alive, HTTP
version, redirect or not, throws or not.

### UrlMap and Shortener

`UrlMap` is the abstract specification: an injective map that only grows, pages
that announce only stored rows and each token at most once, redirects that follow
the map or go to the fallback. It has no threads' program counters and no locks.

`Shortener` is the detailed one: any number of threads inside `handle_post` and
`handle_get_url`. A handler is split exactly where SQLite takes or gives up a file
lock: `prepare` (reading the schema needs SHARED), `insert` (SHARED, RESERVED and
the unique indexes), `commit` (PENDING: no new readers), `write` (EXCLUSIVE: no
other reader left; the row becomes visible), and for a GET `select_row` up to
`finalize`, because `handle_get_url` sends before its `scope_exit` finalizes the
statement. `step_fails` is every result but `SQLITE_DONE`. `Crash` ends all
threads; SQLite rolls back what was not written.

The lock protocol is that of SQLite's rollback journal, modelled from how the code
uses it (no busy handler, one connection per request, single statements); it is
external to the repository. `CStr` is what `sqlite3_bind_text(..., -1, ...)` keeps
of a URL: everything up to the first NUL byte, which `%00` in the form produces. The
page shows the URL as submitted; `Whole` are the URLs for which the two agree, and
what is said of pages, here and in `UrlMap`, is said of these.

The refinement is `UM == INSTANCE UrlMap WITH map <- urls`, checked by TLC
(`ImplementsMap`) and proved (`ShortenerRefinesMap`).

### Lifecycle

All processes of the program on one host. `pc` follows `main()`; `pidfile` is
absent, empty (truncated and not yet written) or a pid; `anyone` records that the
file was created with umask 0, as a daemon does; `uid` is the user a process runs
as; `port` is the process that holds the listening socket. `kill0` gives EPERM for
another user's process, which `check_pid` takes for "not running". With an empty
file `check_pid` uses an uninitialized `pid`, so it may answer either way.
Environment actions: `exec` (somebody starts the program), `die` (killed at any
point), `other` (another program gets a pid and gives it back).

Both listening ports are one `port`; configuration, MIME and certificate loading
are one step that succeeds or fails; the pid file's user is root or not.

Two parameters say how the program is started: `Serial` (no two starts at the
same time) and `Starters` (which users start it, for each configuration).

### ParseQs, Multipart, Forms, Routing, Generate and Request

`Request` is one request inside `handle_request`, on one thread. It extends the
modules of what it uses:

* `ParseQs`: `is_hex`, `from_hex`, `split_by_eq`, `unquote`, `parse_qsl` and
  `parse_header_value` as operators over texts. A text is a sequence of bytes; the
  words a handler looks for (`http://`, `url`, `name`, ...) are one symbol each. A
  `std::string` can be read up to its terminator, and no further: `Byte` has no
  value there. `trim_left` removes all white space. The loops of `unquote` and of `std::quoted` are one operator,
  `Decoded`, given what one iteration does (`unquote_at`, `quoted_at`).
* `Multipart`: the callbacks of `MultiPartData`. The vendored parser is external
  and appears as the sequence of its calls (`Calls`), which may end at any point
  because `ingest` ignores its result. Trimming the body is part of what the parser
  sees.
* `Forms`: no code, but the reference for the two modules above, from the client's
  side: what a form is and which bodies say it. A field of a form carries the code
  the client chose for each byte (as it is, `+`, `%` and two digits in either case;
  in a header parameter as it is or after a backslash), so that a body is an
  encoding of a form when it is its codes joined (`IsUrlEncoding`, `IsMultipartOf`).
  None of the parsers' operators is used in it.
* `Routing`: a path is a sequence of segments, a segment a sequence of labels
  between dots, so the five expressions and the test for `..` are conditions on
  labels. `path_cat` and the lookup of MIME types work on the same paths.
* `Generate`: the two loops of the generator, one action per iteration. A part of a
  token is kept as the length of the random string, or 0 for a word; which of the
  words of the table it is makes no difference, as none has a dot or a slash.

In `Request`, `pc` is the call the handler is in, `opened` the file that was opened
and by whom (`file_body` or the template engine), `reply` the response. `req.form`
is a history field: the fields the client meant, and the codes it wrote them with;
`FormsAssumption` says that `req.body` or `req.parts` is what results (the form is
empty for a malformed body). The database is in `Shortener`:
there a POST begins with an accepted URL and an arbitrary token, here it ends with
them.

### Server

One process from its listeners to the joined threads: `ready` is the queue of the
`io_context`, `handler` what each thread runs, `pending` the accepts that wait.
`do_accept` has the three outcomes of `async_accept`: an error at once (the
acceptor does not listen, or there is no free descriptor), waiting, a connection.
What a session does is `HttpSession`; here it has operations of which up to two are
outstanding at a time (`MaxOps`: a read and a write, or the shutdowns that follow
them). `ops` are those the reactor has. When one completes, its handler is queued
(`Completed`); the thread that takes it dispatches it to the strand of the connection
and goes on with it if the strand is free, else it stays in the strand (`strand` counts
those inside) and the thread that leaves the strand posts the invoker for it. A handler
holds a `shared_ptr` (`refs`), starts up to two operations, each with one of its own,
and gives up its own; with the last one the session is destroyed and its descriptor
free. A signal is written to the pipe of the `signal_set`, read by the reactor, and
only then is its handler queued. The unsigned count of threads keeps its width
(`Workers`), the configuration its ranges (`value`). External: the queue, the strand,
the reactor, the kernel's backlog. A strand with several waiting handlers would run
them in one go; with two operations at most one waits. Descriptors used by SQLite and by files are not
counted.

### MC modules and proof modules

`MCHttpSession`, `MCShortener`, `MCLifecycle`, `MCRequest`, `MCServer` give the constants finite values.
`HttpSessionProofs`, `ShortenerProofs`, `LifecycleProofs`, `ServerProofs`,
`RequestProofs`, `MultipartProofs` and `FormProofs` hold the theorems, `RoutingProofs` the lemmas
about paths, routes and MIME types that `RequestProofs` uses.
Definitions named `Faulty...` are not part of the models: each is a plausible bug
in the definition that follows it, and `PROJECT.json` (`mutants`) says which
property must catch it.

## 3. What the runs check

| Run | Properties | Result |
|---|---|---|
| `session` | `TypeOK`, `NoOverlappingOps`, `QueueBounded`, `WriteHasItem`, `InOrder`, `NoStall`, `NothingAfterClose`, `EofOnce`, `IInv`, `Answered`, `Released` | pass |
| `session_graceful` | `GracefulClose` | violated |
| `session_quiet` | `QuietAfterClose` | violated |
| `shortener` | `TypeOK`, `Injective`, `ToldStored`, `FreshPage`, `RedirectTrue`, `NoLockLeak`, `OneReply`, `IInv`, `ImplementsMap`, `Completes` | pass |
| `shortener_goes_to` | `GoesTo` | violated |
| `lifecycle` | `TypeOK`, `SingleServer`, `PidFileNamesServer`, `IInv` | pass |
| `lifecycle_race` | `SingleServer` | violated |
| `lifecycle_shutdown` | `CleanShutdown` | violated |
| `lifecycle_listen` | `ServerListens` | violated |
| `request` | `TypeOK`, `PathInRoot`, `ServedAs`, `FormUrl`, `SectionsOwnHeaders`, `ParamLimit`, `TokenRandom`, `TokenRouted` | pass |
| `request_limit` | `LimitSurvived` | violated |
| `server` | `TypeOK`, `AcceptLoopAlive`, `DescriptorsBalanced`, `SessionExclusive`, `ThreadsAsConfigured`, `ClientsAccepted`, `StopCompletes` | pass |

**Session.** The queue protocol is right: no overlapping operation, no overfull
queue, no stalled connection, the assertion in `queue::on_write` never fails,
responses leave in order and none follows a closing one, and `do_eof` runs at
most once per caller. Two things the comments say do not hold. When the client
closes its sending side while responses are queued, `on_read` calls `do_eof` at
once and the remaining responses are written into a direction already shut down
(`GracefulClose`). And after a closing response the read that was outstanding
still takes requests and executes them, POSTs included, although their responses
can never leave (`QuietAfterClose`).

**Shortener.** The UNIQUE constraints and SQLite's locks keep the table injective
under every interleaving and crash; every page announces a stored row (of URLs
without a NUL byte: with one, the row has less than the page says); no error path
keeps a lock or forgets the response, and no handler waits for another one. But a GET that meets another request's
commit gets `SQLITE_BUSY`, which `handle_get_url` does not tell from "no such
token": a token that was given out is answered with a *permanent* redirect to the
fallback (`GoesTo`).

**Lifecycle.** With starts one after the other, and with daemons started by root
only, at most one process serves and the pid file names it, with kills at any
point, reuse of pids, and failing starts by unprivileged users. Two starts at the
same time defeat the check (`lifecycle_race`). With a configured user the pid file
cannot be removed at the end (`lifecycle_shutdown`), and because it is removed
before the threads are joined and the socket closed, a server started in between
serves without a port (`lifecycle_listen`).

**Request.** No target leads out of the document root. Paths are compared as they
resolve, with `.` and empty segments removed: only what lies below `assets/`,
`favicon.ico` and `robots.txt` is sent as it is, and only HTML files get to the
template engine. (Which HTML file is another matter, see section 5.) The URL taken
from the form is the one the client put there, byte by byte, for every legal way of
quoting it, however many fields there are, and wherever the multipart parser stops; no
header gets from one part to another. A form within the limit never ends the process,
whatever its values contain; a body with more separators than the limit does, as
nothing catches the exception of `parse_qsl` (`LimitSurvived`, violated by a body of
separators only). Every token has a random string and is routed to `handle_get_url`.

**Server.** Each listener has exactly one accept under way, after any number of
errors. A session lives exactly as long as one of its operations is outstanding, in
whatever order read and write complete, no two threads run its handlers at a time,
and descriptors are neither lost nor freed twice. The process serves only with
the configured number of threads, so with `threads = 0`, whose predecessor wraps
around, it ends with an exception instead. A listener that fails forever keeps a
thread busy, but because the queue is first in, first out, clients of the other
port are accepted and a signal ends the server, also with a single thread. The same
holds while there is no free descriptor.

### Bounds, and why they are enough

* `session`: `Limit = 3`, `MaxRequests = 7`. The code's limit is 8; what matters
  is the queue being empty, holding one response, being between, one below the
  limit and full, which all differ with 3, and 7 requests fill the queue, drain
  it and fill it again. `MaxRequests` bounds only `on_read_request` and
  `on_read_throw`. The proofs cover every `Limit > 0` and every `MaxRequests`.
* `shortener`: 2 threads, 2 tokens, 3 URLs, one of which is another one followed
  by a NUL byte. Conflicts are pairwise (same token, same URL, writer against
  reader). The run checks liveness as well and so declares no symmetry; what it
  says of more than two threads, safety and refinement, is proved for any number.
* `lifecycle`: 3 pids: a server, a second start, and a free pid for its fork or
  another program. Pids are symmetric.
* `request`: a value is `http://` and up to three bytes, among them every one with
  a meaning for the parser, a byte above 127, `%26` as text, and NUL; forms have up
  to two different fields, or three to five equal ones around `MaxParams = 3`; two
  parts of at most two pieces (a header can only get to the next part, and a piece
  only be taken for the one before it). `RandMin..RandMax = 2..3` and two or three
  parts with at most two random strings instead of 6..15, 5..8 and 3: the limit on
  random strings is reached before and together with the last part.
* `server`: two clients and one descriptor, so that one of them waits for the
  other; three operations of each connection (`MaxRuns = 3`), so that two can be
  outstanding, complete together on two threads, and one of them start a third; at
  most two worker threads (`ThreadLimit`), integers of 3 bits, so that 0 wraps around to 7.

Deadlock is checked except for the session, which ends. `Request` and `Server` have
an action `Ended` for the states where they may stop.

### Fairness

* Session: weak fairness of each handler whose operation is outstanding. The code
  arms a 30 s timer before every operation, so each one completes, at the latest
  with a timeout, and the threads in `ioc.run()` then run its handler. Nothing is
  assumed about the client, the timer's firing in time, or `Stop`.
* Shortener: weak fairness of each thread *inside* a handler. No SQLite call
  waits, as there is no busy handler. Nothing makes new requests arrive.
* Server: weak fairness of the main thread, of each thread in `ioc.run()` and of the
  reactor, which the threads come back to between handlers. Operations of a session
  complete because of their timers, a signal in the pipe is read, and a session has at most `MaxRuns` of them: a
  client that sends requests without end may keep its descriptor without end. Nobody
  has to connect or to send a signal.

## 4. What is proved

All theorems are for every value of the constants, under the `ASSUME`s of the
modules (`Limit` positive, `CStr` maps URLs to URLs, `None` is no thread or pid,
a target and a document root have at least one segment, a part of a form has at least
one piece, where a request has a form its body or its parts encode it in one of the
ways of `Forms`, the limit of fields is a number, the ranges of the generator are not
empty, and the like).

**HttpSessionProofs.** `SessionInvariant` (`Spec => []IInv`) and, from it, one
theorem per safety property. The properties are not inductive alone. For
`NoOverlappingOps` one has to know that a read is outstanding only while the queue
has room (`ReadInv`), so that the read restarted by `on_write` after a full queue
is the only one; that after the end of the request stream the queue stays below
its limit, so that no read is started again; and that after a closing response the
queue is stuck (`WriteInv`). `InOrder` needs the numbering of the queue
(`OrderInv`), and `StageInv` separates detection, handshake and the rest.

**ShortenerProofs.** `ShortenerInvariant`, one theorem per property, and the
refinement `ShortenerRefinesMap`. The strengthening is `LockInv`: which locks a
thread holds is determined by where it is. SQLite's RESERVED then gives mutual
exclusion between the uniqueness check and the commit (`CheckedRowFresh`), which gives
`Injective`; `ToldRows` says of every announced pair that its cut form is stored, from
which `ToldStored` follows for the URLs in `Whole`; and `FreshPage` is what the abstract `Announce` needs. Each step maps
to `Accept`, `Refuse`, `Store`, `Announce`, `Answer`, `Restart` or a stutter.

**LifecycleProofs.** `LifecycleInvariant` (`Spec => []IInv`), `LifecycleTypes`,
`LifecyclePidFile` and `LifecycleSingleServer` assume
`Serial` and `RootDaemons` (only root starts a configuration with
`daemon = true`); the runs `lifecycle_race` and the remark on EPERM below show that
neither can be dropped. The argument: a server's pid is in the file (`FileInv`),
root's `kill` sees it, so a start of root's beyond the check means there is no
server; others pass the check but cannot write root's file, since only a daemon's
is writable by everybody (`StartInv`).

**ServerProofs.** `ServerInvariant` (`Spec => []IInv`) and one theorem per safety
property, for any number of clients, threads, descriptors and operations.
`AcceptLoopAlive`, `DescriptorsBalanced` and `SessionInv` count handlers in the queue
and in the threads; `Count` is a sum of two cardinalities
(`Positions`, `Holders`), and the lemmas say how each kind of step changes them:
posting, taking from the queue, exchanging, finishing. `SessionInv` is what makes
sessions inductive: a connection that was accepted is in exactly one handler; a strand
has exactly one invoker, queued or running, while anything is in it; and the owners of a
session are its operations in the reactor, its completions and what is in its strand. A
handler that runs is therefore an owner, so `refs` reaches 0 only with the last of them
(`SessionStep`), and `SessionExclusive` follows as two threads with the invoker would
be two. They need two facts more: only threads
inside `ioc.run()` have a handler, so nothing is lost when a thread leaves, and no
thread is left once the process has been terminated, when the properties no longer
say anything. That the live connections are finitely many, although `Clients` may be
infinite, makes the count of descriptors meaningful. `ServerAcceptExclusive` draws a
conclusion no run states: no two threads are ever in `on_accept` of one listener.

**RoutingProofs and RequestProofs.** `RequestInvariant` and the theorems for
`TypeOK`, `PathInRoot`, `ServedAs`, `TokenRandom` and `TokenRouted`, for targets,
document roots and MIME tables of any size. The strengthening: a handler's target is
legal and the table has led there, and the steps after `handle_post` have a POST of
its page (`ControlInv`); a file is opened in the last step only, and a token has an
extension of the table (`TokenInv`); the counter of `generate_random_filename` counts
the random strings except the one being made and the one appended when there is none
(`GenerateInv`). `PathInRoot` then rests on `ResolveInside`: from where a path ends,
segments without `..` never lead out again. `ServedAs` rests on `MimeType`, what the
search of `find_extension` finds, and on `StaticPath` and `HtmlPath`: where a path
resolves to whose target matches the first or the template route (`ResolveAppend`
gives the last segment of what a path resolves to). These are facts about recursive functions and texts of any length. They are
proved by induction in the form of `SetInduction` (a set of numbers that has 0 and
every successor has all numbers), which follows from the library's theorem that `<`
is well founded on the natural numbers; for each recursive function a lemma shows
first that its defining equation has a solution (`WalkExists`, `SearchExists`).

**MultipartProofs.** `RequestSections` (`Spec => []SectionsOwnHeaders`), for forms
with any number of parts, headers and pieces and for a parser that gives up anywhere.
The strengthening (`MultipartInv`) says where the reader is while calls are left: in
some part j, with n of its headers, perhaps the name of the next one, and q of its
pieces (`ReadingAt`). That determines the remaining calls, the sections so far and
`cur_header_vals_`: before the first piece what the first n headers put there
(`IsOwn`), afterwards nothing. The lemmas say what `FlattenSeq` computes, which call
is at which position (`CallsDef`, `CallAt`), and that all headers of a part, put one
after the other, are the map of the reference (`OwnAll`). The assumption that every
part has a piece is needed: a part without one would leave its headers to the next.
It is a fact about the third-party parser, which reports an empty content with a call
of length 0.

**FormProofs.** `RequestFormUrl` (`Spec => []FormUrl`) and `RequestParamLimit`
(`Spec => []ParamLimit`), for forms with any number of fields, names and values of any
bytes and every encoding that `Forms` allows. The argument for an urlencoded form: no
code contains the separator, so splitting the body gives back its fields
(`SplitJoined`), and the separators are one fewer than the fields
(`CountSeparators`), so that a form within the limit is not refused, which is
`ParamLimit`; the first equals sign ends the
name (`FieldParsed`); and `unquote`, started where a code begins, appends the byte it
stands for and goes on where the next code begins, so it gives back the text
(`UnquoteQuoting`, by induction from the end of the text). That its recursion has a
solution although it goes on one, two or three positions further is `DecodingExists`;
the same lemmas serve `std::quoted` and its backslashes. `MapOfDef` says that the last
of several values counts. For a multipart form, what the parameters of a header say
(`ParamParsed`, `NameParsed`) is the name of the part, only the first section of a
part can bear it (`PartNamed`), and the first section with the name `url` is the first
piece of the first part of that name, wherever the parser gave up (`FindUrlDef`). The
strengthening is `MultipartInv`, the fact that the sections are a sequence of sections
during `ingest` (`SectionsAreSeqStep`), and that `ingest` is only reached for a
multipart form (`ControlInv`). What `Forms` assumes of a client is needed: of
two `Content-Disposition` headers the last one would count, and a semicolon inside
quotation marks separates parameters (section 5). The words (`http://`, `url`, `name`) are one symbol each and
are written as they are; a quoted letter of `url` is therefore not covered.

**Only model-checked:** `Answered`, `Released`, `Completes`, `ClientsAccepted` and
`StopCompletes`: liveness under fairness is out of the prover's reach. Every invariant
and action property of the passing runs, and the refinement, is proved.

## 5. Observations without a run

* `check_pid` takes EPERM for "not running". With `daemon = true` the pid file is
  writable by everybody, so a start by another user, on another port or after the
  bind failed, goes on to serve and overwrites it. This is why the theorems
  assume `RootDaemons`.
* `daemonise` changes to `/`, but the example configuration has a relative
  `dbpath`: requests then open `/urls.db` and not the database next to
  `config.toml`.
* `init.sh` line 3 lacks a space before `]`, so its test fails and the table is
  not created; the model starts from an existing, empty table.
* The route of `post.html` is an expression on the target as it came, and the template
  route (`include/request.hpp:468`) matches everything that ends in `.html`. A GET of
  `//post.html` or `/./post.html` therefore renders the page of a POST without its
  values, and `//assets/x.html` goes to the template engine and not to `handle_file`.
* A URL with a NUL byte (`%00`): the page announces it uncut, the row has what comes
  before it (`include/request.hpp:324`), and the token goes there.
* The limit of `parse_qsl` is on separators: one field more than the limit is accepted,
  and empty pieces count as fields (`src/parseqs.cpp:99`).
* When `drop_privs` fails, the process ends with its pid file written.
* When the template cannot be read after the row has been committed, the client
  gets an error and no later POST of the same URL can succeed.
* The same holds of a client that lost the page and posts again: the URL is taken, and
  its token is disclosed only once.
* A field that comes twice: of an urlencoded form the last one counts, of a multipart
  form the first one. Of a multipart value only the piece up to the first carriage
  return is used.
* `handle_post` compares the content type as a whole: with a `charset` parameter an
  urlencoded form is refused. Header names in a multipart body are case-sensitive.
* `split_by_eq` gives `=v` an empty key and the value `=v`, equals sign included.
* `parse_header_value` splits at semicolons inside quotation marks as well.
* A query string is part of the target: `/?x` and `/index.html?x` are taken for
  tokens and redirected to the fallback.
* An empty `docroot` is not the current directory: `path_cat` then returns the
  target itself, an absolute path.
* Integers in the configuration that are out of range count as absent: a `port2` of
  70000 means no second port, a negative `threads` means 2.

## 6. Not modelled, and the plan

Left out on purpose: message texts, log levels, HTML templates and the words of the
generator (data); the getters that return a text or a default; certificates (I/O on
OpenSSL); everything under `subprojects/` (third party); read errors of the disk in a
GET; `set_rlimit` (its call is compiled out); the working directory (`chdir`), see
section 5.

The plan is done: **HttpSession**, **UrlMap/Shortener**, **Lifecycle**, **Server** and
**Request** with **ParseQs**, **Multipart**, **Forms**, **Routing** and **Generate**
are modelled, checked and have proofs.
