------------------------------ MODULE Request ------------------------------
(***************************************************************************)
(* One request from handle_request to its response: the route, the static  *)
(* files and templates, and a POST from its form to the token it gets. The *)
(* database is the subject of Shortener; here it succeeds or fails.        *)
(* The handler runs on one thread; each of its calls is an action.         *)
(***************************************************************************)
EXTENDS Routing, Forms, Generate

CONSTANTS
    Requests,   \* the requests that may arrive
    DocRoots,   \* possible values of get_config_doc_root()
    MimeLines,  \* extensions and types, line by line, of mimetypes.txt
    Default,    \* the type of all other files
    MaxParams   \* default argument of parse_qsl (1000)

ASSUME RequestsAssumption == \A r \in Requests : r.target.path \in Path

\* handle_post takes the body for a multipart form.
multipart(ctype) == ctype # <<>> /\ Head(ctype) = FormData

\* The parser makes parts; where a form is given, the request encodes it.
ASSUME FormsAssumption ==
    \A r \in Requests :
       /\ r.parts \in Seq(Part)
       /\ (r.form # <<>> /\ multipart(r.ctype)) => IsMultipartOf(r.parts, r.form)
       /\ (r.form # <<>> /\ ~multipart(r.ctype)) => IsUrlEncoding(r.body, r.form)

ASSUME LimitAssumption == MaxParams \in Nat

ASSUME DocRootsAssumption == DocRoots \subseteq Path

VARIABLES
    pc,         \* the call the handler is in
    req,        \* the request
    doc_root,
    opened,     \* the file that was opened, and by whom
    url,        \* url of handle_post
    token,      \* the target of the new short URL
    reply       \* status and content type

vars == <<pc, req, doc_root, opened, url, token, reply, mpvars, gvars>>

\* The map that the constructor of MimeTypeMap reads.
mimetypes == MapOf(MimeLines, DOMAIN MimeLines)

Handlers == {"handle_file", "handle_post", "handle_get_template", "handle_get_url"}
Pc == Handlers \cup {"handle_request", "ingest", "check_url", "generate", "store",
                     "done", "terminated"}
NotOpened == [by |-> "nobody", path |-> <<>>]
NoReply == [status |-> "none", mime |-> Default]

TypeOK ==
    /\ pc \in Pc
    /\ reply.status \in {"none", "ok", "redirect", "bad_request", "not_found", "server_error"}
    /\ (reply.status # "none") <=> (pc = "done")
    /\ GenerateTypeOK
    /\ (stage # "idle") => (pc = "generate")
    /\ (calls # <<>>) => (pc = "ingest")

----------------------------------------------------------------------------
(* Helpers                                                                 *)

\* return send(...).
Send(status, mime) == pc' = "done" /\ reply' = [status |-> status, mime |-> mime]

bad_request == Send("bad_request", "text/html")

Goto(to) == pc' = to /\ UNCHANGED reply

\* What only a POST touches.
postvars == <<url, token, mpvars, gvars>>

----------------------------------------------------------------------------
(* The handlers                                                            *)

handle_request ==
    /\ pc = "handle_request"
    /\ \/ illegal_target(req.target) /\ bad_request
       \/ /\ ~illegal_target(req.target)
          /\ IF route(req.target.path) = "not_found" THEN Send("not_found", "text/html")
             ELSE Goto(route(req.target.path))
    /\ UNCHANGED <<req, doc_root, opened, postvars>>

\* Outcomes of opening the file: "ok", no such file, another error. HEAD and
\* GET answer with the type of the file.
handle_file ==
    /\ pc = "handle_file"
    /\ \/ /\ req.method \notin {"get", "head"}
          /\ bad_request
          /\ UNCHANGED opened
       \/ /\ req.method \in {"get", "head"}
          /\ opened' = [by |-> "file_body", path |-> path_cat(doc_root, req.target.path)]
          /\ \/ Send("not_found", "text/html")
             \/ Send("server_error", "text/html")
             \/ Send("ok", get_mime_type(opened'.path, mimetypes, Default))
    /\ UNCHANGED <<req, doc_root, postvars>>

\* The file of a page.
page_path == with_index(path_cat(doc_root, req.target.path), req.target.path)

\* Parsing or rendering the template may throw.
handle_get_template ==
    /\ pc = "handle_get_template"
    /\ \/ req.method # "get" /\ bad_request /\ UNCHANGED opened
       \/ /\ req.method = "get"
          /\ opened' = [by |-> "inja", path |-> page_path]
          /\ \/ bad_request
             \/ Send("ok", "text/html")
    /\ UNCHANGED <<req, doc_root, postvars>>

\* The lookup is in Shortener.
handle_get_url ==
    /\ pc = "handle_get_url"
    /\ \/ req.method # "get" /\ bad_request
       \/ req.method = "get" /\ (Send("redirect", "none") \/ Send("server_error", "text/html"))
    /\ UNCHANGED <<req, doc_root, opened, postvars>>

----------------------------------------------------------------------------
(* handle_post                                                             *)

is_multipart == multipart(req.ctype)

boundary == Lookup(parse_header_value(req.ctype), <<BoundaryWord>>)

\* Wrong method or content type, or no boundary.
post_refused ==
    /\ pc = "handle_post"
    /\ \/ req.method # "post"
       \/ req.ctype # <<UrlEncoded>> /\ ~is_multipart
       \/ is_multipart /\ boundary \in {Monostate, <<>>}
    /\ bad_request
    /\ UNCHANGED <<req, doc_root, opened, postvars>>

\* parse_qsl throws: nothing catches it on its way out of ioc.run().
parse_throws ==
    /\ pc = "handle_post" /\ req.method = "post"
    /\ req.ctype = <<UrlEncoded>>
    /\ exceeds(req.body, MaxParams)
    /\ Goto("terminated")
    /\ UNCHANGED <<req, doc_root, opened, postvars>>

post_urlencoded ==
    /\ pc = "handle_post" /\ req.method = "post"
    /\ req.ctype = <<UrlEncoded>>
    /\ ~exceeds(req.body, MaxParams)
    /\ LET qsm == parse_qsl(req.body)
       IN  IF Has(qsm, <<UrlWord>>) THEN url' = qsm[<<UrlWord>>] /\ Goto("check_url")
           ELSE bad_request /\ UNCHANGED url
    /\ UNCHANGED <<req, doc_root, opened, token, mpvars, gvars>>

post_multipart ==
    /\ pc = "handle_post" /\ req.method = "post"
    /\ is_multipart /\ boundary \notin {Monostate, <<>>}
    /\ ingest(req.parts)
    /\ Goto("ingest")
    /\ UNCHANGED <<req, doc_root, opened, url, token, gvars>>

callback ==
    /\ pc = "ingest"
    /\ read_header_name \/ read_header_value \/ read_body \/ parser_stops
    /\ UNCHANGED <<pc, req, doc_root, opened, url, token, reply, gvars>>

\* The loop over the sections, and the test for an empty URL.
search_url ==
    /\ pc = "ingest" /\ calls = <<>>
    /\ url' = find_url
    /\ IF url' = <<>> THEN bad_request ELSE Goto("check_url")
    /\ UNCHANGED <<req, doc_root, opened, token, mpvars, gvars>>

check_url ==
    /\ pc = "check_url"
    /\ IF url # <<>> /\ Head(url) = Http THEN Goto("generate") ELSE bad_request
    /\ UNCHANGED <<req, doc_root, opened, postvars>>

generate ==
    /\ pc = "generate"
    /\ generating
    /\ UNCHANGED <<pc, req, doc_root, opened, url, token, reply, mpvars>>

generated ==
    /\ pc = "generate"
    /\ joined
    /\ \E e \in Exts : token' = TokenPath(e)
    /\ Goto("store")
    /\ UNCHANGED <<req, doc_root, opened, url, mpvars>>

\* The insertion may fail; then the page is rendered, which may throw.
store ==
    /\ pc = "store"
    /\ \/ Send("server_error", "text/html") /\ UNCHANGED opened
       \/ /\ opened' = [by |-> "inja", path |-> page_path]
          /\ bad_request \/ Send("ok", "text/html")
    /\ UNCHANGED <<req, doc_root, postvars>>

handle_post ==
    \/ post_refused \/ parse_throws \/ post_urlencoded \/ post_multipart
    \/ callback \/ search_url \/ check_url \/ generate \/ generated \/ store

Init ==
    /\ pc = "handle_request"
    /\ req \in Requests
    /\ doc_root \in DocRoots
    /\ opened = NotOpened /\ url = <<>> /\ token = <<>> /\ reply = NoReply
    /\ Constructed
    /\ Idle

\* The response is in the session's queue, or the process has ended. Every
\* other state has to have a successor.
Ended == pc \in {"done", "terminated"} /\ UNCHANGED vars

Next ==
    handle_request \/ handle_file \/ handle_get_template \/ handle_get_url \/ handle_post \/ Ended

Spec == Init /\ [][Next]_vars

----------------------------------------------------------------------------
(* Properties                                                              *)

\* No request makes a handler open a file outside the document root: the test
\* in handle_request, the routes and path_cat together keep it inside.
PathInRoot == opened # NotOpened => IsPrefix(Resolve(doc_root), Resolve(opened.path))

\* Where the files lie that are sent as they are: below assets/, and two more.
StaticFile(path) ==
    LET root == Resolve(doc_root)
    IN  \/ IsPrefix(Append(root, <<"assets">>), Resolve(path))
        \/ Resolve(path) \in { Append(root, s) : s \in {<<"favicon", "ico">>, <<"robots", "txt">>} }

\* Only a static file is sent as it is, so that the source of a template in
\* the root never is, with the type of the longest known extension of its
\* name, whatever dots are in the directories before it. Only an HTML file
\* gets to the template engine. This is about the files that the paths lead
\* to, whatever "." and empty segments the target has.
ServedAs ==
    LET name == Last(req.target.path)
        known == {i \in 2..Len(name) : SubSeq(name, i, Len(name)) \in DOMAIN mimetypes}
    IN  /\ opened.by = "file_body" => StaticFile(opened.path)
        /\ (opened.by = "file_body" /\ reply.status = "ok") =>
              \/ known = {} /\ reply.mime = Default
              \/ \E i \in known : /\ \A j \in known : i <= j
                                  /\ reply.mime = mimetypes[SubSeq(name, i, Len(name))]
        /\ opened.by = "inja" => Last(Last(Resolve(opened.path))) = "html"

\* The value that a form gives to "url", and nothing else, is what handle_post
\* checks and goes on with: of an urlencoded form the last one, byte by byte,
\* however it was quoted; of a multipart form the beginning of the first part
\* of that name. (A NUL byte in it cuts what the database gets: Shortener.)
FormUrl ==
    (pc \in {"check_url", "generate", "store"} /\ req.form # <<>>) =>
       LET named == {i \in DOMAIN req.form : req.form[i].name = <<UrlWord>>}
       IN  \E i \in named :
             IF is_multipart
             THEN url = req.parts[i].pieces[1] /\ \A j \in named : i <= j
             ELSE url = req.form[i].value /\ \A j \in named : j <= i

\* Each piece of a part becomes one section, in order, and the headers of a
\* part stay with its first piece: they never get to another part.
SectionsOwnHeaders ==
    IsPrefix(sections, AllSections(req.parts))

\* A form with no more fields than the limit never ends the process, whatever
\* separators its values contain.
ParamLimit ==
    (req.form # <<>> /\ ~is_multipart /\ Len(req.form) <= MaxParams) => pc # "terminated"

\* parse_qsl says of its limit that it is there "to prevent DoS attacks": no
\* request ends the process.
LimitSurvived == pc # "terminated"

\* Every token has a random string of the minimal length at least, and no more
\* of them than allowed, although the loop draws its limit again and again.
TokenRandom ==
    stage = "join" =>
       /\ Cardinality(RandomParts) \in 1..MaxInserts
       /\ \A i \in RandomParts : out[i] \in RandMin..RandMax
       /\ Len(out) \in MinParts..MaxParts + 1

\* A GET of any new short URL is legal and gets to handle_get_url, and not to
\* a file or a template.
TokenRouted ==
    token # <<>> => /\ ~illegal_target([absolute |-> TRUE, path |-> token])
                    /\ route(token) = "handle_get_url"

----------------------------------------------------------------------------
(* The inductive invariant                                                 *)

PostSteps == {"ingest", "check_url", "generate", "store"}

\* What a handler and the steps after it know: the target is legal, the table
\* has led here, and past its first step handle_post has a POST of its page.
ControlInv ==
    /\ req \in Requests /\ doc_root \in DocRoots
    /\ pc \in Handlers \cup PostSteps => ~illegal_target(req.target)
    /\ pc \in Handlers => route(req.target.path) = pc
    /\ pc \in PostSteps => req.target.path = PostPage /\ req.method = "post"
    /\ pc = "ingest" => is_multipart

\* Only the last step of a request opens a file, and only a new short URL has
\* a token, with an extension of the table.
TokenInv ==
    /\ pc # "done" => opened = NotOpened
    /\ pc = "store" => token # <<>>
    /\ token # <<>> => \E e \in Exts : token = TokenPath(e)

\* The reader is as constructed until handle_post uses it, and then knows
\* where in the form it is.
MultipartInv ==
    /\ pc \in Handlers \cup {"handle_request"} => cur_header_vals = NoEntries /\ sections = <<>>
    /\ calls # <<>> => Reading(req.parts)

IInv == TypeOK /\ GenerateInv /\ ControlInv /\ TokenInv /\ PathInRoot /\ ServedAs
=============================================================================
