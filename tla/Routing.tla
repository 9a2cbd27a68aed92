------------------------------ MODULE Routing ------------------------------
(***************************************************************************)
(* Targets, routes, paths and MIME types. A path is the sequence of what   *)
(* is between its slashes, and each of these segments the sequence of what *)
(* is between its dots: "/a/b.tar.gz" is << <<"a">>, <<"b","tar","gz">> >>, *)
(* "/" is << <<"">> >>, and a segment with ".." has an empty label inside.  *)
(***************************************************************************)
EXTENDS Integers, SequencesExt

EmptySegment == <<"">>
DotDot == <<"", "", "">>
Dot == <<"", "">>
PostPage == << <<"post", "html">> >>

----------------------------------------------------------------------------
(* handle_request                                                          *)

\* Faulty variant: ".." is refused only as a whole segment at the start.
FaultyIllegal(t) == ~t.absolute \/ t.path[1] = DotDot

\* The target does not begin with a slash, or has ".." in it.
illegal_target(t) ==
    \/ ~t.absolute
    \/ \E s \in Range(t.path) : \E i \in 2..Len(s) - 1 : s[i] = ""

\* Faulty variant: the expression is not anchored at the start of the target.
FaultyIsFile(path) ==
    \E i \in DOMAIN path :
       LET rest == SubSeq(path, i, Len(path))
       IN  \/ Len(rest) > 1 /\ rest[1] = <<"assets">>
           \/ rest \in { << <<"favicon", "ico">> >>, << <<"robots", "txt">> >> }

\* The route expressions, in the order of the table.
is_file(path) ==
    \/ Len(path) > 1 /\ path[1] = <<"assets">>
    \/ path \in { << <<"favicon", "ico">> >>, << <<"robots", "txt">> >> }
is_post(path) == path = PostPage
is_root(path) == path = <<EmptySegment>>
is_template(path) ==
    is_root(path) \/ (Len(Last(path)) > 1 /\ Last(Last(path)) = "html")
is_token(path) == Len(path) = 1 /\ path # <<EmptySegment>>

\* The handler of the first entry that matches.
FirstMatch(routes) ==
    LET i == SelectInSeq(routes, LAMBDA r : r.match)
    IN  IF i = 0 THEN "not_found" ELSE routes[i].fn

\* The table of handle_request.
route(path) ==
    FirstMatch(<< [match |-> is_file(path),     fn |-> "handle_file"],
                  [match |-> is_post(path),     fn |-> "handle_post"],
                  [match |-> is_root(path),     fn |-> "handle_get_template"],
                  [match |-> is_template(path), fn |-> "handle_get_template"],
                  [match |-> is_token(path),    fn |-> "handle_get_url"] >>)

----------------------------------------------------------------------------
(* path.cpp and mime.cpp                                                   *)

\* The base loses a slash at its end.
path_cat(base, target) ==
    (IF Len(base) > 1 /\ Last(base) = EmptySegment THEN Front(base) ELSE base) \o target

\* path.append("index.html") when the target ends with a slash.
with_index(path, target) ==
    IF Last(target) = EmptySegment THEN Append(Front(path), <<"index", "html">>) ELSE path

\* The text after the first dot, then after the next one, and so on.
find_extension(labels, mimetypes, default) ==
    LET search[i \in 2..Len(labels) + 1] ==
          IF i > Len(labels) THEN default
          ELSE IF SubSeq(labels, i, Len(labels)) \in DOMAIN mimetypes
               THEN mimetypes[SubSeq(labels, i, Len(labels))]
               ELSE search[i + 1]
    IN  search[2]

find_filename(labels, mimetypes, default) ==
    IF Len(labels) = 1 THEN default ELSE find_extension(labels, mimetypes, default)

\* What follows the last slash decides.
get_mime_type(path, mimetypes, default) == find_filename(Last(path), mimetypes, default)

----------------------------------------------------------------------------
(* Reference                                                               *)

\* Segments, and the paths they make up.
Segment == Seq(STRING) \ {<<>>}
Path == Seq(Segment) \ {<<>>}

\* Where the file system gets from a directory with the next segment.
Enter(at, s) ==
    IF s = DotDot THEN (IF at = <<>> THEN at ELSE Front(at))
    ELSE IF s \in {Dot, EmptySegment} THEN at ELSE Append(at, s)

\* Where it is after each segment of a path, and in the end.
Walk(p) ==
    LET at[i \in 0..Len(p)] == IF i = 0 THEN <<>> ELSE Enter(at[i - 1], p[i])
    IN  at
Resolve(p) == Walk(p)[Len(p)]
=============================================================================
