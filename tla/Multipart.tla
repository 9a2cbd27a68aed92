----------------------------- MODULE Multipart -----------------------------
(***************************************************************************)
(* MultiPartData: the callbacks that multipart_parser_execute makes while  *)
(* it reads a body, and the sections they collect. A part of the body is   *)
(* its headers and the pieces in which the parser hands over its content   *)
(* (it cuts at every carriage return, and makes one call for an empty      *)
(* content).                                                               *)
(***************************************************************************)
EXTENDS ParseQs

VARIABLES
    calls,            \* callbacks the parser has still to make
    cur_header_name,  \* cur_header_name_
    cur_header_vals,  \* cur_header_vals_
    sections          \* data_

mpvars == <<calls, cur_header_name, cur_header_vals, sections>>

\* What the parser makes of one part. External.
Calls(part) ==
    FlattenSeq([i \in DOMAIN part.headers |->
                  << [cb |-> "header_field", text |-> part.headers[i].name],
                     [cb |-> "header_value", text |-> part.headers[i].value] >>])
    \o [i \in DOMAIN part.pieces |-> [cb |-> "part_data", text |-> part.pieces[i]]]

AllCalls(parts) == FlattenSeq([i \in DOMAIN parts |-> Calls(parts[i])])

\* The constructor.
Constructed ==
    /\ calls = <<>>
    /\ cur_header_name = <<>>
    /\ cur_header_vals = NoEntries
    /\ sections = <<>>

ingest(parts) ==
    /\ calls' = AllCalls(parts)
    /\ UNCHANGED <<cur_header_name, cur_header_vals, sections>>

Callback(cb) == calls # <<>> /\ Head(calls).cb = cb /\ calls' = Tail(calls)

read_header_name ==
    /\ Callback("header_field")
    /\ cur_header_name' = Head(calls).text
    /\ UNCHANGED <<cur_header_vals, sections>>

read_header_value ==
    /\ Callback("header_value")
    /\ cur_header_vals' = Put(cur_header_vals, cur_header_name, parse_header_value(Head(calls).text))
    /\ UNCHANGED <<cur_header_name, sections>>

\* Faulty variant: the headers stay for the next section.
FaultyReadBody ==
    /\ Callback("part_data")
    /\ sections' = Append(sections, [headers |-> cur_header_vals, data |-> Head(calls).text])
    /\ UNCHANGED <<cur_header_name, cur_header_vals>>

\* Every piece becomes a section; only the first one of a part has headers.
read_body ==
    /\ Callback("part_data")
    /\ sections' = Append(sections, [headers |-> cur_header_vals, data |-> Head(calls).text])
    /\ cur_header_vals' = NoEntries
    /\ UNCHANGED cur_header_name

\* The parser gives up on a malformed body; ingest ignores how far it got.
parser_stops ==
    /\ calls # <<>>
    /\ calls' = <<>>
    /\ UNCHANGED <<cur_header_name, cur_header_vals, sections>>

----------------------------------------------------------------------------
(* How handle_post finds its field                                         *)

\* cdmap["name"]; a section without Content-Disposition is skipped like one
\* without a name.
field_name(section) ==
    IF Has(section.headers, <<ContentDisposition>>)
    THEN Lookup(section.headers[<<ContentDisposition>>], <<NameWord>>)
    ELSE Monostate

\* The content of the first section named "url", empty if there is none.
find_url ==
    LET i == SelectInSeq(sections, LAMBDA s : field_name(s) = <<UrlWord>>)
    IN  IF i = 0 THEN <<>> ELSE sections[i].data

----------------------------------------------------------------------------
(* Reference                                                               *)

\* The headers of a part; of two with one name the last one counts.
OwnHeaders(part) ==
    [n \in {part.headers[i].name : i \in DOMAIN part.headers} |->
        LET i == SelectLastInSeq(part.headers, LAMBDA h : h.name = n)
        IN  parse_header_value(part.headers[i].value)]

\* The sections of a part: its own headers go with its first piece.
Sections(part) ==
    [i \in DOMAIN part.pieces |->
        [headers |-> IF i = 1 /\ part.headers # <<>> THEN OwnHeaders(part) ELSE NoEntries,
         data |-> part.pieces[i]]]
AllSections(parts) == FlattenSeq([i \in DOMAIN parts |-> Sections(parts[i])])

\* Texts, and what the parser can make of a part: at least one piece.
Text == Seq(Nat)
Part == [headers : Seq([name : Text, value : Text]), pieces : Seq(Text) \ {<<>>}]

----------------------------------------------------------------------------
(* Invariant                                                               *)

\* f is what the first n headers of a part leave in cur_header_vals_.
IsOwn(f, headers, n) ==
    /\ n = 0 => f = NoEntries
    /\ f = [x \in DOMAIN f |-> f[x]]
    /\ DOMAIN f = {headers[i].name : i \in 1..n}
    /\ \A i \in 1..n : (\A k \in i + 1..n : headers[k].name # headers[i].name) =>
          f[headers[i].name] = parse_header_value(headers[i].value)

\* The calls from one position on, of which the parser has made so many.
CallsFrom(parts, made) == SubSeq(AllCalls(parts), made + 1, Len(AllCalls(parts)))

\* The reader is in part j: it has n of its headers and, if half is 1, the
\* name of the next one, and q of its pieces.
ReadingAt(parts, j, n, half, q) ==
    LET headers == parts[j].headers
        before == SubSeq(parts, 1, j - 1)
    IN  /\ half = 1 => n < Len(headers) /\ cur_header_name = headers[n + 1].name
        /\ q > 0 => n = Len(headers) /\ half = 0
        /\ calls = CallsFrom(parts, Len(AllCalls(before)) + 2 * n + half + q)
        /\ q = 0 => IsOwn(cur_header_vals, headers, n)
        /\ q > 0 => cur_header_vals = NoEntries
        /\ sections = AllSections(before) \o SubSeq(Sections(parts[j]), 1, q)

\* As long as there are calls, the reader is in some part.
Reading(parts) ==
    \E j \in 1..Len(parts) :
       \E n \in 0..Len(parts[j].headers), half \in 0..1, q \in 0..Len(parts[j].pieces) - 1 :
          ReadingAt(parts, j, n, half, q)
=============================================================================
