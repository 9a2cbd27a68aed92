----------------------------- MODULE MCRequest -----------------------------
(* Requests for TLC: targets of all kinds, urlencoded forms with every     *)
(* quoting, malformed bodies, and multipart forms of up to two parts.      *)
EXTENDS Request, TLC

TwoRoots == { << <<"">>, <<"srv">> >>, << <<"", "">>, <<"">> >> }

Lines == << << <<"gz">>, "application/x-gzip">>, << <<"tar", "gz">>, "application/x-gtar">>,
            << <<"html">>, "text/html">>, << <<"ico">>, "image/x-icon">>,
            << <<"gz">>, "application/gzip">> >>

----------------------------------------------------------------------------
(* Targets                                                                 *)

Segments == { EmptySegment, Dot, DotDot, <<"assets">>, <<"a">>, <<"favicon", "ico">>,
              <<"robots", "txt">>, <<"post", "html">>, <<"html">>, <<"", "html">>,
              <<"a", "", "b">>, <<"a", "tar", "gz">>, <<"a", "b", "gz">>, <<"tar", "gz">> }

Paths == [1..1 -> Segments] \cup [1..2 -> Segments]
         \cup { << <<"assets">>, s, t >> : s \in Segments, t \in Segments }

Get(method, absolute, p) ==
    [method |-> method, target |-> [absolute |-> absolute, path |-> p],
     ctype |-> <<>>, body |-> <<>>, parts |-> <<>>, form |-> <<>>]

Gets == { Get("get", TRUE, p) : p \in Paths }
        \cup { Get(m, a, <<s>>) : m \in {"get", "head", "put"}, a \in BOOLEAN, s \in Segments }

----------------------------------------------------------------------------
(* Forms                                                                   *)

Post(ctype, body, parts, form) ==
    [method |-> "post", target |-> [absolute |-> TRUE, path |-> PostPage],
     ctype |-> ctype, body |-> body, parts |-> parts, form |-> form]

\* A client that quotes: hexadecimal digits of either case, a space as "+" or
\* "%20", an equals sign quoted or not.
Styles == [upper : BOOLEAN, plus : BOOLEAN, equals : BOOLEAN]

Digit(n, style) == CASE n < 10 -> 48 + n [] style.upper -> 55 + n [] OTHER -> 87 + n

Quote(text, style) ==
    [i \in DOMAIN text |->
        CASE text[i] > 255 \/ text[i] \in 48..57 \cup 97..122 -> <<text[i]>>
          [] text[i] = Space /\ style.plus -> <<Plus>>
          [] text[i] = Equals /\ style.equals -> <<Equals>>
          [] OTHER -> <<Percent, Digit(text[i] \div 16, style), Digit(text[i] % 16, style)>>]

Styled(form, style) ==
    [i \in DOMAIN form |->
        [name |-> form[i].name, value |-> form[i].value,
         names |-> Quote(form[i].name, style), values |-> Quote(form[i].value, style)]]

Values == { <<Http, b>> : b \in {Nul, Space, Percent, Amp, Plus, Equals, 97, 171, 205} }
          \cup { <<>>, <<97>>, <<Http, Percent, 50, 54>>, <<Http, Equals, 97, Equals>>,
                 <<Http, Amp, Amp, Amp>> }

Names == { <<UrlWord>>, <<NameWord>> }
Fields == [name : Names, value : Values]
AllForms == { <<f>> : f \in Fields }
         \cup { <<f, g>> : f \in Fields, g \in [name : Names, value : {<<Http>>, <<Http, Amp>>}] }
         \cup { [i \in 1..n |-> [name |-> <<UrlWord>>, value |-> <<Http, 97 + i>>]] : n \in 3..5 }

RawBodies == { <<>>, <<Percent>>, <<Amp>>, <<Amp, Amp, Amp, Amp>>, <<UrlWord>>,
               <<Equals, UrlWord>>, <<UrlWord, Equals, Http, Percent>>,
               <<UrlWord, Equals, Http, Percent, 97>>,
               <<UrlWord, Equals, Http, Percent, 97, 122, 97>>,
               <<UrlWord, Equals, Http, Percent, Nul, 97>> }

UrlEncodedPosts ==
    { Post(<<UrlEncoded>>, UrlEncodedBody(f), <<>>, f) :
        f \in { Styled(f, s) : f \in AllForms, s \in Styles } }
    \cup { Post(<<UrlEncoded>>, b, <<>>, <<>>) : b \in RawBodies }

----------------------------------------------------------------------------
(* Multipart forms                                                         *)

\* A key and what follows it.
Key(spaces, key, rest) == [spaces |-> spaces, key |-> key, rest |-> rest]

\* A name as it is, and between quotation marks.
Bare(name) == <<Equals>> \o name
Quoted(codes) == <<Equals, DQuote>> \o FlattenSeq(codes) \o <<DQuote>>

\* "form-data; name=...", and one with a file name before it that has a
\* semicolon in it.
Disposition(rest) == << Key(<<>>, <<97>>, <<>>), Key(<<Space>>, <<NameWord>>, rest) >>
FileDisposition(rest) ==
    << Key(<<>>, <<97>>, <<>>), Key(<<Space>>, <<102>>, <<Equals, DQuote, 98>>),
       Key(<<>>, <<98, DQuote>>, <<>>), Key(<<Tab, Space>>, <<NameWord>>, rest) >>

Header(name, value) == [name |-> name, value |-> value]
\* Another header, which has a parameter of the same name.
Other == << Header(<<97>>, ParamsText(Disposition(Bare(<<UrlWord>>)))) >>

\* Headers and the name they give to the part.
Named(name, before, params, codes, after) ==
    [name |-> name, params |-> params, codes |-> codes,
     headers |-> before \o << Header(<<ContentDisposition>>, ParamsText(params)) >> \o after]
Nameless(headers) == [name |-> <<>>, params |-> <<>>, codes |-> <<>>, headers |-> headers]

Url == <<UrlWord>>
UrlCodes == << <<UrlWord>> >>
HeaderLists == { Named(Url, <<>>, Disposition(Bare(Url)), <<>>, <<>>),
                 Named(Url, Other, FileDisposition(Quoted(UrlCodes)), UrlCodes, <<>>),
                 Named(Url, <<>>, Disposition(Quoted(<< <<Backslash, UrlWord>> >>)),
                       << <<Backslash, UrlWord>> >>, Other),
                 Named(<<NameWord>>, <<>>, Disposition(Quoted(<< <<NameWord>> >>)),
                       << <<NameWord>> >>, <<>>),
                 Nameless(Other), Nameless(<<>>) }

Pieces == { << <<Http, 97>> >>, << <<Http, 98>> >>, << <<Http, 97>>, <<Http, 98>> >>,
            << <<>>, <<Http, 97>> >> }

Parts == { [field |-> [name |-> h.name, params |-> h.params, codes |-> h.codes],
            part |-> [headers |-> h.headers, pieces |-> p]] : h \in HeaderLists, p \in Pieces }

Boundary(value) == <<FormData, Semicolon, Space, BoundaryWord>> \o value

MultipartPost(ctype, parts) ==
    Post(ctype, <<>>, [i \in DOMAIN parts |-> parts[i].part], [i \in DOMAIN parts |-> parts[i].field])

MultipartPosts ==
    { MultipartPost(Boundary(<<Equals, 98>>), p) : p \in [1..1 -> Parts] \cup [1..2 -> Parts] }
    \cup { MultipartPost(Boundary(b), <<>>) :
             b \in {<<>>, <<Equals>>, <<Equals, DQuote, DQuote>>, Quoted(<< <<98>> >>)} }
    \cup { MultipartPost(t, <<>>) : t \in {<<>>, <<FormData>>, <<97>>, <<UrlEncoded, Semicolon, 97>>} }

AllRequests == Gets \cup UrlEncodedPosts \cup MultipartPosts
=============================================================================
