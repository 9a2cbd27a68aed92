------------------------------- MODULE Forms -------------------------------
(***************************************************************************)
(* What a client means by a form, and how it may say so in the body of a   *)
(* POST: the reference for parseqs.cpp and multipart_wrapper.cpp, written  *)
(* from the client's side. A form carries the codes its client has chosen, *)
(* so that whether a body encodes it is a matter of joining them.          *)
(***************************************************************************)
EXTENDS Multipart

\* The pieces with a separator between them.
Joined(ss, sep) == FlattenSeq([i \in DOMAIN ss |-> IF i = 1 THEN ss[i] ELSE <<sep>> \o ss[i]])

----------------------------------------------------------------------------
(* application/x-www-form-urlencoded                                       *)

\* The hexadecimal digits for a number, upper and lower case.
Digits(n) == IF n < 10 THEN {48 + n} ELSE {55 + n, 87 + n}

\* A byte as it is, a space as "+", or any byte as "%" and two digits. Words
\* are more than one byte and only written as they are.
IsCode(code, c) ==
    \/ code = <<c>> /\ c \notin {Percent, Plus, Amp}
    \/ code = <<Plus>> /\ c = Space
    \/ c < 256 /\ \E h \in Digits(c \div 16), l \in Digits(c % 16) : code = <<Percent, h, l>>

IsQuoting(codes, text) ==
    Len(codes) = Len(text) /\ \A i \in DOMAIN text : IsCode(codes[i], text[i])

\* A field, and the codes for its name and its value.
FormField == [name : Text, value : Text, names : Seq(Text), values : Seq(Text)]

\* No equals sign in a name stays unquoted.
IsFormField(f) ==
    /\ IsQuoting(f.names, f.name) /\ IsQuoting(f.values, f.value)
    /\ \A i \in DOMAIN f.names : f.names[i] # <<Equals>>

FieldText(f) == FlattenSeq(f.names) \o <<Equals>> \o FlattenSeq(f.values)

UrlEncodedBody(form) == Joined([i \in DOMAIN form |-> FieldText(form[i])], Amp)

IsUrlEncoding(body, form) ==
    /\ form \in Seq(FormField)
    /\ \A i \in DOMAIN form : IsFormField(form[i])
    /\ body = UrlEncodedBody(form)

----------------------------------------------------------------------------
(* multipart/form-data                                                     *)

\* What is between two semicolons of a Content-Disposition: white space, a key,
\* and nothing or an equals sign and more. If there are semicolons inside quotation
\* marks, then what is between them counts as well.
Param == [spaces : Seq(White), key : Text, rest : Text]

ParamText(p) == p.spaces \o p.key \o p.rest

IsParam(p) ==
    /\ p.key # <<>> => p.key[1] \notin White
    /\ \A i \in DOMAIN p.key : p.key[i] \notin {Equals, Semicolon}
    /\ p.rest # <<>> => p.rest[1] = Equals
    /\ \A i \in DOMAIN p.rest : p.rest[i] # Semicolon

ParamsText(params) == Joined([k \in DOMAIN params |-> ParamText(params[k])], Semicolon)

\* Inside quotation marks a byte may have a backslash before it.
IsEscape(code, c) ==
    \/ code = <<c>> /\ c \notin {DQuote, Backslash}
    \/ code = <<Backslash, c>>

IsEscaping(codes, text) ==
    Len(codes) = Len(text) /\ \A i \in DOMAIN text : IsEscape(codes[i], text[i])

\* A value as it is, or between quotation marks.
Says(rest, text, codes) ==
    \/ rest = <<Equals>> \o text /\ (text # <<>> => text[1] # DQuote)
    \/ rest = <<Equals, DQuote>> \o FlattenSeq(codes) \o <<DQuote>> /\ IsEscaping(codes, text)

\* The name of a part, the parameters that give it, and the codes for it.
PartField == [name : Text, params : Seq(Param), codes : Seq(Text)]

\* A part has one Content-Disposition at most. The last of its parameters with
\* the key "name" says the name of the part; without one it has none.
IsPartField(f, part) ==
    LET dispositions == {i \in DOMAIN part.headers : part.headers[i].name = <<ContentDisposition>>}
        named == {k \in DOMAIN f.params : f.params[k].key = <<NameWord>>}
    IN  /\ \/ dispositions = {} /\ f.params = <<>>
           \/ /\ f.params # <<>>
              /\ \E i \in dispositions : /\ dispositions = {i}
                                         /\ part.headers[i].value = ParamsText(f.params)
        /\ \A k \in DOMAIN f.params : IsParam(f.params[k])
        /\ named = {} => f.name = <<>>
        /\ named # {} => Says(f.params[Max(named)].rest, f.name, f.codes)

IsMultipartOf(parts, form) ==
    /\ form \in Seq(PartField)
    /\ Len(form) = Len(parts)
    /\ \A i \in DOMAIN form : IsPartField(form[i], parts[i])
=============================================================================
