------------------------------ MODULE ParseQs ------------------------------
(***************************************************************************)
(* The text conversions behind a POST: the query string parser of          *)
(* parseqs.cpp and the header parameters of multipart_wrapper.cpp. Text is *)
(* a sequence of bytes; the few words the handlers look for stand for one  *)
(* symbol each. A std::string ends with a NUL byte that can be read.       *)
(***************************************************************************)
EXTENDS Integers, FiniteSets, SequencesExt

Nul == 0
Tab == 9
Space == 32
DQuote == 34
Percent == 37
Amp == 38
Plus == 43
Semicolon == 59
Equals == 61
Backslash == 92

\* std::isspace: tab to carriage return, and the space.
White == {9, 10, 11, 12, 13, 32}

\* Words that the handlers look for: "http://" (or "https://"), "url", "name",
\* "boundary", "Content-Disposition", and two media types.
Http == 300
UrlWord == 301
NameWord == 302
BoundaryWord == 303
ContentDisposition == 304
UrlEncoded == 305
FormData == 306

----------------------------------------------------------------------------
(* Helpers                                                                 *)

\* s.data()[i]; the terminator is as far as a read may go.
Byte(s, i) == Append(s, Nul)[i]

\* boost::split: the pieces between the separators, empty ones included.
Split(s, sep) ==
    LET found[i \in 0..Len(s)] == IF i = 0 THEN <<0>>
                                  ELSE IF s[i] = sep THEN Append(found[i - 1], i) ELSE found[i - 1]
        cuts == Append(found[Len(s)], Len(s) + 1)
    IN  [i \in 1..Len(cuts) - 1 |-> SubSeq(s, cuts[i] + 1, cuts[i + 1] - 1)]

\* std::string::find of one byte: its first position, or 0.
Find(s, c) == SelectInSeq(s, LAMBDA x : x = c)

Before(s, i) == SubSeq(s, 1, i - 1)
After(s, i) == SubSeq(s, i + 1, Len(s))

\* A std::map: what is left of those keys and values of a sequence that are
\* put into it, m[k] = v, and m.count(k).
MapOf(kvs, used) ==
    [k \in {kvs[i][1] : i \in used} |-> kvs[Max({i \in used : kvs[i][1] = k})][2]]
NoEntries == <<>>
Put(m, k, v) == [x \in DOMAIN m \cup {k} |-> IF x = k THEN v ELSE m[x]]
Has(m, k) == k \in DOMAIN m

\* A loop that appends to its result: step[i] is what it appends at position i
\* and the position at which it goes on. It may skip the terminator.
Decoded(step, first) ==
    LET rest[i \in 1..Len(step) + 2] ==
          IF i > Len(step) THEN <<>> ELSE step[i].text \o rest[step[i].next]
    IN  rest[first]

----------------------------------------------------------------------------
(* parseqs.cpp                                                             *)

is_hex(c) == c \in 48..57 \cup 97..102 \cup 65..70

\* Faulty variant: letters begin at zero.
FaultyFromHex(c) == IF c \in 48..57 THEN c - 48 ELSE (c % 32) - 1
from_hex(c) == CASE c \in 48..57 -> c - 48
                 [] c \in 97..102 -> c - 97 + 10
                 [] c \in 65..70 -> c - 65 + 10

\* Key and value. A leading equals sign stays in the value.
split_by_eq(s) ==
    LET pos == Find(s, Equals)
    IN  CASE pos = 1 -> << <<>>, s >>
          [] pos = 0 -> << s, <<>> >>
          [] OTHER -> << Before(s, pos), After(s, pos) >>

\* A percent sign swallows the two bytes that follow it, which are decoded or
\* dropped; near the end of the text it is dropped alone. i[2] is read only
\* when i[1] is not the terminator.
unquote_at(s, i) ==
    CASE s[i] = Plus -> [text |-> <<Space>>, next |-> i + 1]
      [] s[i] = Percent ->
           IF Byte(s, i + 1) # Nul /\ Byte(s, i + 2) # Nul
           THEN [text |-> IF is_hex(s[i + 1]) /\ is_hex(s[i + 2])
                          THEN <<16 * from_hex(s[i + 1]) + from_hex(s[i + 2])>> ELSE <<>>,
                 next |-> i + 3]
           ELSE [text |-> <<>>, next |-> i + 1]
      [] OTHER -> [text |-> <<s[i]>>, next |-> i + 1]

unquote(s) == Decoded([i \in 1..Len(s) |-> unquote_at(s, i)], 1)

\* Faulty variant: the text is decoded before its separators are counted.
FaultyExceeds(qs, maxparams) ==
    Cardinality({i \in DOMAIN unquote(qs) : unquote(qs)[i] = Amp}) > maxparams

\* std::length_error, before anything is split.
exceeds(qs, maxparams) == Cardinality({i \in DOMAIN qs : qs[i] = Amp}) > maxparams

\* The last one of several values for a key wins; empty pieces are ignored.
parse_qsl(qs) ==
    LET qsv == Split(qs, Amp)
    IN  MapOf([i \in DOMAIN qsv |->
                 LET kvt == split_by_eq(qsv[i]) IN <<unquote(kvt[1]), unquote(kvt[2])>>],
              {i \in DOMAIN qsv : qsv[i] # <<>>})

----------------------------------------------------------------------------
(* Header parameters                                                       *)

\* std::monostate, the value of a parameter without an equals sign; no text.
Monostate == <<-1>>

\* m[k] of a std::map whose values are Monostate by default.
Lookup(m, k) == IF Has(m, k) THEN m[k] ELSE Monostate

\* boost::trim_left, in the classic locale.
trim_left(s) ==
    LET first == SelectInSeq(s, LAMBDA c : c \notin White)
    IN  IF first = 0 THEN <<>> ELSE SubSeq(s, first, Len(s))

\* in >> std::quoted(v), v beginning with a quotation mark: up to the next
\* one that no backslash precedes, or to the end.
quoted_at(v, i) ==
    CASE v[i] = DQuote -> [text |-> <<>>, next |-> Len(v) + 1]
      [] v[i] = Backslash -> [text |-> IF i < Len(v) THEN <<v[i + 1]>> ELSE <<>>, next |-> i + 2]
      [] OTHER -> [text |-> <<v[i]>>, next |-> i + 1]

quoted(v) == Decoded([i \in 1..Len(v) |-> quoted_at(v, i)], 2)

\* The value of one parameter.
param_value(v) == IF Byte(v, 1) = DQuote THEN quoted(v) ELSE v

\* Parameters are separated by semicolons, also by those inside quotation
\* marks. There is at least one token, so the result is always the map.
parse_header_value(header) ==
    LET tokens == Split(header, Semicolon)
    IN  MapOf([i \in DOMAIN tokens |->
                 LET token == trim_left(tokens[i])
                     pos == Find(token, Equals)
                 IN  IF pos = 0 THEN <<token, Monostate>>
                     ELSE <<Before(token, pos), param_value(After(token, pos))>>],
              DOMAIN tokens)
=============================================================================
