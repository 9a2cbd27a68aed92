------------------------------ MODULE Generate ------------------------------
(***************************************************************************)
(* generate_random_filename: a token is a number of words and random       *)
(* strings joined by hyphens, and an extension. A word is kept as 0, a     *)
(* random string as its length.                                            *)
(***************************************************************************)
EXTENDS Integers, Sequences, FiniteSets

CONSTANTS
    MinParts, MaxParts,  \* dist_len of generate_random_filename (5 and 8)
    MaxInserts,          \* random strings among the parts (3)
    RandMin, RandMax     \* dist_len of generate_randstr (6 and 15)

ASSUME PartsAssumption == MinParts \in Nat \ {0} /\ MaxParts \in Nat /\ MinParts <= MaxParts
ASSUME InsertsAssumption == MaxInserts \in Nat \ {0}
ASSUME RandAssumption == RandMin \in Nat \ {0} /\ RandMax \in Nat /\ RandMin <= RandMax

\* An entry of nsfw: not empty, and no dot or slash in any of them.
Word == 0

\* Faulty variant: pages are in the table.
FaultyExts == {"avi", "bat", "html", "txt"}

\* ext.
Exts == {"avi", "bat", "csv", "divx", "doc", "docx", "exe", "gif", "ini", "jpg",
         "m4a", "mkv", "mov", "mp3", "mp4", "pdf", "png", "ppt", "txt", "xls"}

\* The target of a token: the parts joined by hyphens, which is one label, as
\* words have no dots and random strings only letters, digits, "-" and "_".
TokenPath(e) == << <<"joined", e>> >>

VARIABLES
    stage,                \* "idle", "parts", "randstr", "last_randstr" or "join"
    len,                  \* the drawn number of parts
    out,                  \* the parts so far
    random_insert_count,
    chars                 \* i of generate_randstr

gvars == <<stage, len, out, random_insert_count, chars>>

GenerateTypeOK ==
    /\ stage \in {"idle", "parts", "randstr", "last_randstr", "join"}
    /\ len \in 0..MaxParts
    /\ out \in Seq(0..RandMax)
    /\ random_insert_count \in 0..MaxInserts
    /\ chars \in 0..RandMax

\* The parts that are random strings.
RandomParts == {i \in DOMAIN out : out[i] # Word}

Idle ==
    /\ stage = "idle"
    /\ len = 0
    /\ out = <<>>
    /\ random_insert_count = 0
    /\ chars = 0

----------------------------------------------------------------------------
draw_len ==
    /\ stage = "idle"
    /\ len' \in MinParts..MaxParts
    /\ stage' = "parts"
    /\ UNCHANGED <<out, random_insert_count, chars>>

\* dist_insert_random(mt) == 0.
insert_random ==
    /\ stage = "parts" /\ Len(out) < len
    /\ random_insert_count < MaxInserts
    /\ random_insert_count' = random_insert_count + 1
    /\ stage' = "randstr"
    /\ chars' = 0
    /\ UNCHANGED <<len, out>>

insert_word ==
    /\ stage = "parts" /\ Len(out) < len
    /\ out' = Append(out, Word)
    /\ UNCHANGED <<stage, len, random_insert_count, chars>>

\* Faulty variant: no random string is appended.
FaultyAfterParts ==
    /\ stage = "parts" /\ Len(out) >= len
    /\ stage' = "join"
    /\ UNCHANGED <<len, out, random_insert_count, chars>>

\* A token without a random string gets one at its end.
after_parts ==
    /\ stage = "parts" /\ Len(out) >= len
    /\ stage' = IF random_insert_count = 0 THEN "last_randstr" ELSE "join"
    /\ chars' = 0
    /\ UNCHANGED <<len, out, random_insert_count>>

\* Faulty variant: one character too many.
FaultyNextChar ==
    /\ stage \in {"randstr", "last_randstr"}
    /\ \E limit \in RandMin..RandMax : chars <= limit
    /\ chars' = chars + 1
    /\ UNCHANGED <<stage, len, out, random_insert_count>>

\* The loop of generate_randstr draws a new limit for every character.
next_char ==
    /\ stage \in {"randstr", "last_randstr"}
    /\ \E limit \in RandMin..RandMax : chars < limit
    /\ chars' = chars + 1
    /\ UNCHANGED <<stage, len, out, random_insert_count>>

end_randstr ==
    /\ stage \in {"randstr", "last_randstr"}
    /\ \E limit \in RandMin..RandMax : chars >= limit
    /\ out' = Append(out, chars)
    /\ stage' = IF stage = "randstr" THEN "parts" ELSE "join"
    /\ chars' = 0
    /\ UNCHANGED <<len, random_insert_count>>

generating == draw_len \/ insert_random \/ insert_word \/ after_parts \/ next_char \/ end_randstr

\* The locals are gone with the call.
joined ==
    /\ stage = "join"
    /\ stage' = "idle" /\ len' = 0 /\ out' = <<>> /\ random_insert_count' = 0 /\ chars' = 0

----------------------------------------------------------------------------
(* Invariant                                                               *)

\* Random strings that are counted but not yet among the parts.
Pending == IF stage = "randstr" THEN 1 ELSE 0

\* The counter counts the random strings, but not the one that is appended
\* when it is zero; the parts never are more than the drawn number, and the
\* loop of generate_randstr never ends below its smallest limit.
GenerateInv ==
    /\ stage = "idle" => Idle
    /\ stage # "idle" => len \in MinParts..MaxParts
    /\ stage \in {"idle", "parts", "randstr"} =>
          Len(out) <= len /\ Cardinality(RandomParts) + Pending = random_insert_count
    /\ stage = "randstr" => Len(out) < len
    /\ stage = "last_randstr" => Len(out) = len /\ Cardinality(RandomParts) = 0
    /\ stage = "join" => Len(out) \in len..len + 1 /\ Cardinality(RandomParts) \in 1..MaxInserts
    /\ \A i \in RandomParts : out[i] \in RandMin..RandMax
=============================================================================
