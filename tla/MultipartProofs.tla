-------------------------- MODULE MultipartProofs --------------------------
(***************************************************************************)
(* Proofs about the reader of multipart forms: no header gets from one     *)
(* part of a form to another, for forms of any size.                       *)
(***************************************************************************)
EXTENDS RequestProofs

----------------------------------------------------------------------------
(* FlattenSeq                                                              *)

\* The equation of the function in FlattenSeq, as far as the sequence n.
IsFlatten(f, ss, n) == f = [i \in 1..n |-> IF i = 1 THEN ss[i] ELSE f[i - 1] \o ss[i]]

\* The recursion of FlattenSeq has a solution.
LEMMA FlattenExists ==
  ASSUME NEW ss, NEW n \in Nat
  PROVE  \E f : IsFlatten(f, ss, n)
  <1> DEFINE K == {k \in Nat : \E f : IsFlatten(f, ss, k)}
  <1>1. 0 \in K
    <2>1. IsFlatten([i \in 1..0 |-> <<>>], ss, 0)
      BY DEF IsFlatten
    <2> QED
      BY <2>1
  <1>2. ASSUME NEW k \in Nat, k \in K
        PROVE  k + 1 \in K
    <2>1. PICK f : IsFlatten(f, ss, k)
      BY <1>2
    <2> DEFINE v == [i \in 1..k + 1 |-> IF i <= k THEN f[i] ELSE
                                        IF i = 1 THEN ss[i] ELSE f[k] \o ss[i]]
               u == [i \in 1..k + 1 |-> IF i = 1 THEN ss[i] ELSE v[i - 1] \o ss[i]]
    <2>2. \A i \in 1..k : f[i] = IF i = 1 THEN ss[i] ELSE f[i - 1] \o ss[i]
      BY <2>1 DEF IsFlatten
    <2>3. ASSUME NEW i \in 1..k + 1
          PROVE  v[i] = IF i = 1 THEN ss[i] ELSE v[i - 1] \o ss[i]
      <3>1. CASE i \in 1..k
        BY <2>2, <3>1
      <3>2. CASE i = k + 1
        BY <3>2
      <3> QED
        BY <3>1, <3>2
    <2>4. v = u
      BY <2>3
    <2>5. IsFlatten(v, ss, k + 1)
      BY <2>4 DEF IsFlatten
    <2> QED
      BY <2>5
  <1> HIDE DEF K
  <1>3. n \in K
    BY <1>1, <1>2, SetInduction
  <1> QED
    BY <1>3 DEF K

\* FlattenSeq appends one sequence after the other.
LEMMA FlattenDef ==
  ASSUME NEW ss, Len(ss) \in Nat \ {0}
  PROVE  \E f : /\ FlattenSeq(ss) = f[Len(ss)]
                /\ f[1] = ss[1]
                /\ \A i \in 2..Len(ss) : f[i] = f[i - 1] \o ss[i]
  <1>1. PICK f : f = CHOOSE g : IsFlatten(g, ss, Len(ss))
    OBVIOUS
  <1>2. FlattenSeq(ss) = f[Len(ss)]
    BY <1>1 DEF FlattenSeq, IsFlatten
  <1>3. IsFlatten(f, ss, Len(ss))
    BY <1>1, FlattenExists
  <1>4. f = [i \in 1..Len(ss) |-> IF i = 1 THEN ss[i] ELSE f[i - 1] \o ss[i]]
    BY <1>3 DEF IsFlatten
  <1>5. PICK n \in Nat \ {0} : n = Len(ss)
    OBVIOUS
  <1>6. f = [i \in 1..n |-> IF i = 1 THEN ss[i] ELSE f[i - 1] \o ss[i]]
    BY <1>4, <1>5
  <1>7. f[1] = ss[1]
    BY <1>6
  <1>8. ASSUME NEW i \in 2..n
        PROVE  f[i] = f[i - 1] \o ss[i]
    <2>1. i \in 1..n /\ i # 1
      OBVIOUS
    <2> QED
      BY <1>6, <2>1
  <1> QED
    BY <1>2, <1>5, <1>7, <1>8

\* One sequence more is appended, and the elements stay the same.
LEMMA FlattenAppend ==
  ASSUME NEW T, NEW ss \in Seq(Seq(T)), NEW s \in Seq(T)
  PROVE  FlattenSeq(Append(ss, s)) = FlattenSeq(ss) \o s
  <1>1. PICK n \in Nat : n = Len(ss)
    OBVIOUS
  <1>2. PICK tt : tt = Append(ss, s)
    OBVIOUS
  <1>3. Len(tt) = n + 1 /\ (\A i \in 1..n : tt[i] = ss[i]) /\ tt[n + 1] = s
    BY <1>1, <1>2
  <1>4. PICK g : /\ FlattenSeq(tt) = g[n + 1] /\ g[1] = tt[1]
                 /\ \A i \in 2..n + 1 : g[i] = g[i - 1] \o tt[i]
    <2>1. Len(tt) \in Nat \ {0}
      BY <1>3
    <2>2. \E g : /\ FlattenSeq(tt) = g[Len(tt)] /\ g[1] = tt[1]
                 /\ \A i \in 2..Len(tt) : g[i] = g[i - 1] \o tt[i]
      BY <2>1, FlattenDef
    <2>3. Len(tt) = n + 1
      BY <1>3
    <2> QED
      BY <2>2, <2>3
  <1>5. CASE n = 0
    <2>1. FlattenSeq(ss) = <<>>
      <3>1. ss = <<>>
        BY <1>1, <1>5, EmptySeq
      <3>2. FlattenSeq(ss) = ss
        BY <1>1, <1>5 DEF FlattenSeq
      <3> QED
        BY <3>1, <3>2
    <2>2. FlattenSeq(tt) = s
      BY <1>3, <1>4, <1>5
    <2> QED
      BY <1>2, <2>1, <2>2
  <1>6. CASE n # 0
    <2>1. PICK f : /\ FlattenSeq(ss) = f[n] /\ f[1] = ss[1]
                   /\ \A i \in 2..n : f[i] = f[i - 1] \o ss[i]
      BY <1>1, <1>6, FlattenDef
    <2> DEFINE K == {k \in Nat : k + 1 <= n => g[k + 1] = f[k + 1]}
    <2>2. 0 \in K
      BY <1>3, <1>4, <2>1
    <2>3. ASSUME NEW k \in Nat, k \in K
          PROVE  k + 1 \in K
      <3>1. CASE k + 2 <= n
        <4>1. k + 2 \in 2..n /\ k + 2 \in 2..n + 1 /\ k + 2 \in 1..n /\ (k + 2) - 1 = k + 1
          BY <3>1
        <4>2. g[k + 2] = g[k + 1] \o tt[k + 2] /\ f[k + 2] = f[k + 1] \o ss[k + 2]
          BY <1>4, <2>1, <4>1
        <4>3. g[k + 1] = f[k + 1] /\ tt[k + 2] = ss[k + 2]
          BY <1>3, <2>3, <3>1, <4>1
        <4>4. g[k + 2] = f[k + 2] /\ (k + 1) + 1 = k + 2
          BY <4>2, <4>3
        <4> QED
          BY <4>4
      <3> QED
        BY <3>1
    <2> HIDE DEF K
    <2>4. n - 1 \in K
      BY <1>6, <2>2, <2>3, SetInduction
    <2>5. g[n] = f[n]
      BY <1>6, <2>4 DEF K
    <2>6. n + 1 \in 2..n + 1 /\ (n + 1) - 1 = n
      BY <1>6
    <2>7. g[n + 1] = g[n] \o s
      BY <1>3, <1>4, <2>6
    <2> QED
      BY <1>2, <1>4, <2>1, <2>5, <2>7
  <1> QED
    BY <1>5, <1>6

\* Sequences put one after the other are a sequence of the same kind.
LEMMA FlattenType ==
  ASSUME NEW T, NEW ss \in Seq(Seq(T))
  PROVE  FlattenSeq(ss) \in Seq(T)
  <1> DEFINE K == {k \in Nat : \A tt \in Seq(Seq(T)) : Len(tt) = k => FlattenSeq(tt) \in Seq(T)}
  <1>1. 0 \in K
    BY DEF FlattenSeq
  <1>2. ASSUME NEW k \in Nat, k \in K
        PROVE  k + 1 \in K
    <2>1. ASSUME NEW tt \in Seq(Seq(T)), Len(tt) = k + 1
          PROVE  FlattenSeq(tt) \in Seq(T)
      <3>1. tt # <<>>
        BY <2>1
      <3>2. PICK uu \in Seq(Seq(T)), s \in Seq(T) : tt = Append(uu, s)
        BY <3>1, SequenceEmptyOrAppend
      <3>3. Len(uu) = k
        BY <2>1, <3>2
      <3>4. FlattenSeq(uu) \in Seq(T)
        BY <1>2, <3>3
      <3>5. FlattenSeq(tt) = FlattenSeq(uu) \o s
        BY <3>2, FlattenAppend
      <3> QED
        BY <3>4, <3>5
    <2> QED
      BY <2>1
  <1> HIDE DEF K
  <1>3. Nat \subseteq K
    BY <1>1, <1>2, SetInduction
  <1>4. Len(ss) \in K
    BY <1>3
  <1> QED
    BY <1>4 DEF K

\* What the first j sequences give.
UpTo(ss, j) == FlattenSeq(SubSeq(ss, 1, j))

\* So are the first j of them.
LEMMA UpToType ==
  ASSUME NEW T, NEW ss \in Seq(Seq(T)), NEW j \in 0..Len(ss)
  PROVE  SubSeq(ss, 1, j) \in Seq(Seq(T)) /\ UpTo(ss, j) \in Seq(T)
  <1>1. j \in Int /\ \A i \in 1..j : ss[i] \in Seq(T)
    OBVIOUS
  <1>2. SubSeq(ss, 1, j) \in Seq(Seq(T))
    BY <1>1, SubSeqProperties
  <1> QED
    BY <1>2, FlattenType DEF UpTo

\* One sequence more is appended at the end.
LEMMA UpToNext ==
  ASSUME NEW T, NEW ss \in Seq(Seq(T)), NEW j \in 1..Len(ss)
  PROVE  UpTo(ss, j) = UpTo(ss, j - 1) \o ss[j]
  <1>1. j - 1 \in 0..Len(ss) /\ ss[j] \in Seq(T) /\ 1 \in 1..Len(ss) /\ j \in 1..Len(ss)
    OBVIOUS
  <1>2. SubSeq(ss, 1, j) = SubSeq(ss, 1, j - 1) \o << ss[j] >>
    BY <1>1, SubSeqRecursiveSecond
  <1>3. SubSeq(ss, 1, j - 1) \in Seq(Seq(T))
    BY <1>1, UpToType
  <1>4. SubSeq(ss, 1, j) = Append(SubSeq(ss, 1, j - 1), ss[j])
    BY <1>1, <1>2, <1>3, AppendIsConcat
  <1> QED
    BY <1>1, <1>3, <1>4, FlattenAppend DEF UpTo

\* None of the sequences, and all of them.
LEMMA UpToEnds ==
  ASSUME NEW T, NEW ss \in Seq(Seq(T))
  PROVE  UpTo(ss, 0) = <<>> /\ UpTo(ss, Len(ss)) = FlattenSeq(ss)
  <1>1. SubSeq(ss, 1, 0) = <<>> /\ SubSeq(ss, 1, Len(ss)) = ss
    BY SubSeqEmpty, SubSeqFull
  <1>2. FlattenSeq(<<>>) = <<>>
    BY DEF FlattenSeq
  <1> QED
    BY <1>1, <1>2 DEF UpTo

\* A prefix stays one when the sequence is continued.
LEMMA PrefixConcat ==
  ASSUME NEW T, NEW s \in Seq(T), NEW t \in Seq(T), NEW u \in Seq(T), IsPrefix(s, t)
  PROVE  t \o u \in Seq(T) /\ IsPrefix(s, t \o u)
  <1>1. PICK q : q = t \o u
    OBVIOUS
  <1>2. q \in Seq(T) /\ Len(q) = Len(t) + Len(u) /\ \A i \in 1..Len(t) : q[i] = t[i]
    BY <1>1
  <1>3. Len(s) <= Len(t) /\ \A i \in 1..Len(s) : s[i] = t[i]
    BY PrefixDef
  <1>4. Len(s) \in Nat /\ Len(t) \in Nat /\ Len(u) \in Nat
    OBVIOUS
  <1>5. Len(s) <= Len(q) /\ \A i \in 1..Len(s) : s[i] = q[i]
    BY <1>2, <1>3, <1>4
  <1> QED
    BY <1>1, <1>2, <1>5, PrefixDef

\* The first j sequences are a prefix of all.
LEMMA UpToPrefix ==
  ASSUME NEW T, NEW ss \in Seq(Seq(T)), NEW j \in 0..Len(ss)
  PROVE  IsPrefix(UpTo(ss, j), FlattenSeq(ss))
  <1>0. PICK n \in Nat : n = Len(ss)
    OBVIOUS
  <1> DEFINE K == {k \in Nat : j + k <= n => IsPrefix(UpTo(ss, j), UpTo(ss, j + k))}
  <1>1. 0 \in K
    <2>1. j + 0 = j /\ UpTo(ss, j) \in Seq(T)
      BY UpToType
    <2>2. IsPrefix(UpTo(ss, j), UpTo(ss, j))
      BY <2>1, PrefixDef
    <2> QED
      BY <2>1, <2>2
  <1>2. ASSUME NEW k \in Nat, k \in K
        PROVE  k + 1 \in K
    <2>1. CASE j + k + 1 <= n
      <3>1. j + k + 1 \in 1..Len(ss) /\ j + k \in 0..Len(ss)
        BY <1>0, <2>1
      <3>2. PICK m \in 1..Len(ss) : m = j + k + 1
        BY <3>1
      <3>3. m - 1 = j + k /\ j + k <= n /\ j + (k + 1) = m
        BY <1>0, <2>1, <3>2
      <3>4. PICK a, b, c : a = UpTo(ss, j) /\ b = UpTo(ss, m - 1) /\ c = ss[m]
        OBVIOUS
      <3>5. IsPrefix(a, b)
        BY <1>2, <3>3, <3>4
      <3>6. a \in Seq(T) /\ b \in Seq(T) /\ c \in Seq(T)
        BY <3>1, <3>3, <3>4, UpToType
      <3>7. UpTo(ss, m) = b \o c
        BY <3>4, UpToNext
      <3>8. IsPrefix(a, b \o c)
        BY <3>5, <3>6, PrefixConcat
      <3>9. IsPrefix(UpTo(ss, j), UpTo(ss, j + (k + 1)))
        BY <3>3, <3>4, <3>7, <3>8, Zenon
      <3> QED
        BY <3>9
    <2>2. CASE ~(j + k + 1 <= n)
      BY <2>2
    <2> QED
      BY <2>1, <2>2
  <1> HIDE DEF K
  <1>3. n - j \in Nat
    BY <1>0
  <1>4. n - j \in K
    BY <1>1, <1>2, <1>3, SetInduction
  <1>5. j + (n - j) = n
    BY <1>0
  <1>6. IsPrefix(UpTo(ss, j), UpTo(ss, n))
    BY <1>4, <1>5 DEF K
  <1> QED
    BY <1>0, <1>6, UpToEnds

\* Where an element of one of the sequences is in the whole.
LEMMA FlattenIndex ==
  ASSUME NEW T, NEW ss \in Seq(Seq(T)), NEW j \in 1..Len(ss), NEW i \in 1..Len(ss[j])
  PROVE  /\ Len(UpTo(ss, j - 1)) \in Nat
         /\ Len(UpTo(ss, j - 1)) + i \in 1..Len(FlattenSeq(ss))
         /\ FlattenSeq(ss)[Len(UpTo(ss, j - 1)) + i] = ss[j][i]
  <1>1. PICK a, b, c : a = UpTo(ss, j - 1) /\ b = ss[j] /\ c = UpTo(ss, j)
    OBVIOUS
  <1>2. PICK f : f = FlattenSeq(ss)
    OBVIOUS
  <1>3. a \in Seq(T) /\ b \in Seq(T) /\ c \in Seq(T) /\ f \in Seq(T)
    <2>1. j - 1 \in 0..Len(ss) /\ j \in 0..Len(ss)
      OBVIOUS
    <2> QED
      BY <1>1, <1>2, <2>1, UpToType, FlattenType
  <1>4. c = a \o b
    BY <1>1, UpToNext
  <1>5. i \in 1..Len(b) /\ Len(a) \in Nat /\ Len(b) \in Nat
    BY <1>1, <1>3
  <1>6. Len(c) = Len(a) + Len(b) /\ c[Len(a) + i] = b[i]
    BY <1>3, <1>4, <1>5
  <1>7. IsPrefix(c, f)
    BY <1>1, <1>2, UpToPrefix
  <1>8. Len(c) <= Len(f) /\ \A k \in 1..Len(c) : c[k] = f[k]
    BY <1>3, <1>7, PrefixDef
  <1>9. Len(f) \in Nat
    BY <1>3
  <1>10. Len(a) + i \in 1..Len(c) /\ Len(a) + i \in 1..Len(f)
    BY <1>5, <1>6, <1>8, <1>9
  <1> QED
    BY <1>1, <1>2, <1>5, <1>6, <1>8, <1>10

----------------------------------------------------------------------------
(* The calls of the parser                                                 *)

Call == [cb : {"header_field", "header_value", "part_data"}, text : Text]

Field(part, i) == [cb |-> "header_field", text |-> part.headers[i].name]
Value(part, i) == [cb |-> "header_value", text |-> part.headers[i].value]
Piece(part, i) == [cb |-> "part_data", text |-> part.pieces[i]]

HeaderCalls(part) == [i \in DOMAIN part.headers |-> <<Field(part, i), Value(part, i)>>]
PieceCalls(part) == [i \in DOMAIN part.pieces |-> Piece(part, i)]

\* A part has headers and at least one piece.
LEMMA PartType ==
  ASSUME NEW part \in Part
  PROVE  /\ part.headers \in Seq([name : Text, value : Text])
         /\ part.pieces \in Seq(Text)
         /\ Len(part.headers) \in Nat /\ Len(part.pieces) \in Nat /\ Len(part.pieces) > 0
         /\ DOMAIN part.headers = 1..Len(part.headers)
         /\ DOMAIN part.pieces = 1..Len(part.pieces)
  <1>1. /\ part.headers \in Seq([name : Text, value : Text])
        /\ part.pieces \in Seq(Text) /\ part.pieces # <<>>
    BY DEF Part
  <1>2. Len(part.headers) \in Nat /\ DOMAIN part.headers = 1..Len(part.headers)
    BY <1>1, LenProperties
  <1>3. Len(part.pieces) \in Nat \ {0} /\ DOMAIN part.pieces = 1..Len(part.pieces)
    BY <1>1, LenProperties, EmptySeq
  <1> QED
    BY <1>1, <1>2, <1>3

\* Each header makes two calls, for its name and for its value.
LEMMA HeaderCallsType ==
  ASSUME NEW part \in Part
  PROVE  /\ HeaderCalls(part) \in Seq(Seq(Call))
         /\ Len(HeaderCalls(part)) = Len(part.headers)
         /\ \A i \in 1..Len(part.headers) :
              HeaderCalls(part)[i] = <<Field(part, i), Value(part, i)>>
  <1>1. PICK n \in Nat : n = Len(part.headers) /\ DOMAIN part.headers = 1..n
    BY PartType
  <1>2. ASSUME NEW i \in 1..n
        PROVE  <<Field(part, i), Value(part, i)>> \in Seq(Call)
    <2>1. part.headers[i] \in [name : Text, value : Text]
      <3>1. part.headers \in Seq([name : Text, value : Text]) /\ i \in 1..Len(part.headers)
        BY <1>1, PartType
      <3> QED
        BY <3>1, ElementOfSeq
    <2>2. Field(part, i) \in Call /\ Value(part, i) \in Call
      BY <2>1 DEF Field, Value, Call
    <2> QED
      BY <2>2
  <1>3. HeaderCalls(part) = [i \in 1..n |-> <<Field(part, i), Value(part, i)>>]
    BY <1>1 DEF HeaderCalls
  <1>4. HeaderCalls(part) \in [1..n -> Seq(Call)]
    BY <1>2, <1>3
  <1>5. HeaderCalls(part) \in Seq(Seq(Call)) /\ Len(HeaderCalls(part)) = n
    BY <1>4
  <1> QED
    BY <1>1, <1>3, <1>5

\* Each piece makes one call.
LEMMA PieceCallsType ==
  ASSUME NEW part \in Part
  PROVE  /\ PieceCalls(part) \in Seq(Call)
         /\ Len(PieceCalls(part)) = Len(part.pieces)
         /\ \A i \in 1..Len(part.pieces) : PieceCalls(part)[i] = Piece(part, i)
  <1>1. PICK n \in Nat : n = Len(part.pieces) /\ DOMAIN part.pieces = 1..n
    BY PartType
  <1>2. ASSUME NEW i \in 1..n
        PROVE  Piece(part, i) \in Call
    <2>1. part.pieces[i] \in Text
      BY <1>1, PartType
    <2> QED
      BY <2>1 DEF Piece, Call
  <1>3. PieceCalls(part) = [i \in 1..n |-> Piece(part, i)]
    BY <1>1 DEF PieceCalls
  <1>4. PieceCalls(part) \in [1..n -> Call]
    BY <1>2, <1>3
  <1>5. PieceCalls(part) \in Seq(Call) /\ Len(PieceCalls(part)) = n
    BY <1>4
  <1> QED
    BY <1>1, <1>3, <1>5

\* Every header takes two calls.
LEMMA HeaderCallsLength ==
  ASSUME NEW part \in Part
  PROVE  \A j \in 0..Len(part.headers) : Len(UpTo(HeaderCalls(part), j)) = 2 * j
  <1>1. PICK hh \in Seq(Seq(Call)) : hh = HeaderCalls(part)
    BY HeaderCallsType
  <1>2. PICK n \in Nat : n = Len(part.headers)
    BY PartType
  <1>3. Len(hh) = n /\ \A i \in 1..n : hh[i] = <<Field(part, i), Value(part, i)>>
    BY <1>1, <1>2, HeaderCallsType
  <1> DEFINE K == {k \in Nat : k <= n => Len(UpTo(hh, k)) = 2 * k}
  <1>4. 0 \in K
    <2>1. Len(UpTo(hh, 0)) = 0
      BY UpToEnds
    <2> QED
      BY <2>1
  <1>5. ASSUME NEW k \in Nat, k \in K
        PROVE  k + 1 \in K
    <2>1. CASE k + 1 <= n
      <3>1. PICK m \in 1..Len(hh) : m = k + 1
        BY <1>3, <2>1
      <3>2. m - 1 = k /\ k \in 0..Len(hh)
        BY <1>3, <2>1, <3>1
      <3>3. UpTo(hh, m) = UpTo(hh, m - 1) \o hh[m]
        BY UpToNext
      <3>4. hh[m] \in Seq(Call) /\ Len(hh[m]) = 2
        <4>1. hh[m] = <<Field(part, m), Value(part, m)>>
          BY <1>3
        <4> QED
          BY <4>1, ElementOfSeq
      <3>5. PICK a \in Seq(Call) : a = UpTo(hh, k)
        BY <3>2, UpToType
      <3>6. Len(a) = 2 * k
        BY <1>5, <2>1, <3>5
      <3>7. Len(a \o hh[m]) = 2 * (k + 1)
        <4>1. Len(a \o hh[m]) = Len(a) + Len(hh[m])
          BY <3>4, ConcatProperties
        <4> QED
          BY <3>4, <3>6, <4>1
      <3>8. Len(UpTo(hh, k + 1)) = 2 * (k + 1)
        BY <3>1, <3>2, <3>3, <3>5, <3>7, Zenon
      <3> QED
        BY <3>8
    <2>2. CASE ~(k + 1 <= n)
      BY <2>2
    <2> QED
      BY <2>1, <2>2
  <1> HIDE DEF K
  <1>6. Nat \subseteq K
    BY <1>4, <1>5, SetInduction
  <1>7. ASSUME NEW j \in 0..n
        PROVE  Len(UpTo(hh, j)) = 2 * j
    <2>1. j \in K /\ j <= n
      BY <1>6
    <2> QED
      BY <2>1 DEF K
  <1> QED
    BY <1>1, <1>2, <1>7

\* The calls of a part: its headers, name and value, then its pieces.
LEMMA CallsDef ==
  ASSUME NEW part \in Part
  PROVE  /\ Calls(part) \in Seq(Call)
         /\ Len(Calls(part)) = 2 * Len(part.headers) + Len(part.pieces)
         /\ \A n \in 0..Len(part.headers) - 1 :
              /\ Calls(part)[2 * n + 1] = Field(part, n + 1)
              /\ Calls(part)[2 * n + 2] = Value(part, n + 1)
         /\ \A q \in 1..Len(part.pieces) :
              Calls(part)[2 * Len(part.headers) + q] = Piece(part, q)
  <1>1. PICK hh \in Seq(Seq(Call)) : hh = HeaderCalls(part)
    BY HeaderCallsType
  <1>2. PICK b \in Seq(Call) : b = PieceCalls(part)
    BY PieceCallsType
  <1>3. PICK a \in Seq(Call) : a = FlattenSeq(hh)
    BY FlattenType
  <1>4. PICK h \in Nat : h = Len(part.headers)
    BY PartType
  <1>5. PICK p \in Nat : p = Len(part.pieces)
    BY PartType
  <1>6. Calls(part) = a \o b
    BY <1>1, <1>2, <1>3 DEF Calls, HeaderCalls, PieceCalls, Field, Value, Piece
  <1>7. Len(hh) = h /\ \A i \in 1..h : hh[i] = <<Field(part, i), Value(part, i)>>
    BY <1>1, <1>4, HeaderCallsType
  <1>8. Len(b) = p /\ \A i \in 1..p : b[i] = Piece(part, i)
    BY <1>2, <1>5, PieceCallsType
  <1>9. \A j \in 0..h : Len(UpTo(hh, j)) = 2 * j
    BY <1>1, <1>4, HeaderCallsLength
  <1>10. Len(a) = 2 * h
    <2>1. h \in 0..h /\ UpTo(hh, h) = a
      BY <1>3, <1>7, UpToEnds
    <2> QED
      BY <1>9, <2>1
  <1>11. ASSUME NEW n \in 0..h - 1
         PROVE  a[2 * n + 1] = Field(part, n + 1) /\ a[2 * n + 2] = Value(part, n + 1)
    <2>1. PICK j \in 1..Len(hh) : j = n + 1
      BY <1>7
    <2>2. j - 1 = n /\ j \in 1..h /\ n \in 0..h
      BY <1>7, <2>1
    <2>3. hh[j] = <<Field(part, j), Value(part, j)>>
      BY <1>7, <2>2
    <2>4. /\ 1 \in 1..Len(hh[j]) /\ hh[j][1] = Field(part, j)
          /\ 2 \in 1..Len(hh[j]) /\ hh[j][2] = Value(part, j)
      BY <2>3
    <2>5. Len(UpTo(hh, j - 1)) = 2 * n
      BY <1>9, <2>2
    <2>6. /\ a[Len(UpTo(hh, j - 1)) + 1] = hh[j][1]
          /\ a[Len(UpTo(hh, j - 1)) + 2] = hh[j][2]
      BY <1>3, <2>4, FlattenIndex
    <2> QED
      BY <2>1, <2>4, <2>5, <2>6
  <1>12. PICK c : c = a \o b
    OBVIOUS
  <1>13. /\ c \in Seq(Call) /\ Len(c) = 2 * h + p
         /\ \A i \in 1..2 * h : c[i] = a[i]
         /\ \A i \in 1..p : c[2 * h + i] = b[i]
    <2>1. /\ c \in Seq(Call) /\ Len(c) = Len(a) + Len(b)
          /\ \A i \in 1..Len(a) + Len(b) : c[i] = IF i <= Len(a) THEN a[i] ELSE b[i - Len(a)]
      BY <1>12, ConcatProperties
    <2>2. PICK m \in Nat : m = 2 * h
      OBVIOUS
    <2>3. \A i \in 1..m + p : c[i] = IF i <= m THEN a[i] ELSE b[i - m]
      BY <1>8, <1>10, <2>1, <2>2
    <2>4. ASSUME NEW i \in 1..p
          PROVE  c[m + i] = b[i]
      <3>1. m + i \in 1..m + p /\ ~(m + i <= m) /\ (m + i) - m = i
        OBVIOUS
      <3> QED
        BY <2>3, <3>1
    <2>5. ASSUME NEW i \in 1..m
          PROVE  c[i] = a[i]
      <3>1. i \in 1..m + p /\ i <= m
        OBVIOUS
      <3> QED
        BY <2>3, <3>1
    <2> QED
      BY <1>8, <1>10, <2>1, <2>2, <2>4, <2>5
  <1>14. ASSUME NEW n \in 0..h - 1
         PROVE  c[2 * n + 1] = Field(part, n + 1) /\ c[2 * n + 2] = Value(part, n + 1)
    <2>1. 2 * n + 1 \in 1..2 * h /\ 2 * n + 2 \in 1..2 * h
      OBVIOUS
    <2> QED
      BY <1>11, <1>13, <2>1
  <1> QED
    BY <1>4, <1>5, <1>6, <1>8, <1>12, <1>13, <1>14

----------------------------------------------------------------------------
(* The calls and the sections of a form                                    *)

CallSeq(parts) == [i \in DOMAIN parts |-> Calls(parts[i])]
SectionSeq(parts) == [i \in DOMAIN parts |-> Sections(parts[i])]

\* Whatever is a section of a part.
AnySection == {Sections(part)[i] : part \in Part, i \in Nat}

\* Each piece of a part makes one section; the first one has the headers.
LEMMA SectionsDef ==
  ASSUME NEW part \in Part
  PROVE  /\ Sections(part) \in Seq(AnySection)
         /\ Len(Sections(part)) = Len(part.pieces)
         /\ \A i \in 1..Len(part.pieces) :
              Sections(part)[i] =
                [headers |-> IF i = 1 /\ part.headers # <<>> THEN OwnHeaders(part) ELSE NoEntries,
                 data |-> part.pieces[i]]
  <1>1. PICK n \in Nat : n = Len(part.pieces) /\ DOMAIN part.pieces = 1..n
    BY PartType
  <1>2. PICK f : f = Sections(part)
    OBVIOUS
  <1>3. f = [i \in 1..n |->
               [headers |-> IF i = 1 /\ part.headers # <<>> THEN OwnHeaders(part) ELSE NoEntries,
                data |-> part.pieces[i]]]
    BY <1>1, <1>2 DEF Sections
  <1>4. DOMAIN f = 1..n /\ f = [i \in 1..n |-> f[i]]
    BY <1>3
  <1>5. \A i \in 1..n : f[i] \in AnySection
    BY <1>2 DEF AnySection
  <1>6. f \in [1..n -> AnySection]
    BY <1>4, <1>5
  <1>7. f \in Seq(AnySection) /\ Len(f) = n
    BY <1>6
  <1> QED
    BY <1>1, <1>2, <1>3, <1>7

\* The calls of a form, part by part.
LEMMA CallSeqType ==
  ASSUME NEW parts \in Seq(Part)
  PROVE  /\ CallSeq(parts) \in Seq(Seq(Call)) /\ Len(CallSeq(parts)) = Len(parts)
         /\ \A i \in 1..Len(parts) : CallSeq(parts)[i] = Calls(parts[i])
  <1>1. PICK n \in Nat : n = Len(parts) /\ DOMAIN parts = 1..n
    BY LenProperties
  <1>2. \A i \in 1..n : Calls(parts[i]) \in Seq(Call)
    BY <1>1, CallsDef, ElementOfSeq
  <1>3. PICK f : f = CallSeq(parts)
    OBVIOUS
  <1>4. f = [i \in 1..n |-> Calls(parts[i])]
    BY <1>1, <1>3 DEF CallSeq
  <1>5. f \in [1..n -> Seq(Call)]
    BY <1>2, <1>4
  <1>6. f \in Seq(Seq(Call)) /\ Len(f) = n
    BY <1>5
  <1> QED
    BY <1>1, <1>3, <1>4, <1>6

\* The sections of a form, part by part.
LEMMA SectionSeqType ==
  ASSUME NEW parts \in Seq(Part)
  PROVE  /\ SectionSeq(parts) \in Seq(Seq(AnySection)) /\ Len(SectionSeq(parts)) = Len(parts)
         /\ \A i \in 1..Len(parts) : SectionSeq(parts)[i] = Sections(parts[i])
  <1>1. PICK n \in Nat : n = Len(parts) /\ DOMAIN parts = 1..n
    BY LenProperties
  <1>2. \A i \in 1..n : Sections(parts[i]) \in Seq(AnySection)
    BY <1>1, SectionsDef, ElementOfSeq
  <1>3. PICK f : f = SectionSeq(parts)
    OBVIOUS
  <1>4. f = [i \in 1..n |-> Sections(parts[i])]
    BY <1>1, <1>3 DEF SectionSeq
  <1>5. f \in [1..n -> Seq(AnySection)]
    BY <1>2, <1>4
  <1>6. f \in Seq(Seq(AnySection)) /\ Len(f) = n
    BY <1>5
  <1> QED
    BY <1>1, <1>3, <1>4, <1>6

\* The first j parts of a form.
LEMMA FirstParts ==
  ASSUME NEW parts \in Seq(Part), NEW j \in 0..Len(parts)
  PROVE  /\ SubSeq(parts, 1, j) \in Seq(Part) /\ Len(SubSeq(parts, 1, j)) = j
         /\ \A i \in 1..j : SubSeq(parts, 1, j)[i] = parts[i]
  <1>1. j \in Int /\ \A i \in 1..j : parts[i] \in Part
    BY ElementOfSeq
  <1>2. /\ SubSeq(parts, 1, j) \in Seq(Part)
        /\ Len(SubSeq(parts, 1, j)) = IF 1 <= j THEN j - 1 + 1 ELSE 0
        /\ \A i \in 1..j - 1 + 1 : SubSeq(parts, 1, j)[i] = parts[1 + i - 1]
    BY <1>1, SubSeqProperties
  <1> QED
    BY <1>2

\* The calls of the first parts are the first calls.
LEMMA CallsUpTo ==
  ASSUME NEW parts \in Seq(Part), NEW j \in 0..Len(parts)
  PROVE  AllCalls(SubSeq(parts, 1, j)) = UpTo(CallSeq(parts), j)
  <1>1. PICK first : first = SubSeq(parts, 1, j)
    OBVIOUS
  <1>2. first \in Seq(Part) /\ Len(first) = j /\ \A i \in 1..j : first[i] = parts[i]
    BY <1>1, FirstParts
  <1>3. PICK a, b : a = CallSeq(first) /\ b = SubSeq(CallSeq(parts), 1, j)
    OBVIOUS
  <1>4. a \in Seq(Seq(Call)) /\ Len(a) = j /\ \A i \in 1..j : a[i] = Calls(first[i])
    BY <1>2, <1>3, CallSeqType
  <1>5. PICK cc \in Seq(Seq(Call)) : cc = CallSeq(parts)
    BY CallSeqType
  <1>6. Len(cc) = Len(parts) /\ \A i \in 1..Len(parts) : cc[i] = Calls(parts[i])
    BY <1>5, CallSeqType
  <1>7. b \in Seq(Seq(Call)) /\ Len(b) = j /\ \A i \in 1..j : b[i] = cc[i]
    BY <1>3, <1>5, <1>6, LenProperties
  <1>8. ASSUME NEW i \in 1..j
        PROVE  a[i] = b[i]
    <2>1. i \in 1..Len(parts)
      BY LenProperties
    <2> QED
      BY <1>2, <1>4, <1>6, <1>7, <2>1
  <1>9. a = b
    BY <1>4, <1>7, <1>8, SeqEqual
  <1> QED
    BY <1>1, <1>3, <1>9 DEF AllCalls, CallSeq, UpTo

\* The sections of the first j parts.
LEMMA SectionsUpTo ==
  ASSUME NEW parts \in Seq(Part), NEW j \in 0..Len(parts)
  PROVE  AllSections(SubSeq(parts, 1, j)) = UpTo(SectionSeq(parts), j)
  <1>1. PICK first : first = SubSeq(parts, 1, j)
    OBVIOUS
  <1>2. first \in Seq(Part) /\ Len(first) = j /\ \A i \in 1..j : first[i] = parts[i]
    BY <1>1, FirstParts
  <1>3. PICK a, b : a = SectionSeq(first) /\ b = SubSeq(SectionSeq(parts), 1, j)
    OBVIOUS
  <1>4. a \in Seq(Seq(AnySection)) /\ Len(a) = j /\ \A i \in 1..j : a[i] = Sections(first[i])
    BY <1>2, <1>3, SectionSeqType
  <1>5. PICK cc \in Seq(Seq(AnySection)) : cc = SectionSeq(parts)
    BY SectionSeqType
  <1>6. Len(cc) = Len(parts) /\ \A i \in 1..Len(parts) : cc[i] = Sections(parts[i])
    BY <1>5, SectionSeqType
  <1>7. b \in Seq(Seq(AnySection)) /\ Len(b) = j /\ \A i \in 1..j : b[i] = cc[i]
    BY <1>3, <1>5, <1>6, LenProperties
  <1>8. ASSUME NEW i \in 1..j
        PROVE  a[i] = b[i]
    <2>1. i \in 1..Len(parts)
      BY LenProperties
    <2> QED
      BY <1>2, <1>4, <1>6, <1>7, <2>1
  <1>9. a = b
    BY <1>4, <1>7, <1>8, SeqEqual
  <1> QED
    BY <1>1, <1>3, <1>9 DEF AllSections, SectionSeq, UpTo

\* How many calls the parser makes before part j.
CallsBefore(parts, j) == Len(AllCalls(SubSeq(parts, 1, j - 1)))

\* The calls of a form are those of its parts, one after the other.
LEMMA AllCallsType ==
  ASSUME NEW parts \in Seq(Part)
  PROVE  AllCalls(parts) \in Seq(Call) /\ AllCalls(parts) = FlattenSeq(CallSeq(parts))
  <1>1. AllCalls(parts) = FlattenSeq(CallSeq(parts))
    BY DEF AllCalls, CallSeq
  <1> QED
    BY <1>1, CallSeqType, FlattenType

\* Which call is at which position.
LEMMA CallAt ==
  ASSUME NEW parts \in Seq(Part), NEW j \in 1..Len(parts), NEW i \in 1..Len(Calls(parts[j]))
  PROVE  /\ CallsBefore(parts, j) \in Nat
         /\ CallsBefore(parts, j) + i \in 1..Len(AllCalls(parts))
         /\ AllCalls(parts)[CallsBefore(parts, j) + i] = Calls(parts[j])[i]
  <1>1. PICK cc \in Seq(Seq(Call)) : cc = CallSeq(parts)
    BY CallSeqType
  <1>2. j \in 1..Len(cc) /\ cc[j] = Calls(parts[j]) /\ i \in 1..Len(cc[j])
    BY <1>1, CallSeqType
  <1>3. j - 1 \in 0..Len(parts)
    BY LenProperties
  <1>4. CallsBefore(parts, j) = Len(UpTo(cc, j - 1))
    BY <1>1, <1>3, CallsUpTo DEF CallsBefore
  <1>5. AllCalls(parts) = FlattenSeq(cc)
    BY <1>1, AllCallsType
  <1>6. /\ Len(UpTo(cc, j - 1)) \in Nat
        /\ Len(UpTo(cc, j - 1)) + i \in 1..Len(FlattenSeq(cc))
        /\ FlattenSeq(cc)[Len(UpTo(cc, j - 1)) + i] = cc[j][i]
    BY <1>2, FlattenIndex
  <1> QED
    BY <1>2, <1>4, <1>5, <1>6

\* The next part, or the end.
LEMMA NextPart ==
  ASSUME NEW parts \in Seq(Part), NEW j \in 1..Len(parts)
  PROVE  /\ CallsBefore(parts, j) \in Nat
         /\ CallsBefore(parts, j + 1) =
              CallsBefore(parts, j) + (2 * Len(parts[j].headers) + Len(parts[j].pieces))
         /\ AllSections(SubSeq(parts, 1, j)) =
              AllSections(SubSeq(parts, 1, j - 1)) \o Sections(parts[j])
         /\ j = Len(parts) => CallsBefore(parts, j + 1) = Len(AllCalls(parts))
  <1>1. j - 1 \in 0..Len(parts) /\ j \in 0..Len(parts) /\ (j + 1) - 1 = j
    BY LenProperties
  <1>2. parts[j] \in Part
    BY ElementOfSeq
  <1>3. PICK cc \in Seq(Seq(Call)) : cc = CallSeq(parts)
    BY CallSeqType
  <1>4. Len(cc) = Len(parts) /\ cc[j] = Calls(parts[j])
    BY <1>3, CallSeqType
  <1>5. PICK a, b, c : a = UpTo(cc, j - 1) /\ b = cc[j] /\ c = UpTo(cc, j)
    OBVIOUS
  <1>6. a \in Seq(Call) /\ b \in Seq(Call) /\ c = a \o b
    BY <1>1, <1>4, <1>5, UpToType, UpToNext, ElementOfSeq
  <1>7. Len(c) = Len(a) + Len(b) /\ Len(a) \in Nat
    BY <1>6, ConcatProperties, LenProperties
  <1>8. Len(b) = 2 * Len(parts[j].headers) + Len(parts[j].pieces)
    BY <1>2, <1>4, <1>5, CallsDef
  <1>9. CallsBefore(parts, j) = Len(a) /\ CallsBefore(parts, j + 1) = Len(c)
    BY <1>1, <1>3, <1>5, CallsUpTo DEF CallsBefore
  <1>10. j = Len(parts) => c = AllCalls(parts)
    BY <1>3, <1>4, <1>5, AllCallsType, UpToEnds
  <1>11. AllSections(SubSeq(parts, 1, j)) =
           AllSections(SubSeq(parts, 1, j - 1)) \o Sections(parts[j])
    <2>1. PICK ss \in Seq(Seq(AnySection)) : ss = SectionSeq(parts)
      BY SectionSeqType
    <2>2. j \in 1..Len(ss) /\ ss[j] = Sections(parts[j])
      BY <2>1, SectionSeqType
    <2>3. UpTo(ss, j) = UpTo(ss, j - 1) \o ss[j]
      BY <2>2, UpToNext
    <2> QED
      BY <1>1, <2>1, <2>2, <2>3, SectionsUpTo
  <1> QED
    BY <1>7, <1>8, <1>9, <1>10, <1>11

\* The calls that are left after some have been made.
LEMMA CallsFromDef ==
  ASSUME NEW parts \in Seq(Part), NEW made \in Nat
  PROVE  /\ made < Len(AllCalls(parts)) =>
              /\ CallsFrom(parts, made) # <<>>
              /\ Head(CallsFrom(parts, made)) = AllCalls(parts)[made + 1]
              /\ Tail(CallsFrom(parts, made)) = CallsFrom(parts, made + 1)
         /\ made = Len(AllCalls(parts)) => CallsFrom(parts, made) = <<>>
  <1>1. PICK c \in Seq(Call) : c = AllCalls(parts)
    BY AllCallsType
  <1>2. PICK n \in Nat : n = Len(c)
    BY LenProperties
  <1>3. CASE made < n
    <2>1. made + 1 \in 1..Len(c) /\ n \in made + 1..Len(c)
      BY <1>2, <1>3
    <2>2. /\ Head(SubSeq(c, made + 1, n)) = c[made + 1]
          /\ Tail(SubSeq(c, made + 1, n)) = SubSeq(c, made + 1 + 1, n)
      BY <2>1, HeadTailOfSubSeq
    <2>3. SubSeq(c, made + 1, n) # <<>>
      <3>1. \A i \in made + 1..n : c[i] \in Call
        BY <1>2, ElementOfSeq
      <3>2. PICK t : t = SubSeq(c, made + 1, n)
        OBVIOUS
      <3>3. t \in Seq(Call) /\ Len(t) = n - (made + 1) + 1
        BY <1>3, <3>1, <3>2, SubSeqProperties
      <3>4. t # <<>>
        BY <1>3, <3>3
      <3> QED
        BY <3>2, <3>4
    <2> QED
      BY <1>1, <1>2, <1>3, <2>2, <2>3 DEF CallsFrom
  <1>4. CASE made = n
    <2>1. SubSeq(c, made + 1, n) = <<>>
      BY <1>4, SubSeqEmpty
    <2> QED
      BY <1>1, <1>2, <1>4, <2>1 DEF CallsFrom
  <1> QED
    BY <1>1, <1>2, <1>3, <1>4

----------------------------------------------------------------------------
(* The headers of a part                                                   *)

\* A finite set of numbers that is not empty has a maximum.
LEMMA GreatestNumber ==
  ASSUME NEW n \in Nat, NEW T \in SUBSET (1..n), T # {}
  PROVE  Max(T) \in T /\ \A m \in T : m <= Max(T)
  <1> DEFINE U == {k \in Nat : n - k \in T}
  <1>1. PICK t \in T : TRUE
    OBVIOUS
  <1>2. n - t \in U
    <2>1. n - t \in Nat /\ n - (n - t) = t
      BY <1>1
    <2> QED
      BY <2>1
  <1>3. PICK k \in U : \A m \in U : k <= m
    BY <1>2, LeastNumber
  <1>4. PICK x \in T : x = n - k
    BY <1>3
  <1>5. ASSUME NEW m \in T
        PROVE  x >= m
    <2>1. n - m \in Nat /\ n - (n - m) = m
      OBVIOUS
    <2>2. n - m \in U
      BY <2>1
    <2>3. k <= n - m
      BY <1>3, <2>2
    <2> QED
      BY <1>3, <1>4, <2>3
  <1>6. \E y \in T : \A m \in T : y >= m
    BY <1>5
  <1>7. Max(T) \in T /\ \A m \in T : Max(T) >= m
    BY <1>6 DEF Max
  <1> QED
    BY <1>7

Header == [name : Text, value : Text]

\* No header yet, and one header more.
LEMMA OwnNone ==
  ASSUME NEW headers
  PROVE  IsOwn(NoEntries, headers, 0)
  BY DEF IsOwn, NoEntries

\* read_header_value puts the next header of a part to those before it.
LEMMA OwnPut ==
  ASSUME NEW headers \in Seq(Header), NEW n \in 0..Len(headers) - 1, NEW f,
         IsOwn(f, headers, n), NEW v, v = parse_header_value(headers[n + 1].value)
  PROVE  IsOwn(Put(f, headers[n + 1].name, v), headers, n + 1)
  <1>1. PICK k : k = headers[n + 1].name
    OBVIOUS
  <1>2. PICK g : g = Put(f, k, v)
    OBVIOUS
  <1>3. g = [x \in DOMAIN f \cup {k} |-> IF x = k THEN v ELSE f[x]]
    BY <1>2 DEF Put
  <1>4. n \in Nat /\ n + 1 # 0
    BY LenProperties
  <1>5. /\ DOMAIN g = DOMAIN f \cup {k} /\ g = [x \in DOMAIN g |-> g[x]]
        /\ g[k] = v /\ \A x \in DOMAIN f : x # k => g[x] = f[x]
    BY <1>3
  <1>6. /\ DOMAIN f = {headers[i].name : i \in 1..n}
        /\ \A i \in 1..n : (\A m \in i + 1..n : headers[m].name # headers[i].name) =>
              f[headers[i].name] = parse_header_value(headers[i].value)
    BY DEF IsOwn
  <1>7. DOMAIN g = {headers[i].name : i \in 1..n + 1}
    <2>1. 1..n + 1 = 1..n \cup {n + 1}
      BY <1>4
    <2> QED
      BY <1>1, <1>5, <1>6, <2>1
  <1>8. ASSUME NEW i \in 1..n + 1,
               \A m \in i + 1..n + 1 : headers[m].name # headers[i].name
        PROVE  g[headers[i].name] = parse_header_value(headers[i].value)
    <2>1. CASE i = n + 1
      BY <1>1, <1>5, <2>1
    <2>2. CASE i \in 1..n
      <3>1. n + 1 \in i + 1..n + 1 /\ \A m \in i + 1..n : m \in i + 1..n + 1
        BY <1>4, <2>2
      <3>2. headers[i].name # k /\ \A m \in i + 1..n : headers[m].name # headers[i].name
        BY <1>1, <1>8, <3>1
      <3>3. f[headers[i].name] = parse_header_value(headers[i].value)
        BY <1>6, <2>2, <3>2
      <3>4. headers[i].name \in DOMAIN f
        BY <1>6, <2>2
      <3> QED
        BY <1>5, <3>2, <3>3, <3>4
    <2> QED
      BY <1>4, <2>1, <2>2
  <1>9. IsOwn(g, headers, n + 1)
    BY <1>4, <1>5, <1>7, <1>8 DEF IsOwn
  <1> QED
    BY <1>1, <1>2, <1>9

\* All headers: the map that the reference defines.
LEMMA OwnAll ==
  ASSUME NEW part \in Part, NEW f, IsOwn(f, part.headers, Len(part.headers))
  PROVE  f = IF part.headers # <<>> THEN OwnHeaders(part) ELSE NoEntries
  <1>1. PICK headers \in Seq(Header) : headers = part.headers
    BY PartType DEF Header
  <1>2. PICK n \in Nat : n = Len(headers)
    BY LenProperties
  <1>3. DOMAIN headers = 1..n
    BY <1>2, LenProperties
  <1>4. /\ n = 0 => f = NoEntries
        /\ f = [x \in DOMAIN f |-> f[x]]
        /\ DOMAIN f = {headers[i].name : i \in 1..n}
        /\ \A i \in 1..n : (\A m \in i + 1..n : headers[m].name # headers[i].name) =>
              f[headers[i].name] = parse_header_value(headers[i].value)
    BY <1>1, <1>2 DEF IsOwn
  <1>5. CASE headers = <<>>
    BY <1>1, <1>2, <1>4, <1>5, EmptySeq
  <1>6. CASE headers # <<>>
    <2> DEFINE last(x) == SelectLastInSeq(headers, LAMBDA h : h.name = x)
               g == [x \in {headers[i].name : i \in 1..n} |->
                       parse_header_value(headers[last(x)].value)]
    <2>1. OwnHeaders(part) = g
      BY <1>1, <1>3 DEF OwnHeaders
    <2>2. ASSUME NEW x \in DOMAIN f
          PROVE  f[x] = parse_header_value(headers[last(x)].value)
      <3>1. PICK T \in SUBSET (1..n) : T = {i \in 1..n : headers[i].name = x}
        OBVIOUS
      <3>2. T # {}
        BY <1>4, <2>2, <3>1
      <3>3. last(x) = Max(T)
        BY <1>2, <3>1, <3>2 DEF SelectLastInSeq
      <3>4. Max(T) \in T /\ \A m \in T : m <= Max(T)
        BY <3>2, GreatestNumber
      <3>5. PICK i \in 1..n : i = Max(T)
        BY <3>4
      <3>6. headers[i].name = x /\ \A m \in i + 1..n : headers[m].name # x
        <4>1. headers[i].name = x
          BY <3>1, <3>4, <3>5
        <4>2. ASSUME NEW m \in i + 1..n, headers[m].name = x
              PROVE  FALSE
          <5>1. m \in 1..n /\ ~(m <= i)
            BY <3>5
          <5>2. m \in T
            BY <3>1, <4>2, <5>1
          <5> QED
            BY <3>4, <3>5, <5>1, <5>2
        <4> QED
          BY <4>1, <4>2
      <3>7. f[x] = parse_header_value(headers[i].value)
        BY <1>4, <3>6
      <3> QED
        BY <3>3, <3>5, <3>7
    <2> HIDE DEF last
    <2>3. f = g
      BY <1>4, <2>2
    <2> QED
      BY <1>1, <1>6, <2>1, <2>3
  <1> QED
    BY <1>5, <1>6

----------------------------------------------------------------------------
(* Where the reader is                                                     *)

\* The sections of the parts before part j and of its first q pieces.
SectionsUntil(parts, j, q) ==
    AllSections(SubSeq(parts, 1, j - 1)) \o SubSeq(Sections(parts[j]), 1, q)

\* The sections up to a piece grow by one with each piece of a part.
LEMMA SectionsUntilDef ==
  ASSUME NEW parts \in Seq(Part), NEW j \in 1..Len(parts), NEW q \in 0..Len(parts[j].pieces)
  PROVE  /\ IsPrefix(SectionsUntil(parts, j, q), AllSections(parts))
         /\ q = 0 => SectionsUntil(parts, j, q) = AllSections(SubSeq(parts, 1, j - 1))
         /\ q > 0 => SectionsUntil(parts, j, q) =
                       Append(SectionsUntil(parts, j, q - 1), Sections(parts[j])[q])
         /\ q = Len(parts[j].pieces) =>
              SectionsUntil(parts, j, q) = AllSections(SubSeq(parts, 1, j))
  <1>1. PICK ss \in Seq(Seq(AnySection)) : ss = SectionSeq(parts)
    BY SectionSeqType
  <1>2. Len(ss) = Len(parts) /\ ss[j] = Sections(parts[j])
    BY <1>1, SectionSeqType
  <1>3. PICK b \in Seq(AnySection) : b = ss[j]
    BY <1>2, ElementOfSeq
  <1>4. PICK p \in Nat : p = Len(parts[j].pieces)
    BY PartType, ElementOfSeq
  <1>5. Len(b) = p /\ q \in 0..p
    BY <1>2, <1>3, <1>4, SectionsDef, ElementOfSeq
  <1>6. j - 1 \in 0..Len(parts) /\ j \in 0..Len(parts) /\ Len(parts) \in Nat
    BY LenProperties
  <1>7. PICK a \in Seq(AnySection) : a = UpTo(ss, j - 1)
    BY <1>2, <1>6, UpToType
  <1>8. AllSections(SubSeq(parts, 1, j - 1)) = a
    BY <1>1, <1>6, <1>7, SectionsUpTo
  <1>9. /\ AllSections(SubSeq(parts, 1, j)) = UpTo(ss, j) /\ UpTo(ss, j) = a \o b
        /\ AllSections(parts) = FlattenSeq(ss)
    <2>1. UpTo(ss, j) = UpTo(ss, j - 1) \o ss[j]
      BY <1>2, UpToNext
    <2> QED
      BY <1>1, <1>3, <1>6, <1>7, <2>1, SectionsUpTo DEF AllSections, SectionSeq
  <1>10. SectionsUntil(parts, j, q) = a \o SubSeq(b, 1, q)
    BY <1>2, <1>3, <1>8 DEF SectionsUntil
  <1>11. \A i \in 1..q : b[i] \in AnySection
    BY <1>5, ElementOfSeq
  <1>12. PICK c : c = SubSeq(b, 1, q)
    OBVIOUS
  <1>13. c \in Seq(AnySection) /\ Len(c) = q /\ \A i \in 1..q : c[i] = b[i]
    BY <1>5, <1>11, <1>12, SubSeqProperties
  <1>14. IsPrefix(a \o c, FlattenSeq(ss))
    <2>1. PICK u, v, w : u = a \o c /\ v = a \o b /\ w = FlattenSeq(ss)
      OBVIOUS
    <2>2. PICK m \in Nat : m = Len(a)
      BY LenProperties
    <2>3. /\ u \in Seq(AnySection) /\ Len(u) = m + q
          /\ \A i \in 1..m + q : u[i] = IF i <= m THEN a[i] ELSE c[i - m]
      BY <1>13, <2>1, <2>2, ConcatProperties
    <2>4. /\ v \in Seq(AnySection) /\ Len(v) = m + p
          /\ \A i \in 1..m + p : v[i] = IF i <= m THEN a[i] ELSE b[i - m]
      BY <1>5, <2>1, <2>2, ConcatProperties
    <2>5. w \in Seq(AnySection) /\ IsPrefix(v, w)
      BY <1>2, <1>6, <1>9, <2>1, FlattenType, UpToPrefix
    <2>6. Len(v) <= Len(w) /\ \A i \in 1..Len(v) : v[i] = w[i]
      BY <2>4, <2>5, PrefixDef
    <2>7. Len(w) \in Nat
      BY <2>5, LenProperties
    <2>8. ASSUME NEW i \in 1..m + q
          PROVE  u[i] = w[i]
      <3>1. i \in 1..m + p
        BY <1>5
      <3>2. u[i] = v[i]
        <4>1. CASE i <= m
          BY <2>3, <2>4, <3>1, <4>1
        <4>2. CASE ~(i <= m)
          <5>1. i - m \in 1..q
            BY <4>2
          <5> QED
            BY <1>13, <2>3, <2>4, <3>1, <4>2, <5>1
        <4> QED
          BY <4>1, <4>2
      <3> QED
        BY <2>4, <2>6, <3>1, <3>2
    <2>9. Len(u) <= Len(w) /\ \A i \in 1..Len(u) : u[i] = w[i]
      BY <1>5, <2>3, <2>4, <2>6, <2>7, <2>8
    <2> QED
      BY <2>1, <2>3, <2>5, <2>9, PrefixDef
  <1>15. q = 0 => a \o c = a
    <2>1. q = 0 => c = <<>>
      BY <1>12, SubSeqEmpty
    <2> QED
      BY <2>1, ConcatEmptySeq
  <1>16. ASSUME q > 0
         PROVE  a \o c = Append(a \o SubSeq(b, 1, q - 1), b[q])
    <2>1. 1 \in 1..Len(b) /\ q \in 1..Len(b)
      BY <1>5, <1>16
    <2>2. c = SubSeq(b, 1, q - 1) \o << b[q] >>
      BY <1>12, <2>1, SubSeqRecursiveSecond
    <2>3. PICK d : d = SubSeq(b, 1, q - 1)
      OBVIOUS
    <2>4. d \in Seq(AnySection)
      <3>1. 1 \in Int /\ q - 1 \in Int /\ \A i \in 1..q - 1 : b[i] \in AnySection
        BY <1>11, <1>16
      <3> QED
        BY <2>3, <3>1, SubSeqProperties
    <2>5. PICK x \in AnySection : x = b[q]
      BY <1>11, <1>16
    <2>6. <<x>> \in Seq(AnySection) /\ a \o d \in Seq(AnySection)
      BY <2>4, ConcatProperties
    <2>7. (a \o d) \o <<x>> = a \o (d \o <<x>>)
      <3>1. PICK y \in Seq(AnySection) : y = <<x>>
        BY <2>6
      <3>2. (a \o d) \o y = a \o (d \o y)
        BY <2>4, ConcatAssociative, SMTT(40)
      <3> QED
        BY <3>1, <3>2
    <2>8. Append(a \o d, x) = (a \o d) \o <<x>>
      BY <2>6, AppendIsConcat
    <2> QED
      BY <2>2, <2>3, <2>5, <2>7, <2>8
  <1>17. SectionsUntil(parts, j, q - 1) = a \o SubSeq(b, 1, q - 1)
    BY <1>2, <1>3, <1>8 DEF SectionsUntil
  <1>18. q = p => c = b
    BY <1>5, <1>12, SubSeqFull
  <1> QED
    BY <1>2, <1>3, <1>4, <1>8, <1>9, <1>10, <1>12, <1>14, <1>15, <1>16, <1>17, <1>18

\* The call that is next belongs to the part being read.
LEMMA CallNumber ==
  ASSUME NEW h \in Nat, NEW p \in Nat, NEW n \in 0..h, NEW half \in 0..1, NEW q \in 0..p - 1,
         half = 1 => n < h, q > 0 => n = h /\ half = 0, NEW i, i = 2 * n + half + q + 1
  PROVE  i \in 1..2 * h + p
  OBVIOUS

\* The next call, wherever the reader is.
LEMMA NextCall ==
  ASSUME NEW parts \in Seq(Part), NEW j \in 1..Len(parts),
         NEW n \in 0..Len(parts[j].headers), NEW half \in 0..1,
         NEW q \in 0..Len(parts[j].pieces) - 1, ReadingAt(parts, j, n, half, q)
  PROVE  /\ calls # <<>>
         /\ Tail(calls) = CallsFrom(parts, CallsBefore(parts, j) + 2 * n + half + q + 1)
         /\ n < Len(parts[j].headers) /\ half = 0 => Head(calls) = Field(parts[j], n + 1)
         /\ n < Len(parts[j].headers) /\ half = 1 => Head(calls) = Value(parts[j], n + 1)
         /\ n = Len(parts[j].headers) => Head(calls) = Piece(parts[j], q + 1)
  <1>1. PICK part \in Part : part = parts[j]
    BY ElementOfSeq
  <1>2. PICK h \in Nat : h = Len(part.headers)
    BY PartType
  <1>3. PICK p \in Nat : p = Len(part.pieces) /\ p > 0
    BY PartType
  <1>4. n \in 0..h /\ q \in 0..p - 1
    BY <1>1, <1>2, <1>3
  <1>5. /\ half = 1 => n < h
        /\ q > 0 => n = h /\ half = 0
        /\ calls = CallsFrom(parts, CallsBefore(parts, j) + 2 * n + half + q)
    BY <1>1, <1>2 DEF ReadingAt, CallsBefore
  <1>6. PICK i \in Nat : i = 2 * n + half + q + 1
    BY <1>4
  <1>7. PICK c : c = Calls(part)
    OBVIOUS
  <1>8. /\ Len(c) = 2 * h + p
        /\ \A k \in 0..h - 1 : c[2 * k + 1] = Field(part, k + 1) /\ c[2 * k + 2] = Value(part, k + 1)
        /\ \A k \in 1..p : c[2 * h + k] = Piece(part, k)
    BY <1>2, <1>3, <1>7, CallsDef
  <1>9. i \in 1..2 * h + p
    BY <1>3, <1>4, <1>5, <1>6, CallNumber
  <1>10. PICK b \in Nat : b = CallsBefore(parts, j)
    BY NextPart
  <1>11. b + i \in 1..Len(AllCalls(parts)) /\ AllCalls(parts)[b + i] = c[i]
    BY <1>1, <1>7, <1>8, <1>9, <1>10, CallAt
  <1>12. Len(AllCalls(parts)) \in Nat
    BY AllCallsType, LenProperties
  <1>13. PICK made \in Nat : made = b + 2 * n + half + q
    BY <1>4
  <1>14. made + 1 = b + i /\ made < Len(AllCalls(parts))
    BY <1>4, <1>6, <1>11, <1>12, <1>13
  <1>15. calls = CallsFrom(parts, made)
    BY <1>5, <1>10, <1>13
  <1>16. calls # <<>> /\ Head(calls) = c[i] /\ Tail(calls) = CallsFrom(parts, made + 1)
    BY <1>11, <1>14, <1>15, CallsFromDef
  <1>17. n < h /\ half = 0 => c[i] = Field(part, n + 1)
    <2>1. n < h /\ half = 0 => n \in 0..h - 1 /\ i = 2 * n + 1
      BY <1>4, <1>5, <1>6
    <2> QED
      BY <1>8, <2>1
  <1>18. n < h /\ half = 1 => c[i] = Value(part, n + 1)
    <2>1. n < h /\ half = 1 => n \in 0..h - 1 /\ i = 2 * n + 2
      BY <1>4, <1>5, <1>6
    <2> QED
      BY <1>8, <2>1
  <1>19. n = h => c[i] = Piece(part, q + 1)
    <2>1. n = h => q + 1 \in 1..p /\ i = 2 * h + (q + 1)
      BY <1>4, <1>5, <1>6
    <2> QED
      BY <1>8, <2>1
  <1> QED
    BY <1>1, <1>2, <1>10, <1>13, <1>16, <1>17, <1>18, <1>19

----------------------------------------------------------------------------
(* The steps of the reader                                                 *)

\* The parser begins with the first part, if there is one.
LEMMA IngestStep ==
  ASSUME NEW parts \in Seq(Part), cur_header_vals = NoEntries, sections = <<>>, ingest(parts)
  PROVE  calls' # <<>> => Reading(parts)'
  <1>1. calls' = AllCalls(parts) /\ cur_header_vals' = NoEntries /\ sections' = <<>>
    BY DEF ingest
  <1>2. SubSeq(parts, 1, 1 - 1) = <<>>
    BY SubSeqEmpty
  <1>3. AllCalls(<<>>) = <<>> /\ AllSections(<<>>) = <<>>
    <2>1. [i \in DOMAIN <<>> |-> Calls(<<>>[i])] = <<>>
      OBVIOUS
    <2>2. [i \in DOMAIN <<>> |-> Sections(<<>>[i])] = <<>>
      OBVIOUS
    <2>3. FlattenSeq(<<>>) = <<>>
      BY DEF FlattenSeq
    <2> QED
      BY <2>1, <2>2, <2>3 DEF AllCalls, AllSections
  <1>4. SUFFICES ASSUME calls' # <<>>
                 PROVE  Reading(parts)'
    OBVIOUS
  <1>5. parts # <<>>
    BY <1>1, <1>3, <1>4
  <1>6. 1 \in 1..Len(parts)
    BY <1>5, EmptySeq, LenProperties
  <1>7. PICK part \in Part : part = parts[1]
    BY <1>6, ElementOfSeq
  <1>8. 0 \in 0..Len(parts[1].headers) /\ 0 \in 0..1 /\ 0 \in 0..Len(parts[1].pieces) - 1
    BY <1>7, PartType
  <1>9. calls' = CallsFrom(parts, Len(AllCalls(<<>>)) + 2 * 0 + 0 + 0)
    <2>1. Len(AllCalls(<<>>)) + 2 * 0 + 0 + 0 + 1 = 1
      BY <1>3
    <2>2. SubSeq(AllCalls(parts), 1, Len(AllCalls(parts))) = AllCalls(parts)
      BY AllCallsType, SubSeqFull
    <2> QED
      BY <1>1, <2>1, <2>2 DEF CallsFrom
  <1>10. IsOwn(cur_header_vals', parts[1].headers, 0)
    BY <1>1, OwnNone
  <1>11. sections' = AllSections(<<>>) \o SubSeq(Sections(parts[1]), 1, 0)
    <2>1. SubSeq(Sections(parts[1]), 1, 0) = <<>>
      BY SubSeqEmpty
    <2> QED
      BY <1>1, <1>3, <2>1
  <1>12. PICK j \in Nat : j = 1
    OBVIOUS
  <1>13. PICK n \in Nat : n = 0
    OBVIOUS
  <1>14. SubSeq(parts, 1, j - 1) = <<>>
    BY <1>2, <1>12
  <1>15. ReadingAt(parts, j, n, n, n)'
    <2>1. n # 1 /\ ~(n > 0)
      BY <1>13
    <2>2. calls' = CallsFrom(parts, Len(AllCalls(SubSeq(parts, 1, j - 1))) + 2 * n + n + n)
      BY <1>9, <1>13, <1>14
    <2>3. IsOwn(cur_header_vals', parts[j].headers, n)
      BY <1>10, <1>12, <1>13
    <2>4. sections' = AllSections(SubSeq(parts, 1, j - 1)) \o SubSeq(Sections(parts[j]), 1, n)
      BY <1>11, <1>12, <1>13, <1>14
    <2> QED
      BY <2>1, <2>2, <2>3, <2>4 DEF ReadingAt
  <1>16. ReadingAt(parts, 1, 0, 0, 0)'
    BY <1>12, <1>13, <1>15
  <1> QED
    BY <1>6, <1>8, <1>16 DEF Reading

\* Which call it is says where in its part the reader is.
LEMMA NameStep ==
  ASSUME NEW parts \in Seq(Part), Reading(parts), read_header_name
  PROVE  Reading(parts)'
  <1>1. PICK j \in 1..Len(parts) :
          \E n \in 0..Len(parts[j].headers), half \in 0..1, q \in 0..Len(parts[j].pieces) - 1 :
             ReadingAt(parts, j, n, half, q)
    BY DEF Reading
  <1>2. PICK n \in 0..Len(parts[j].headers), half \in 0..1, q \in 0..Len(parts[j].pieces) - 1 :
          ReadingAt(parts, j, n, half, q)
    BY <1>1
  <1>3. PICK part \in Part : part = parts[j]
    BY ElementOfSeq
  <1>4. PICK h \in Nat : h = Len(part.headers)
    BY PartType
  <1>5. n \in 0..h
    BY <1>3, <1>4
  <1>6. PICK b \in Nat : b = CallsBefore(parts, j)
    BY NextPart
  <1>7. /\ Tail(calls) = CallsFrom(parts, b + 2 * n + half + q + 1)
        /\ n < h /\ half = 0 => Head(calls) = Field(part, n + 1)
        /\ n < h /\ half = 1 => Head(calls) = Value(part, n + 1)
        /\ n = h => Head(calls) = Piece(part, q + 1)
    BY <1>2, <1>3, <1>4, <1>6, NextCall
  <1>8. Head(calls).cb = "header_field" /\ calls' = Tail(calls)
        /\ cur_header_name' = Head(calls).text
        /\ cur_header_vals' = cur_header_vals /\ sections' = sections
    BY DEF read_header_name, Callback
  <1>9. n < h /\ half = 0
    BY <1>5, <1>7, <1>8 DEF Value, Piece
  <1>10. q = 0
    BY <1>2, <1>3, <1>4, <1>9 DEF ReadingAt
  <1>11. cur_header_name' = part.headers[n + 1].name
    BY <1>7, <1>8, <1>9 DEF Field
  <1>12. calls' = CallsFrom(parts, b + 2 * n + 1 + 0)
    <2>1. b + 2 * n + half + q + 1 = b + 2 * n + 1 + 0
      BY <1>5, <1>9, <1>10
    <2> QED
      BY <1>7, <1>8, <2>1
  <1>13. /\ IsOwn(cur_header_vals', part.headers, n)
         /\ sections' = AllSections(SubSeq(parts, 1, j - 1)) \o SubSeq(Sections(parts[j]), 1, 0)
    BY <1>2, <1>3, <1>8, <1>10 DEF ReadingAt
  <1>14. ReadingAt(parts, j, n, 1, 0)'
    BY <1>3, <1>4, <1>6, <1>9, <1>11, <1>12, <1>13 DEF ReadingAt, CallsBefore
  <1>15. 1 \in 0..1 /\ 0 \in 0..Len(parts[j].pieces) - 1
    BY <1>3, PartType
  <1> QED
    BY <1>14, <1>15 DEF Reading

\* read_header_value keeps the reader in its part.
LEMMA ValueStep ==
  ASSUME NEW parts \in Seq(Part), Reading(parts), read_header_value
  PROVE  Reading(parts)'
  <1>1. PICK j \in 1..Len(parts) :
          \E n \in 0..Len(parts[j].headers), half \in 0..1, q \in 0..Len(parts[j].pieces) - 1 :
             ReadingAt(parts, j, n, half, q)
    BY DEF Reading
  <1>2. PICK n \in 0..Len(parts[j].headers), half \in 0..1, q \in 0..Len(parts[j].pieces) - 1 :
          ReadingAt(parts, j, n, half, q)
    BY <1>1
  <1>3. PICK part \in Part : part = parts[j]
    BY ElementOfSeq
  <1>4. PICK h \in Nat : h = Len(part.headers)
    BY PartType
  <1>5. n \in 0..h
    BY <1>3, <1>4
  <1>6. PICK b \in Nat : b = CallsBefore(parts, j)
    BY NextPart
  <1>7. /\ Tail(calls) = CallsFrom(parts, b + 2 * n + half + q + 1)
        /\ n < h /\ half = 0 => Head(calls) = Field(part, n + 1)
        /\ n < h /\ half = 1 => Head(calls) = Value(part, n + 1)
        /\ n = h => Head(calls) = Piece(part, q + 1)
    BY <1>2, <1>3, <1>4, <1>6, NextCall
  <1>8. /\ Head(calls).cb = "header_value" /\ calls' = Tail(calls)
        /\ cur_header_vals' =
             Put(cur_header_vals, cur_header_name, parse_header_value(Head(calls).text))
        /\ sections' = sections
    BY DEF read_header_value, Callback
  <1>9. n < h /\ half = 1
    BY <1>5, <1>7, <1>8 DEF Field, Piece
  <1>10. q = 0
    BY <1>2, <1>3, <1>4, <1>9 DEF ReadingAt
  <1>11. cur_header_name = part.headers[n + 1].name /\ IsOwn(cur_header_vals, part.headers, n)
    BY <1>2, <1>3, <1>9, <1>10 DEF ReadingAt
  <1>12. IsOwn(cur_header_vals', part.headers, n + 1)
    <2>1. part.headers \in Seq(Header) /\ n \in 0..Len(part.headers) - 1
      <3>1. part.headers \in Seq(Header)
        BY PartType DEF Header
      <3>2. n \in 0..h - 1
        BY <1>5, <1>9
      <3> QED
        BY <1>4, <3>1, <3>2
    <2>2. PICK v : v = parse_header_value(part.headers[n + 1].value)
      OBVIOUS
    <2>3. Head(calls).text = part.headers[n + 1].value
      BY <1>7, <1>9 DEF Value
    <2>4. cur_header_vals' = Put(cur_header_vals, part.headers[n + 1].name, v)
      BY <1>8, <1>11, <2>2, <2>3
    <2> QED
      BY <1>11, <2>1, <2>2, <2>4, OwnPut
  <1>13. calls' = CallsFrom(parts, b + 2 * (n + 1) + 0 + 0)
    <2>1. b + 2 * n + half + q + 1 = b + 2 * (n + 1) + 0 + 0
      BY <1>5, <1>9, <1>10
    <2> QED
      BY <1>7, <1>8, <2>1
  <1>14. sections' = AllSections(SubSeq(parts, 1, j - 1)) \o SubSeq(Sections(parts[j]), 1, 0)
    BY <1>2, <1>3, <1>8, <1>10 DEF ReadingAt
  <1>15. ReadingAt(parts, j, n + 1, 0, 0)'
    BY <1>3, <1>6, <1>12, <1>13, <1>14 DEF ReadingAt, CallsBefore
  <1>16. n + 1 \in 0..Len(parts[j].headers) /\ 0 \in 0..1 /\ 0 \in 0..Len(parts[j].pieces) - 1
    BY <1>3, <1>4, <1>5, <1>9, PartType
  <1> QED
    BY <1>15, <1>16 DEF Reading


\* A piece becomes the section that the reference has for it; then comes the
\* next piece, the next part or the end.
LEMMA BodyStep ==
  ASSUME NEW parts \in Seq(Part), Reading(parts), read_body
  PROVE  /\ calls' # <<>> => Reading(parts)'
         /\ IsPrefix(sections', AllSections(parts))
  <1>1. PICK j \in 1..Len(parts) :
          \E n \in 0..Len(parts[j].headers), half \in 0..1, q \in 0..Len(parts[j].pieces) - 1 :
             ReadingAt(parts, j, n, half, q)
    BY DEF Reading
  <1>2. PICK n \in 0..Len(parts[j].headers), half \in 0..1, q \in 0..Len(parts[j].pieces) - 1 :
          ReadingAt(parts, j, n, half, q)
    BY <1>1
  <1>3. PICK part \in Part : part = parts[j]
    BY ElementOfSeq
  <1>4. PICK h \in Nat : h = Len(part.headers)
    BY PartType
  <1>5. PICK p \in Nat : p = Len(part.pieces)
    BY PartType
  <1>6. n \in 0..h /\ q \in 0..p - 1
    BY <1>3, <1>4, <1>5
  <1>7. PICK b \in Nat : b = CallsBefore(parts, j)
    BY NextPart
  <1>8. /\ Tail(calls) = CallsFrom(parts, b + 2 * n + half + q + 1)
        /\ n < h /\ half = 0 => Head(calls) = Field(part, n + 1)
        /\ n < h /\ half = 1 => Head(calls) = Value(part, n + 1)
        /\ n = h => Head(calls) = Piece(part, q + 1)
    BY <1>2, <1>3, <1>4, <1>7, NextCall
  <1>9. /\ Head(calls).cb = "part_data" /\ calls' = Tail(calls)
        /\ sections' = Append(sections, [headers |-> cur_header_vals, data |-> Head(calls).text])
        /\ cur_header_vals' = NoEntries
    BY DEF read_body, Callback
  <1>10. n = h
    BY <1>6, <1>8, <1>9 DEF Field, Value
  <1>11. half = 0
    BY <1>2, <1>3, <1>4, <1>10 DEF ReadingAt
  <1>12. Head(calls).text = part.pieces[q + 1]
    BY <1>8, <1>10 DEF Piece
  <1>13. q + 1 \in 1..p /\ q + 1 \in 0..p /\ q + 1 > 0 /\ (q + 1) - 1 = q
    BY <1>6
  <1>14. [headers |-> cur_header_vals, data |-> part.pieces[q + 1]] = Sections(part)[q + 1]
    <2>1. cur_header_vals =
            IF q + 1 = 1 /\ part.headers # <<>> THEN OwnHeaders(part) ELSE NoEntries
      <3>1. CASE q = 0
        <4>1. IsOwn(cur_header_vals, part.headers, Len(part.headers))
          BY <1>2, <1>3, <1>4, <1>10, <3>1 DEF ReadingAt
        <4>2. cur_header_vals = IF part.headers # <<>> THEN OwnHeaders(part) ELSE NoEntries
          BY <4>1, OwnAll
        <4> QED
          BY <3>1, <4>2
      <3>2. CASE q # 0
        <4>1. q > 0 /\ q + 1 # 1
          BY <1>6, <3>2
        <4>2. cur_header_vals = NoEntries
          BY <1>2, <4>1 DEF ReadingAt
        <4> QED
          BY <4>1, <4>2
      <3> QED
        BY <3>1, <3>2
    <2>2. Sections(part)[q + 1] =
            [headers |-> IF q + 1 = 1 /\ part.headers # <<>> THEN OwnHeaders(part) ELSE NoEntries,
             data |-> part.pieces[q + 1]]
      BY <1>5, <1>13, SectionsDef
    <2> QED
      BY <2>1, <2>2
  <1>15. PICK k \in 0..Len(parts[j].pieces) : k = q + 1
    BY <1>3, <1>5, <1>13
  <1>16. k > 0 /\ k - 1 = q
    BY <1>13, <1>15
  <1>17. sections = SectionsUntil(parts, j, q)
    BY <1>2 DEF ReadingAt, SectionsUntil
  <1>18. sections' = SectionsUntil(parts, j, k)
    <2>1. SectionsUntil(parts, j, k) =
            Append(SectionsUntil(parts, j, k - 1), Sections(parts[j])[k])
      BY <1>16, SectionsUntilDef
    <2>2. sections' = Append(sections, Sections(part)[q + 1])
      BY <1>9, <1>12, <1>14
    <2> QED
      BY <1>3, <1>15, <1>16, <1>17, <2>1, <2>2
  <1>19. IsPrefix(sections', AllSections(parts))
    BY <1>18, SectionsUntilDef
  <1>20. calls' = CallsFrom(parts, b + 2 * h + k)
    <2>1. b + 2 * n + half + q + 1 = b + 2 * h + k
      BY <1>6, <1>10, <1>11, <1>15
    <2> QED
      BY <1>8, <1>9, <2>1
  <1>21. CASE k < p
    <2>1. ReadingAt(parts, j, h, 0, k)'
      <3>1. calls' = CallsFrom(parts, Len(AllCalls(SubSeq(parts, 1, j - 1))) + 2 * h + 0 + k)
        <4>1. b + 2 * h + k = b + 2 * h + 0 + k
          OBVIOUS
        <4> QED
          BY <1>7, <1>20, <4>1 DEF CallsBefore
      <3>2. sections' = AllSections(SubSeq(parts, 1, j - 1)) \o SubSeq(Sections(parts[j]), 1, k)
        BY <1>18 DEF SectionsUntil
      <3>3. k # 0 /\ h = Len(parts[j].headers)
        BY <1>3, <1>4, <1>16
      <3>4. PICK z \in Nat : z = 0
        OBVIOUS
      <3>5. ReadingAt(parts, j, h, z, k)'
        <4>1. z # 1 /\ k > 0 /\ k # 0
          BY <1>16, <3>3, <3>4
        <4>2. calls' = CallsFrom(parts, Len(AllCalls(SubSeq(parts, 1, j - 1))) + 2 * h + z + k)
          BY <3>1, <3>4
        <4> QED
          BY <1>9, <3>2, <3>3, <3>4, <4>1, <4>2 DEF ReadingAt
      <3> QED
        BY <3>4, <3>5
    <2>2. h \in 0..Len(parts[j].headers) /\ 0 \in 0..1 /\ k \in 0..Len(parts[j].pieces) - 1
      BY <1>3, <1>4, <1>5, <1>15, <1>21
    <2> QED
      BY <1>19, <2>1, <2>2 DEF Reading
  <1>22. CASE k = p
    <2>1. sections' = AllSections(SubSeq(parts, 1, j))
      BY <1>3, <1>5, <1>18, <1>22, SectionsUntilDef
    <2>2. calls' = CallsFrom(parts, CallsBefore(parts, j + 1))
      <3>1. CallsBefore(parts, j + 1) = b + (2 * h + p)
        BY <1>3, <1>4, <1>5, <1>7, NextPart
      <3>2. b + (2 * h + p) = b + 2 * h + k
        BY <1>22
      <3> QED
        BY <1>20, <3>1, <3>2
    <2>3. CASE j = Len(parts)
      <3>1. CallsBefore(parts, j + 1) = Len(AllCalls(parts)) /\ Len(AllCalls(parts)) \in Nat
        BY <2>3, NextPart, AllCallsType, LenProperties
      <3>2. calls' = <<>>
        BY <2>2, <3>1, CallsFromDef
      <3> QED
        BY <1>19, <3>2
    <2>4. CASE j # Len(parts)
      <3>1. PICK i \in 1..Len(parts) : i = j + 1
        BY <2>4, LenProperties
      <3>2. i - 1 = j
        BY <3>1
      <3>3. PICK next \in Part : next = parts[i]
        BY ElementOfSeq
      <3>4. PICK z \in Nat : z = 0
        OBVIOUS
      <3>5. PICK c \in Nat : c = CallsBefore(parts, i)
        BY NextPart
      <3>6. calls' = CallsFrom(parts, Len(AllCalls(SubSeq(parts, 1, i - 1))) + 2 * z + z + z)
        <4>1. c + 2 * z + z + z = c
          BY <3>4
        <4>2. calls' = CallsFrom(parts, c)
          BY <2>2, <3>1, <3>5
        <4> QED
          BY <3>5, <4>1, <4>2 DEF CallsBefore
      <3>7. IsOwn(cur_header_vals', parts[i].headers, z)
        BY <1>9, <3>4, OwnNone
      <3>8. z \in 0..Len(parts[i].headers) /\ z \in 0..1 /\ z \in 0..Len(parts[i].pieces) - 1
        BY <3>3, <3>4, PartType
      <3>9. sections' = AllSections(SubSeq(parts, 1, i - 1)) \o SubSeq(Sections(parts[i]), 1, z)
        <4>1. z \in 0..Len(parts[i].pieces)
          BY <3>3, <3>4, PartType
        <4>2. SectionsUntil(parts, i, z) = AllSections(SubSeq(parts, 1, i - 1))
          BY <3>4, <4>1, SectionsUntilDef
        <4> QED
          BY <2>1, <3>2, <4>2 DEF SectionsUntil
      <3>10. z # 1 /\ ~(z > 0)
        BY <3>4
      <3>11. ReadingAt(parts, i, z, z, z)'
        BY <3>6, <3>7, <3>9, <3>10 DEF ReadingAt
      <3>12. Reading(parts)'
        BY <3>8, <3>11 DEF Reading
      <3> QED
        BY <1>19, <3>12
    <2> QED
      BY <2>3, <2>4
  <1> QED
    BY <1>13, <1>15, <1>21, <1>22

\* Every callback keeps the reader in the form and its sections those of the form.
LEMMA CallbackStep ==
  ASSUME NEW parts \in Seq(Part), callback, calls # <<>> => Reading(parts),
         IsPrefix(sections, AllSections(parts))
  PROVE  /\ calls' # <<>> => Reading(parts)'
         /\ IsPrefix(sections', AllSections(parts))
  <1>1. read_header_name \/ read_header_value \/ read_body \/ parser_stops
    BY DEF callback
  <1>2. calls # <<>>
    BY <1>1 DEF read_header_name, read_header_value, read_body, parser_stops, Callback
  <1>3. Reading(parts)
    BY <1>2
  <1>4. CASE read_header_name
    BY <1>3, <1>4, NameStep DEF read_header_name
  <1>5. CASE read_header_value
    BY <1>3, <1>5, ValueStep DEF read_header_value
  <1>6. CASE read_body
    BY <1>3, <1>6, BodyStep
  <1>7. CASE parser_stops
    BY <1>7 DEF parser_stops
  <1> QED
    BY <1>1, <1>4, <1>5, <1>6, <1>7

----------------------------------------------------------------------------
(* The property                                                            *)

\* What the reader of a form needs: where it is, and its sections so far.
SectionsInv == MultipartInv /\ SectionsOwnHeaders

\* A request begins without sections.
LEMMA InitSections ==
  ASSUME Init
  PROVE  SectionsInv
  <1>1. req.parts \in Seq(Part)
    BY FormsAssumption DEF Init
  <1>2. MultipartInv
    BY DEF MultipartInv, Init, Constructed
  <1>3. AllSections(req.parts) \in Seq(AnySection)
    BY <1>1, SectionSeqType, FlattenType DEF AllSections, SectionSeq
  <1>4. IsPrefix(<<>>, AllSections(req.parts))
    <2>1. PICK s \in Seq(AnySection) : s = AllSections(req.parts)
      BY <1>3
    <2>2. PICK t \in Seq(AnySection) : t = <<>>
      BY EmptySeq
    <2>3. Len(t) = 0 /\ Len(s) \in Nat
      BY <2>2, LenProperties
    <2>4. Len(t) <= Len(s) /\ \A i \in 1..Len(t) : t[i] = s[i]
      BY <2>3
    <2>5. IsPrefix(t, s)
      BY <2>4, PrefixDef
    <2> QED
      BY <2>1, <2>2, <2>5
  <1> QED
    BY <1>2, <1>4 DEF SectionsInv, SectionsOwnHeaders, Init, Constructed

\* Outside of ingest the reader is left alone.
LEMMA SectionsKept ==
  ASSUME SectionsInv, UNCHANGED <<req, mpvars>>, calls = <<>>,
         pc' \in Handlers \cup {"handle_request"} => pc \in Handlers \cup {"handle_request"}
  PROVE  SectionsInv'
  <1>1. /\ req' = req /\ calls' = calls /\ cur_header_vals' = cur_header_vals
        /\ sections' = sections
    BY DEF mpvars
  <1> QED
    BY <1>1 DEF SectionsInv, MultipartInv, SectionsOwnHeaders

\* The request is the same all the time.
LEMMA ReadingSame ==
  ASSUME NEW parts, req'.parts = parts, Reading(parts)'
  PROVE  Reading(req.parts)'
  <1>1. PICK j \in 1..Len(parts) :
          \E n \in 0..Len(parts[j].headers), half \in 0..1, q \in 0..Len(parts[j].pieces) - 1 :
             ReadingAt(parts, j, n, half, q)'
    BY DEF Reading
  <1>2. PICK n \in 0..Len(parts[j].headers), half \in 0..1, q \in 0..Len(parts[j].pieces) - 1 :
          ReadingAt(parts, j, n, half, q)'
    BY <1>1
  <1>3. ReadingAt(req.parts, j, n, half, q)'
    BY <1>2, Zenon DEF ReadingAt
  <1> QED
    BY <1>3 DEF Reading

\* Every step of a request keeps the sections those of the form.
LEMMA SectionsStep ==
  ASSUME IInv, SectionsInv, [Next]_vars
  PROVE  SectionsInv'
  <1>1. PICK parts : parts = req.parts
    OBVIOUS
  <1>2. parts \in Seq(Part)
    BY <1>1, FormsAssumption DEF IInv, ControlInv
  <1>3. pc \in Pc /\ (calls # <<>> => pc = "ingest")
    BY DEF IInv, TypeOK
  <1>4. /\ pc \in Handlers \cup {"handle_request"} => cur_header_vals = NoEntries /\ sections = <<>>
        /\ calls # <<>> => Reading(parts)
        /\ IsPrefix(sections, AllSections(parts))
    BY <1>1 DEF SectionsInv, MultipartInv, SectionsOwnHeaders
  <1> USE DEF Handlers, Goto, Send, bad_request, postvars
  <1>5. CASE handle_request
    BY <1>3, <1>5, SectionsKept DEF handle_request
  <1>6. CASE handle_file \/ handle_get_template \/ handle_get_url
    BY <1>3, <1>6, SectionsKept DEF handle_file, handle_get_template, handle_get_url
  <1>7. CASE post_refused \/ parse_throws \/ post_urlencoded
    BY <1>3, <1>7, SectionsKept DEF post_refused, parse_throws, post_urlencoded
  <1>8. CASE post_multipart
    <2>1. /\ pc = "handle_post" /\ ingest(parts) /\ req' = req /\ pc' = "ingest"
      BY <1>1, <1>8 DEF post_multipart
    <2>2. calls' # <<>> => Reading(parts)'
      BY <1>2, <1>4, <2>1, IngestStep
    <2>3. sections' = sections /\ req'.parts = parts
      BY <1>1, <2>1 DEF ingest
    <2>4. MultipartInv'
      BY <2>1, <2>2, <2>3, ReadingSame DEF MultipartInv
    <2>5. SectionsOwnHeaders'
      BY <1>4, <2>3 DEF SectionsOwnHeaders
    <2> QED
      BY <2>4, <2>5 DEF SectionsInv
  <1>9. CASE callback
    <2>1. pc' = "ingest" /\ req' = req
      BY <1>9 DEF callback
    <2>2. /\ calls' # <<>> => Reading(parts)'
          /\ IsPrefix(sections', AllSections(parts))
      BY <1>2, <1>4, <1>9, CallbackStep
    <2>3. req'.parts = parts
      BY <1>1, <2>1
    <2>4. MultipartInv'
      BY <2>1, <2>2, <2>3, ReadingSame DEF MultipartInv
    <2>5. SectionsOwnHeaders'
      BY <2>2, <2>3 DEF SectionsOwnHeaders
    <2> QED
      BY <2>4, <2>5 DEF SectionsInv
  <1>10. CASE search_url \/ check_url
    BY <1>3, <1>10, SectionsKept DEF search_url, check_url
  <1>11. CASE generate \/ generated \/ store
    BY <1>3, <1>11, SectionsKept DEF generate, generated, store
  <1>12. CASE UNCHANGED vars
    <2>1. /\ pc' = pc /\ req' = req /\ calls' = calls /\ sections' = sections
          /\ cur_header_name' = cur_header_name /\ cur_header_vals' = cur_header_vals
      BY <1>12 DEF vars, mpvars
    <2>2. ASSUME calls # <<>>
          PROVE  Reading(req.parts)'
      <3>1. PICK j \in 1..Len(parts) :
              \E n \in 0..Len(parts[j].headers), half \in 0..1,
                 q \in 0..Len(parts[j].pieces) - 1 : ReadingAt(parts, j, n, half, q)
        BY <1>4, <2>2 DEF Reading
      <3>2. PICK n \in 0..Len(parts[j].headers), half \in 0..1,
                 q \in 0..Len(parts[j].pieces) - 1 : ReadingAt(parts, j, n, half, q)
        BY <3>1
      <3>3. ReadingAt(parts, j, n, half, q)'
        BY <2>1, <3>2, Zenon DEF ReadingAt
      <3>4. Reading(parts)'
        BY <3>3 DEF Reading
      <3> QED
        BY <1>1, <2>1, <3>4, ReadingSame
    <2>3. MultipartInv'
      BY <1>4, <2>1, <2>2 DEF MultipartInv
    <2>4. SectionsOwnHeaders'
      BY <1>1, <1>4, <2>1 DEF SectionsOwnHeaders
    <2> QED
      BY <2>3, <2>4 DEF SectionsInv
  <1> QED
    BY <1>5, <1>6, <1>7, <1>8, <1>9, <1>10, <1>11, <1>12 DEF Next, handle_post, Ended

\* Every piece of a multipart form becomes one section, in order, and the
\* headers of a part stay with its first piece, for forms with any number of
\* parts, headers and pieces, wherever the parser gives up.
THEOREM RequestSections == Spec => []SectionsOwnHeaders
  <1>1. Init => SectionsInv
    BY InitSections
  <1>2. IInv /\ SectionsInv /\ [Next]_vars => SectionsInv'
    BY SectionsStep
  <1>3. SectionsInv => SectionsOwnHeaders
    BY DEF SectionsInv
  <1> QED
    BY <1>1, <1>2, <1>3, RequestInvariant, PTL DEF Spec
=============================================================================
