----------------------------- MODULE FormProofs -----------------------------
(***************************************************************************)
(* Proofs about the parsers of forms: what a client has written, in any    *)
(* legal encoding, is what handle_post shortens.                           *)
(***************************************************************************)
EXTENDS MultipartProofs

----------------------------------------------------------------------------
(* Texts that are joined and split                                         *)

\* Where the n pieces of a joined text begin and end; begin[m] is the position
\* of the separator before piece m.
Layout(text, ss, sep, n, begin, end) ==
    /\ begin \in [1..n -> Nat] /\ end \in [1..n -> Nat]
    /\ begin[1] = 0 /\ end[n] = Len(text)
    /\ \A m \in 2..n : begin[m] = end[m - 1] + 1 /\ text[begin[m]] = sep
    /\ \A m \in 1..n : /\ end[m] = begin[m] + Len(ss[m]) /\ end[m] <= Len(text)
                       /\ \A k \in 1..Len(ss[m]) : text[begin[m] + k] = ss[m][k]

\* A joined text has its pieces one after the other, with separators between.
LEMMA JoinedDef ==
  ASSUME NEW ss \in Seq(Text), NEW sep \in Nat, NEW n \in Nat \ {0}, n = Len(ss)
  PROVE  /\ Joined(ss, sep) \in Text
         /\ \E begin, end : Layout(Joined(ss, sep), ss, sep, n, begin, end)
  <1>1. PICK pp : pp = [i \in 1..n |-> IF i = 1 THEN ss[i] ELSE <<sep>> \o ss[i]]
    OBVIOUS
  <1>2. PICK J : J = Joined(ss, sep)
    OBVIOUS
  <1>3. DOMAIN ss = 1..n
    BY LenProperties
  <1>4. J = FlattenSeq(pp)
    BY <1>1, <1>2, <1>3 DEF Joined
  <1>5. \A i \in 1..n : ss[i] \in Seq(Nat)
    BY ElementOfSeq DEF Text
  <1>6. ASSUME NEW i \in 1..n
        PROVE  pp[i] \in Seq(Nat)
    BY <1>1, <1>5
  <1>7. pp \in Seq(Seq(Nat)) /\ Len(pp) = n
    <2>1. pp \in [1..n -> Seq(Nat)]
      BY <1>1, <1>6
    <2> QED
      BY <2>1
  <1>8. J \in Seq(Nat)
    BY <1>4, <1>7, FlattenType
  <1>9. \A m \in 0..n : UpTo(pp, m) \in Seq(Nat)
    BY <1>7, UpToType
  <1>10. PICK end : end = [m \in 1..n |-> Len(UpTo(pp, m))]
    OBVIOUS
  <1>11. end \in [1..n -> Nat]
    <2>1. \A m \in 1..n : Len(UpTo(pp, m)) \in Nat
      BY <1>9, LenProperties
    <2> QED
      BY <1>10, <2>1
  <1>12. PICK begin : begin = [m \in 1..n |-> IF m = 1 THEN 0 ELSE end[m - 1] + 1]
    OBVIOUS
  <1>13. begin \in [1..n -> Nat]
    <2>1. ASSUME NEW m \in 1..n, m # 1
          PROVE  end[m - 1] + 1 \in Nat
      <3>1. m - 1 \in 1..n
        BY <2>1
      <3> QED
        BY <1>11, <3>1
    <2> QED
      BY <1>12, <2>1
  <1>14. begin[1] = 0 /\ \A m \in 2..n : begin[m] = end[m - 1] + 1
    BY <1>12
  <1>15. end[n] = Len(J)
    BY <1>4, <1>7, <1>10, UpToEnds
  <1>16. \A m \in 1..n : Len(UpTo(pp, m)) = Len(UpTo(pp, m - 1)) + Len(pp[m])
    <2>1. ASSUME NEW m \in 1..n
          PROVE  Len(UpTo(pp, m)) = Len(UpTo(pp, m - 1)) + Len(pp[m])
      <3>1. UpTo(pp, m) = UpTo(pp, m - 1) \o pp[m]
        BY <1>7, UpToNext
      <3>2. UpTo(pp, m - 1) \in Seq(Nat) /\ pp[m] \in Seq(Nat)
        BY <1>6, <1>9
      <3> QED
        BY <3>1, <3>2, ConcatProperties
    <2> QED
      BY <2>1
  <1>17. \A m \in 1..n, i \in Nat :
           i \in 1..Len(pp[m]) => J[Len(UpTo(pp, m - 1)) + i] = pp[m][i]
    BY <1>4, <1>7, FlattenIndex
  <1>18. ASSUME NEW m \in 1..n
         PROVE  /\ end[m] = begin[m] + Len(ss[m])
                /\ m # 1 => J[begin[m]] = sep
                /\ \A k \in 1..Len(ss[m]) : J[begin[m] + k] = ss[m][k]
    <2>1. PICK l \in Nat : l = Len(ss[m])
      BY <1>5, LenProperties
    <2>2. CASE m = 1
      <3>1. pp[m] = ss[m] /\ begin[m] = 0
        BY <1>1, <1>12, <2>2
      <3>2. Len(UpTo(pp, m - 1)) = 0
        <4>1. UpTo(pp, 0) = <<>> /\ m - 1 = 0
          BY <1>7, <2>2, UpToEnds
        <4> QED
          BY <4>1
      <3>3. end[m] = l
        <4>1. end[m] = Len(UpTo(pp, m))
          BY <1>10
        <4>2. Len(UpTo(pp, m)) = 0 + Len(ss[m])
          BY <1>16, <3>1, <3>2
        <4> QED
          BY <2>1, <4>1, <4>2
      <3>4. ASSUME NEW k \in 1..l
            PROVE  J[k] = ss[m][k]
        <4>1. k \in Nat /\ k \in 1..Len(pp[m]) /\ 0 + k = k
          BY <2>1, <3>1
        <4> QED
          BY <1>17, <3>1, <3>2, <4>1
      <3> QED
        BY <2>1, <2>2, <3>1, <3>3, <3>4
    <2>3. CASE m # 1
      <3>1. m - 1 \in 1..n
        BY <2>3
      <3>2. PICK e \in Nat : e = end[m - 1]
        BY <1>11, <3>1
      <3>3. Len(UpTo(pp, m - 1)) = e /\ begin[m] = e + 1
        BY <1>10, <1>12, <2>3, <3>1, <3>2
      <3>4. PICK t \in Seq(Nat) : t = ss[m]
        BY <1>5
      <3>5. pp[m] = <<sep>> \o t
        BY <1>1, <2>3, <3>4
      <3>6. Len(t) = l
        BY <2>1, <3>4
      <3>7. Len(pp[m]) = l + 1 /\ pp[m][1] = sep /\ \A k \in 1..l : pp[m][k + 1] = t[k]
        BY <3>5, <3>6
      <3>8. end[m] = (e + 1) + l
        <4>1. end[m] = Len(UpTo(pp, m))
          BY <1>10
        <4>2. Len(UpTo(pp, m)) = e + Len(pp[m])
          BY <1>16, <3>3
        <4> QED
          BY <3>7, <4>1, <4>2
      <3>9. J[e + 1] = sep
        <4>1. 1 \in Nat /\ 1 \in 1..Len(pp[m])
          BY <3>7
        <4> QED
          BY <1>17, <3>3, <3>7, <4>1
      <3>10. ASSUME NEW k \in 1..l
             PROVE  J[(e + 1) + k] = t[k]
        <4>1. k + 1 \in Nat /\ k + 1 \in 1..Len(pp[m]) /\ e + (k + 1) = (e + 1) + k
          BY <3>7
        <4>2. J[e + (k + 1)] = pp[m][k + 1]
          BY <1>17, <3>3, <4>1
        <4> QED
          BY <3>7, <4>1, <4>2
      <3> QED
        BY <2>1, <3>3, <3>4, <3>8, <3>9, <3>10
    <2> QED
      BY <2>2, <2>3
  <1>19. \A m \in 2..n : J[begin[m]] = sep
    BY <1>18
  <1>20. ASSUME NEW m \in 1..n
         PROVE  end[m] <= Len(J)
    <2>1. UpTo(pp, m) \in Seq(Nat) /\ IsPrefix(UpTo(pp, m), J)
      BY <1>4, <1>7, <1>9, UpToPrefix
    <2>2. Len(UpTo(pp, m)) <= Len(J)
      BY <1>8, <2>1, PrefixDef
    <2> QED
      BY <1>10, <2>2
  <1>21. Layout(J, ss, sep, n, begin, end)
    BY <1>11, <1>13, <1>14, <1>15, <1>18, <1>19, <1>20 DEF Layout
  <1> QED
    BY <1>2, <1>8, <1>21 DEF Text

\* The equation of the function in Split, as far as position n.
IsCuts(f, s, sep, n) ==
    f = [i \in 0..n |-> IF i = 0 THEN <<0>>
                        ELSE IF s[i] = sep THEN Append(f[i - 1], i) ELSE f[i - 1]]

\* The recursion of Split (boost::split) has a solution for every text.
LEMMA CutsExist ==
  ASSUME NEW s, NEW sep, NEW n \in Nat
  PROVE  \E f : IsCuts(f, s, sep, n)
  <1> DEFINE K == {k \in Nat : \E f : IsCuts(f, s, sep, k)}
  <1>1. 0 \in K
    <2> DEFINE f == [i \in 0..0 |-> <<0>>]
    <2>1. IsCuts(f, s, sep, 0)
      BY DEF IsCuts
    <2> QED
      BY <2>1
  <1>2. ASSUME NEW k \in Nat, k \in K
        PROVE  k + 1 \in K
    <2>1. PICK f : IsCuts(f, s, sep, k)
      BY <1>2
    <2> DEFINE v == [i \in 0..k + 1 |-> IF i <= k THEN f[i]
                                        ELSE IF s[i] = sep THEN Append(f[k], i) ELSE f[k]]
               u == [i \in 0..k + 1 |-> IF i = 0 THEN <<0>>
                       ELSE IF s[i] = sep THEN Append(v[i - 1], i) ELSE v[i - 1]]
    <2>2. \A i \in 0..k : f[i] = IF i = 0 THEN <<0>>
                                 ELSE IF s[i] = sep THEN Append(f[i - 1], i) ELSE f[i - 1]
      BY <2>1 DEF IsCuts
    <2>3. ASSUME NEW i \in 0..k + 1
          PROVE  v[i] = IF i = 0 THEN <<0>>
                        ELSE IF s[i] = sep THEN Append(v[i - 1], i) ELSE v[i - 1]
      <3>1. CASE i \in 0..k
        BY <2>2, <3>1
      <3>2. CASE i = k + 1
        BY <3>2
      <3> QED
        BY <3>1, <3>2
    <2>4. v = u
      BY <2>3
    <2>5. IsCuts(v, s, sep, k + 1)
      BY <2>4 DEF IsCuts
    <2> QED
      BY <2>5
  <1> HIDE DEF K
  <1>3. n \in K
    BY <1>1, <1>2, SetInduction
  <1> QED
    BY <1>3 DEF K

\* The pieces between two cuts.
Between(s, cuts) == [i \in 1..Len(cuts) - 1 |-> SubSeq(s, cuts[i] + 1, cuts[i + 1] - 1)]

\* The cuts that are found, position by position.
Scan(f, s, sep, n) ==
    /\ f[0] = <<0>>
    /\ \A i \in 1..n : f[i] = IF s[i] = sep THEN Append(f[i - 1], i) ELSE f[i - 1]

\* What Split returns: the texts between the cuts that its scan has found.
LEMMA SplitDef ==
  ASSUME NEW s, NEW sep, NEW n \in Nat, n = Len(s)
  PROVE  \E f : Split(s, sep) = Between(s, Append(f[n], n + 1)) /\ Scan(f, s, sep, n)
  <1>1. PICK f : f = CHOOSE g : IsCuts(g, s, sep, n)
    OBVIOUS
  <1>2. Split(s, sep) = Between(s, Append(f[n], n + 1))
    BY <1>1 DEF Split, IsCuts, Between
  <1>3. IsCuts(f, s, sep, n)
    BY <1>1, CutsExist
  <1>4. f = [i \in 0..n |-> IF i = 0 THEN <<0>>
                            ELSE IF s[i] = sep THEN Append(f[i - 1], i) ELSE f[i - 1]]
    BY <1>3 DEF IsCuts
  <1>5. f[0] = <<0>>
    BY <1>4
  <1>6. ASSUME NEW i \in 1..n
        PROVE  f[i] = IF s[i] = sep THEN Append(f[i - 1], i) ELSE f[i - 1]
    <2>1. i \in 0..n /\ i # 0
      OBVIOUS
    <2> QED
      BY <1>4, <2>1
  <1>7. Scan(f, s, sep, n)
    BY <1>5, <1>6 DEF Scan
  <1> QED
    BY <1>2, <1>7

\* No separator among the l positions after a.
Clean(s, sep, a, l) == \A k \in 1..l : s[a + k] # sep

\* Without separators nothing is cut.
LEMMA CutsStay ==
  ASSUME NEW s, NEW sep, NEW n \in Nat, NEW f, Scan(f, s, sep, n),
         NEW a \in Nat, NEW l \in Nat, a + l <= n, Clean(s, sep, a, l)
  PROVE  f[a + l] = f[a]
  <1> DEFINE K == {k \in Nat : k <= l => f[a + k] = f[a]}
  <1>1. 0 \in K
    BY DEF K
  <1>2. ASSUME NEW k \in Nat, k \in K
        PROVE  k + 1 \in K
    <2>1. CASE k + 1 <= l
      <3>1. k + 1 \in 1..l /\ a + (k + 1) \in 1..n /\ (a + (k + 1)) - 1 = a + k
        BY <2>1
      <3>2. f[a + (k + 1)] = f[a + k]
        BY <3>1 DEF Scan, Clean
      <3>3. f[a + k] = f[a]
        BY <1>2, <2>1
      <3> QED
        BY <3>2, <3>3
    <2>2. CASE ~(k + 1 <= l)
      BY <2>2
    <2> QED
      BY <2>1, <2>2
  <1> HIDE DEF K
  <1>3. l \in K
    BY <1>1, <1>2, SetInduction
  <1> QED
    BY <1>3 DEF K

\* No piece has a separator.
Free(ss, sep) == \A m \in 1..Len(ss) : \A k \in 1..Len(ss[m]) : ss[m][k] # sep

\* Splitting undoes joining.
LEMMA SplitJoined ==
  ASSUME NEW ss \in Seq(Text), ss # <<>>, NEW sep \in Nat, Free(ss, sep)
  PROVE  Split(Joined(ss, sep), sep) = ss
  <1>1. PICK p \in Nat \ {0} : p = Len(ss)
    BY EmptySeq, LenProperties
  <1>2. PICK J \in Text : J = Joined(ss, sep)
    BY <1>1, JoinedDef
  <1>3. PICK begin, end : Layout(J, ss, sep, p, begin, end)
    BY <1>1, <1>2, JoinedDef
  <1>4. PICK n \in Nat : n = Len(J)
    BY LenProperties DEF Text
  <1>5. /\ begin \in [1..p -> Nat] /\ end \in [1..p -> Nat]
        /\ begin[1] = 0 /\ end[p] = n
        /\ \A m \in 2..p : begin[m] = end[m - 1] + 1 /\ J[begin[m]] = sep
        /\ \A m \in 1..p : /\ end[m] = begin[m] + Len(ss[m]) /\ end[m] <= n
                           /\ \A k \in 1..Len(ss[m]) : J[begin[m] + k] = ss[m][k]
    BY <1>3, <1>4 DEF Layout
  <1>6. PICK f : Split(J, sep) = Between(J, Append(f[n], n + 1)) /\ Scan(f, J, sep, n)
    BY <1>4, SplitDef
  <1>7. ASSUME NEW m \in 1..p
        PROVE  f[end[m]] = f[begin[m]]
    <2>1. PICK l \in Nat : l = Len(ss[m])
      BY <1>1, ElementOfSeq, LenProperties DEF Text
    <2>2. PICK b \in Nat : b = begin[m]
      BY <1>5
    <2>3. end[m] = b + l /\ b + l <= n /\ \A k \in 1..l : J[b + k] = ss[m][k]
      BY <1>5, <2>1, <2>2
    <2>4. \A k \in 1..l : J[b + k] # sep
      BY <1>1, <2>1, <2>3 DEF Free
    <2>5. f[b + l] = f[b]
      <3>1. b + l <= n /\ Scan(f, J, sep, n)
        BY <1>6, <2>3
      <3>2. Clean(J, sep, b, l)
        BY <2>4 DEF Clean
      <3> QED
        BY <3>1, <3>2, CutsStay
    <2> QED
      BY <2>2, <2>3, <2>5
  <1> DEFINE K == {m \in Nat : m + 1 <= p =>
                     /\ f[end[m + 1]] \in Seq(Nat) /\ Len(f[end[m + 1]]) = m + 1
                     /\ \A i \in 1..m + 1 : f[end[m + 1]][i] = begin[i]}
  <1>8. 0 \in K
    <2>1. 1 \in 1..p /\ 0 + 1 = 1
      OBVIOUS
    <2>2. f[end[1]] = <<0>>
      BY <1>5, <1>6, <1>7, <2>1 DEF Scan
    <2>3. f[end[1]] \in Seq(Nat) /\ Len(f[end[1]]) = 1 /\ \A i \in 1..1 : f[end[1]][i] = begin[i]
      BY <1>5, <2>2
    <2> QED
      BY <2>1, <2>3
  <1>9. ASSUME NEW m \in Nat, m \in K
        PROVE  m + 1 \in K
    <2>1. CASE m + 2 <= p
      <3>1. m + 1 \in 1..p /\ m + 2 \in 1..p /\ m + 2 \in 2..p /\ (m + 2) - 1 = m + 1
        BY <2>1
      <3>2. PICK e \in Nat : e = end[m + 1]
        BY <1>5, <3>1
      <3>3. PICK b \in Nat : b = begin[m + 2]
        BY <1>5, <3>1
      <3>4. b = e + 1 /\ J[b] = sep
        BY <1>5, <3>1, <3>2, <3>3
      <3>5. b <= n
        <4>1. PICK l \in Nat : l = Len(ss[m + 2])
          BY <1>1, <3>1, ElementOfSeq, LenProperties DEF Text
        <4>2. end[m + 2] = b + l /\ end[m + 2] <= n
          BY <1>5, <3>1, <3>3, <4>1
        <4> QED
          BY <4>2
      <3>6. b \in 1..n /\ b - 1 = e
        BY <3>4, <3>5
      <3>7. f[b] = Append(f[e], b)
        BY <1>6, <3>4, <3>6 DEF Scan
      <3>8. f[end[m + 2]] = Append(f[e], b)
        BY <1>7, <3>1, <3>3, <3>7
      <3>9. PICK c \in Seq(Nat) : c = f[e]
        BY <1>9, <3>1, <3>2
      <3>10. Len(c) = m + 1 /\ \A i \in 1..m + 1 : c[i] = begin[i]
        BY <1>9, <3>1, <3>2, <3>9
      <3>11. PICK d : d = Append(c, b)
        OBVIOUS
      <3>12. /\ d \in Seq(Nat) /\ Len(d) = m + 2 /\ d[m + 2] = b
             /\ \A i \in 1..m + 1 : d[i] = c[i]
        BY <3>10, <3>11
      <3>13. ASSUME NEW i \in 1..m + 2
             PROVE  d[i] = begin[i]
        <4>1. CASE i = m + 2
          BY <3>3, <3>12, <4>1
        <4>2. CASE i \in 1..m + 1
          BY <3>10, <3>12, <4>2
        <4> QED
          BY <4>1, <4>2
      <3>14. f[end[m + 2]] = d /\ (m + 1) + 1 = m + 2
        BY <3>8, <3>9, <3>11
      <3> QED
        BY <3>12, <3>13, <3>14
    <2>2. CASE ~(m + 2 <= p)
      BY <2>2
    <2> QED
      BY <2>1, <2>2
  <1> HIDE DEF K
  <1>10. p - 1 \in K
    BY <1>8, <1>9, SetInduction
  <1>11. /\ f[n] \in Seq(Nat) /\ Len(f[n]) = p /\ \A i \in 1..p : f[n][i] = begin[i]
    <2>1. p - 1 \in Nat /\ (p - 1) + 1 = p
      OBVIOUS
    <2> QED
      BY <1>5, <1>10, <2>1 DEF K
  <1>12. PICK cuts : cuts = Append(f[n], n + 1)
    OBVIOUS
  <1>13. /\ cuts \in Seq(Nat) /\ Len(cuts) = p + 1 /\ cuts[p + 1] = n + 1
         /\ \A i \in 1..p : cuts[i] = begin[i]
    <2>1. PICK c \in Seq(Nat) : c = f[n]
      BY <1>11
    <2>2. Len(c) = p /\ \A i \in 1..p : c[i] = begin[i]
      BY <1>11, <2>1
    <2>3. cuts = Append(c, n + 1)
      BY <1>12, <2>1
    <2> QED
      BY <2>2, <2>3
  <1>14. ASSUME NEW i \in 1..p
         PROVE  SubSeq(J, cuts[i] + 1, cuts[i + 1] - 1) = ss[i]
    <2>1. PICK l \in Nat : l = Len(ss[i])
      BY <1>1, ElementOfSeq, LenProperties DEF Text
    <2>2. PICK b \in Nat : b = begin[i]
      BY <1>5
    <2>3. cuts[i] = b
      BY <1>13, <2>2
    <2>4. end[i] = b + l /\ b + l <= n
      BY <1>5, <2>1, <2>2
    <2>5. cuts[i + 1] = (b + l) + 1
      <3>1. CASE i = p
        BY <1>5, <1>13, <2>4, <3>1
      <3>2. CASE i # p
        <4>1. i + 1 \in 1..p /\ i + 1 \in 2..p /\ (i + 1) - 1 = i
          BY <3>2
        <4>2. cuts[i + 1] = end[i] + 1
          BY <1>5, <1>13, <4>1
        <4> QED
          BY <2>4, <4>2
      <3> QED
        BY <3>1, <3>2
    <2>6. cuts[i] + 1 = b + 1 /\ cuts[i + 1] - 1 = b + l
      BY <2>3, <2>5
    <2>7. PICK t : t = SubSeq(J, b + 1, b + l)
      OBVIOUS
    <2>8. \A k \in b + 1..b + l : J[k] \in Nat
      BY <1>4, <2>4, ElementOfSeq DEF Text
    <2>9. /\ t \in Seq(Nat) /\ Len(t) = l
          /\ \A k \in 1..l : t[k] = J[b + k]
      <3>1. /\ t \in Seq(Nat) /\ Len(t) = IF b + 1 <= b + l THEN (b + l) - (b + 1) + 1 ELSE 0
            /\ \A k \in 1..(b + l) - (b + 1) + 1 : t[k] = J[(b + 1) + k - 1]
        BY <2>7, <2>8, SubSeqProperties
      <3>2. (b + l) - (b + 1) + 1 = l /\ \A k \in 1..l : (b + 1) + k - 1 = b + k
        OBVIOUS
      <3> QED
        BY <3>1, <3>2
    <2>10. PICK u \in Seq(Nat) : u = ss[i]
      BY <1>1, ElementOfSeq DEF Text
    <2>11. \A k \in 1..l : J[b + k] = u[k]
      BY <1>5, <2>1, <2>2, <2>10
    <2>12. Len(u) = l /\ \A k \in 1..l : t[k] = u[k]
      BY <2>1, <2>9, <2>10, <2>11
    <2>13. t = u
      BY <2>9, <2>12, SeqEqual
    <2> QED
      BY <2>6, <2>7, <2>10, <2>13
  <1>15. Between(J, cuts) = [i \in 1..p |-> SubSeq(J, cuts[i] + 1, cuts[i + 1] - 1)]
    <2>1. Len(cuts) - 1 = p
      BY <1>13
    <2> QED
      BY <2>1 DEF Between
  <1>16. Between(J, cuts) = ss
    <2>1. ss = [i \in 1..p |-> ss[i]]
      BY <1>1
    <2> QED
      BY <1>14, <1>15, <2>1
  <1> QED
    BY <1>2, <1>6, <1>12, <1>16

\* The separators of a joined text, one fewer than its pieces.
LEMMA CountSeparators ==
  ASSUME NEW ss \in Seq(Text), ss # <<>>, NEW sep \in Nat, Free(ss, sep)
  PROVE  Cardinality({i \in DOMAIN Joined(ss, sep) : Joined(ss, sep)[i] = sep}) = Len(ss) - 1
  <1>1. PICK p \in Nat \ {0} : p = Len(ss)
    BY EmptySeq, LenProperties
  <1>2. PICK J \in Text : J = Joined(ss, sep)
    BY <1>1, JoinedDef
  <1>3. PICK begin, end : Layout(J, ss, sep, p, begin, end)
    BY <1>1, <1>2, JoinedDef
  <1>4. PICK n \in Nat : n = Len(J) /\ DOMAIN J = 1..n
    BY LenProperties DEF Text
  <1>5. /\ begin \in [1..p -> Nat] /\ end \in [1..p -> Nat]
        /\ begin[1] = 0 /\ end[p] = n
        /\ \A m \in 2..p : begin[m] = end[m - 1] + 1 /\ J[begin[m]] = sep
        /\ \A m \in 1..p : /\ end[m] = begin[m] + Len(ss[m]) /\ end[m] <= n
                           /\ \A k \in 1..Len(ss[m]) : J[begin[m] + k] = ss[m][k]
    BY <1>3, <1>4 DEF Layout
  <1> DEFINE S(m) == {i \in 1..m : J[i] = sep}
  <1>6. ASSUME NEW m \in 1..p, NEW i \in begin[m] + 1..end[m]
        PROVE  J[i] # sep
    <2>1. PICK l \in Nat : l = Len(ss[m])
      BY <1>1, ElementOfSeq, LenProperties DEF Text
    <2>2. PICK b \in Nat : b = begin[m]
      BY <1>5
    <2>3. end[m] = b + l /\ \A k \in 1..l : J[b + k] = ss[m][k]
      BY <1>5, <2>1, <2>2
    <2>4. i \in b + 1..b + l
      BY <2>2, <2>3
    <2>5. PICK k \in 1..l : i = b + k
      <3>1. i - b \in 1..l /\ i = b + (i - b)
        BY <2>4
      <3> QED
        BY <3>1
    <2> QED
      BY <1>1, <2>1, <2>3, <2>5 DEF Free
  <1> DEFINE K == {m \in Nat : m + 1 <= p =>
                     IsFiniteSet(S(end[m + 1])) /\ Cardinality(S(end[m + 1])) = m}
  <1>7. 0 \in K
    <2>1. 1 \in 1..p /\ 0 + 1 = 1
      OBVIOUS
    <2>2. S(end[1]) = {}
      BY <1>5, <1>6, <2>1
    <2> QED
      BY <2>1, <2>2, FS_EmptySet
  <1>8. ASSUME NEW m \in Nat, m \in K
        PROVE  m + 1 \in K
    <2>1. CASE m + 2 <= p
      <3>1. m + 1 \in 1..p /\ m + 2 \in 1..p /\ m + 2 \in 2..p /\ (m + 2) - 1 = m + 1
        BY <2>1
      <3>2. PICK e \in Nat : e = end[m + 1]
        BY <1>5, <3>1
      <3>3. PICK d \in Nat : d = end[m + 2]
        BY <1>5, <3>1
      <3>4. begin[m + 2] = e + 1 /\ J[e + 1] = sep
        <4>1. PICK k \in 2..p : k = m + 2
          BY <3>1
        <4>2. k - 1 = m + 1
          BY <4>1
        <4>3. begin[k] = end[k - 1] + 1 /\ J[begin[k]] = sep
          BY <1>5
        <4>4. begin[k] = e + 1
          BY <3>2, <4>2, <4>3
        <4> QED
          BY <4>1, <4>3, <4>4
      <3>5. e + 1 <= d
        <4>1. PICK l \in Nat : l = Len(ss[m + 2])
          BY <1>1, <3>1, ElementOfSeq, LenProperties DEF Text
        <4>2. d = (e + 1) + l
          BY <1>5, <3>1, <3>3, <3>4, <4>1
        <4> QED
          BY <4>2
      <3>6. \A i \in (e + 1) + 1..d : J[i] # sep
        BY <1>6, <3>1, <3>3, <3>4
      <3>7. S(d) = S(e) \cup {e + 1}
        <4>1. ASSUME NEW i
              PROVE  i \in S(d) <=> i \in S(e) \cup {e + 1}
          <5>1. i \in 1..d <=> i \in 1..e \/ i = e + 1 \/ i \in (e + 1) + 1..d
            BY <3>5
          <5>2. i \in 1..e \/ i = e + 1 => i \in 1..d
            BY <3>5
          <5> QED
            BY <3>4, <3>6, <5>1, <5>2
        <4> QED
          BY <4>1
      <3>8. e + 1 \notin S(e)
        OBVIOUS
      <3>9. IsFiniteSet(S(e)) /\ Cardinality(S(e)) = m
        BY <1>8, <3>1, <3>2
      <3> HIDE DEF S
      <3>10. IsFiniteSet(S(e) \cup {e + 1}) /\ Cardinality(S(e) \cup {e + 1}) = m + 1
        BY <3>8, <3>9, FS_AddElement
      <3>11. (m + 1) + 1 = m + 2 /\ IsFiniteSet(S(end[m + 2])) /\ Cardinality(S(end[m + 2])) = m + 1
        BY <3>3, <3>7, <3>10
      <3> QED
        BY <3>11
    <2>2. CASE ~(m + 2 <= p)
      BY <2>2
    <2> QED
      BY <2>1, <2>2
  <1> HIDE DEF K
  <1>9. p - 1 \in K
    BY <1>7, <1>8, SetInduction
  <1>10. Cardinality(S(n)) = p - 1
    <2>1. p - 1 \in Nat /\ (p - 1) + 1 = p
      OBVIOUS
    <2>2. Cardinality(S(end[p])) = p - 1
      BY <1>9, <2>1 DEF K
    <2> QED
      BY <1>5, <2>2
  <1> QED
    BY <1>1, <1>2, <1>4, <1>10


----------------------------------------------------------------------------
(* Urlencoded fields                                                       *)

\* The codes of one byte: what they are made of, and that they are not empty.
LEMMA CodeDef ==
  ASSUME NEW code, NEW c \in Nat, IsCode(code, c)
  PROVE  /\ code \in Seq(Nat \ {Amp}) /\ Len(code) > 0
         /\ code # <<Equals>> => code \in Seq(Nat \ {Amp, Equals})
  <1>1. CASE code = <<c>> /\ c \notin {Percent, Plus, Amp}
    BY <1>1
  <1>2. CASE code = <<Plus>> /\ c = Space
    <2>1. Plus \in Nat \ {Amp, Equals} /\ Plus \in Nat \ {Amp}
      BY DEF Plus, Amp, Equals
    <2> QED
      BY <1>2, <2>1
  <1>3. ASSUME c < 256, NEW h \in Digits(c \div 16), NEW l \in Digits(c % 16),
               code = <<Percent, h, l>>
        PROVE  code \in Seq(Nat \ {Amp}) /\ Len(code) > 0 /\ code \in Seq(Nat \ {Amp, Equals})
    <2>1. c \div 16 \in 0..15 /\ c % 16 \in 0..15
      BY <1>3
    <2>2. h \in 48..57 \cup 65..70 \cup 97..102 /\ l \in 48..57 \cup 65..70 \cup 97..102
      BY <2>1 DEF Digits
    <2>3. /\ Percent \in Nat \ {Amp, Equals} /\ h \in Nat \ {Amp, Equals} /\ l \in Nat \ {Amp, Equals}
          /\ Percent \in Nat \ {Amp} /\ h \in Nat \ {Amp} /\ l \in Nat \ {Amp}
      BY <2>2 DEF Percent, Amp, Equals
    <2> QED
      BY <1>3, <2>3
  <1> QED
    BY <1>1, <1>2, <1>3 DEF IsCode

\* Quoted text has no ampersand, and no equals sign that is left as it is.
LEMMA QuotingType ==
  ASSUME NEW codes \in Seq(Text), NEW text \in Text, IsQuoting(codes, text)
  PROVE  /\ codes \in Seq(Seq(Nat \ {Amp}))
         /\ (\A i \in DOMAIN codes : codes[i] # <<Equals>>) =>
               codes \in Seq(Seq(Nat \ {Amp, Equals}))
  <1>1. PICK n \in Nat : n = Len(text)
    BY LenProperties DEF Text
  <1>2. Len(codes) = n /\ \A i \in 1..n : IsCode(codes[i], text[i])
    BY <1>1, LenProperties DEF IsQuoting, Text
  <1>3. DOMAIN codes = 1..n /\ codes \in [1..n -> Text]
    BY <1>2, LenProperties
  <1>4. \A i \in 1..n : text[i] \in Nat
    BY <1>1, ElementOfSeq DEF Text
  <1>5. ASSUME NEW i \in 1..n
        PROVE  /\ codes[i] \in Seq(Nat \ {Amp})
               /\ codes[i] # <<Equals>> => codes[i] \in Seq(Nat \ {Amp, Equals})
    BY <1>2, <1>4, CodeDef
  <1>6. codes \in [1..n -> Seq(Nat \ {Amp})]
    BY <1>3, <1>5
  <1>7. ASSUME \A i \in DOMAIN codes : codes[i] # <<Equals>>
        PROVE  codes \in [1..n -> Seq(Nat \ {Amp, Equals})]
    BY <1>3, <1>5, <1>7
  <1> QED
    BY <1>6, <1>7

\* A field: text without an ampersand, divided by its first equals sign.
LEMMA FieldType ==
  ASSUME NEW f \in FormField, IsFormField(f)
  PROVE  /\ FlattenSeq(f.names) \in Seq(Nat \ {Amp, Equals})
         /\ FlattenSeq(f.values) \in Seq(Nat \ {Amp})
         /\ FieldText(f) \in Text /\ Len(FieldText(f)) > 0
         /\ \A k \in 1..Len(FieldText(f)) : FieldText(f)[k] # Amp
  <1>1. f.names \in Seq(Text) /\ f.values \in Seq(Text) /\ f.name \in Text /\ f.value \in Text
    BY DEF FormField
  <1>2. /\ IsQuoting(f.names, f.name) /\ IsQuoting(f.values, f.value)
        /\ \A i \in DOMAIN f.names : f.names[i] # <<Equals>>
    BY DEF IsFormField
  <1>3. f.names \in Seq(Seq(Nat \ {Amp, Equals})) /\ f.values \in Seq(Seq(Nat \ {Amp}))
    BY <1>1, <1>2, QuotingType
  <1>4. PICK a : a = FlattenSeq(f.names)
    OBVIOUS
  <1>5. PICK b : b = FlattenSeq(f.values)
    OBVIOUS
  <1>6. a \in Seq(Nat \ {Amp, Equals})
    BY <1>3, <1>4, FlattenType
  <1>7. b \in Seq(Nat \ {Amp})
    BY <1>3, <1>5, FlattenType
  <1>8. PICK s : s = a \o <<Equals>> \o b
    OBVIOUS
  <1>9. s \in Seq(Nat \ {Amp}) /\ Len(s) > 0
    <2>1. a \in Seq(Nat \ {Amp})
      BY <1>6
    <2>2. Equals \in Nat \ {Amp}
      BY DEF Equals, Amp
    <2>3. PICK e : e = <<Equals>>
      OBVIOUS
    <2> e \in Seq(Nat \ {Amp}) /\ Len(e) = 1
      BY <2>2, <2>3
    <2>4. a \o e \in Seq(Nat \ {Amp}) /\ Len(a \o e) = Len(a) + 1
      BY <2>1, <2>3, ConcatProperties
    <2>5. s \in Seq(Nat \ {Amp}) /\ Len(s) = (Len(a) + 1) + Len(b)
      BY <1>7, <1>8, <2>3, <2>4, ConcatProperties
    <2>6. Len(a) \in Nat /\ Len(b) \in Nat
      BY <1>7, <2>1, LenProperties
    <2> QED
      BY <2>5, <2>6
  <1>10. s \in Text /\ \A k \in 1..Len(s) : s[k] # Amp
    BY <1>9, ElementOfSeq DEF Text
  <1>11. s = FieldText(f)
    BY <1>4, <1>5, <1>8 DEF FieldText
  <1> QED
    BY <1>4, <1>5, <1>6, <1>7, <1>9, <1>10, <1>11

\* The fields of a form, as they are joined in its body.
FieldTexts(form) == [i \in DOMAIN form |-> FieldText(form[i])]

\* An urlencoded body is its fields, none empty, joined by ampersands that occur
\* in none of them.
LEMMA BodyType ==
  ASSUME NEW body, NEW form, IsUrlEncoding(body, form), form # <<>>
  PROVE  /\ FieldTexts(form) \in Seq(Text) /\ FieldTexts(form) # <<>>
         /\ Len(FieldTexts(form)) = Len(form)
         /\ body = Joined(FieldTexts(form), Amp)
         /\ \A m \in 1..Len(form) : FieldTexts(form)[m] = FieldText(form[m])
         /\ \A m \in 1..Len(form) : FieldTexts(form)[m] # <<>>
         /\ Free(FieldTexts(form), Amp)
  <1>1. /\ form \in Seq(FormField) /\ \A i \in DOMAIN form : IsFormField(form[i])
        /\ body = UrlEncodedBody(form)
    BY DEF IsUrlEncoding
  <1>2. PICK n \in Nat \ {0} : n = Len(form)
    BY <1>1, EmptySeq, LenProperties
  <1>3. DOMAIN form = 1..n
    BY <1>1, <1>2, LenProperties
  <1>4. PICK ss : ss = FieldTexts(form)
    OBVIOUS
  <1>5. ss = [i \in 1..n |-> FieldText(form[i])]
    BY <1>3, <1>4 DEF FieldTexts
  <1>6. ASSUME NEW i \in 1..n
        PROVE  /\ ss[i] = FieldText(form[i]) /\ ss[i] \in Text /\ Len(ss[i]) > 0
               /\ \A k \in 1..Len(ss[i]) : ss[i][k] # Amp
    <2>1. form[i] \in FormField /\ IsFormField(form[i])
      BY <1>1, <1>2, <1>3, ElementOfSeq
    <2>2. ss[i] = FieldText(form[i])
      BY <1>5
    <2> QED
      BY <2>1, <2>2, FieldType
  <1>7. ss \in [1..n -> Text]
    BY <1>5, <1>6
  <1>8. ss \in Seq(Text) /\ Len(ss) = n
    BY <1>7
  <1>9. ss # <<>>
    BY <1>8
  <1>10. ASSUME NEW i \in 1..n
         PROVE  ss[i] # <<>>
    <2>1. ss[i] \in Seq(Nat) /\ Len(ss[i]) > 0
      BY <1>6 DEF Text
    <2> QED
      BY <2>1
  <1>11. body = Joined(ss, Amp)
    BY <1>1, <1>4 DEF UrlEncodedBody, FieldTexts
  <1>12. Free(ss, Amp)
    BY <1>6, <1>8 DEF Free
  <1> QED
    BY <1>2, <1>4, <1>6, <1>8, <1>9, <1>10, <1>11, <1>12

\* The limit is for the separators of a body, one fewer than its fields.
LEMMA ExceedsDef ==
  ASSUME NEW body, NEW form, IsUrlEncoding(body, form), form # <<>>, NEW limit
  PROVE  Len(form) \in Nat /\ (exceeds(body, limit) <=> Len(form) - 1 > limit)
  <1>1. PICK ss : ss = FieldTexts(form)
    OBVIOUS
  <1>2. /\ ss \in Seq(Text) /\ ss # <<>> /\ Len(ss) = Len(form)
        /\ body = Joined(ss, Amp) /\ Free(ss, Amp)
    BY <1>1, BodyType
  <1>3. PICK sep \in Nat : sep = Amp
    BY DEF Amp
  <1>4. Free(ss, sep)
    BY <1>2, <1>3
  <1>5. Cardinality({i \in DOMAIN Joined(ss, sep) : Joined(ss, sep)[i] = sep}) = Len(ss) - 1
    BY <1>2, <1>4, CountSeparators
  <1>6. exceeds(body, limit) <=> Len(ss) - 1 > limit
    BY <1>2, <1>3, <1>5 DEF exceeds
  <1> QED
    BY <1>2, <1>6, LenProperties


----------------------------------------------------------------------------
(* The first position of a byte                                            *)

\* The minimum of a set of numbers is its member that no other is below.
LEMMA LeastOf ==
  ASSUME NEW T \in SUBSET Nat, NEW a \in T, \A m \in T : a <= m
  PROVE  Min(T) = a
  <1>1. Min(T) \in T /\ \A m \in T : Min(T) <= m
    BY DEF Min
  <1>2. PICK b \in Nat : b = Min(T)
    BY <1>1
  <1>3. a <= b /\ b <= a /\ a \in Nat
    BY <1>1, <1>2
  <1> QED
    BY <1>2, <1>3

\* std::string::find returns the first position of a byte.
LEMMA FindFirst ==
  ASSUME NEW s, NEW c, NEW n \in Nat, n = Len(s), NEW a \in 1..n, s[a] = c,
         \A i \in 1..a - 1 : s[i] # c
  PROVE  Find(s, c) = a
  <1>1. PICK T : T = {i \in 1..n : s[i] = c}
    OBVIOUS
  <1>2. T \in SUBSET Nat /\ a \in T
    BY <1>1
  <1>3. ASSUME NEW m \in T
        PROVE  a <= m
    <2>1. m \in 1..n /\ s[m] = c
      BY <1>1
    <2>2. m \notin 1..a - 1
      BY <2>1
    <2> QED
      BY <2>1, <2>2
  <1>4. Min(T) = a
    BY <1>2, <1>3, LeastOf
  <1>5. Find(s, c) = IF T # {} THEN Min(T) ELSE 0
    BY <1>1 DEF Find, SelectInSeq
  <1> QED
    BY <1>2, <1>4, <1>5

\* std::string::find returns nothing for a byte that does not occur.
LEMMA FindNone ==
  ASSUME NEW s, NEW c, NEW n \in Nat, n = Len(s), \A i \in 1..n : s[i] # c
  PROVE  Find(s, c) = 0
  <1>1. {i \in 1..n : s[i] = c} = {}
    OBVIOUS
  <1> QED
    BY <1>1 DEF Find, SelectInSeq

\* The rest of a sequence after its first k elements.
LEMMA Suffix ==
  ASSUME NEW T, NEW s \in Seq(T), NEW k \in 0..Len(s)
  PROVE  /\ SubSeq(s, k + 1, Len(s)) \in Seq(T) /\ Len(SubSeq(s, k + 1, Len(s))) = Len(s) - k
         /\ \A i \in 1..Len(s) - k : SubSeq(s, k + 1, Len(s))[i] = s[k + i]
  OBVIOUS

\* A text is cut in two by the first occurrence of a byte.
LEMMA FindCuts ==
  ASSUME NEW a \in Text, NEW b \in Text, NEW c \in Nat, \A i \in 1..Len(a) : a[i] # c,
         NEW s, s = a \o <<c>> \o b
  PROVE  /\ Len(a) \in Nat /\ Find(s, c) = Len(a) + 1
         /\ Before(s, Len(a) + 1) = a /\ After(s, Len(a) + 1) = b
  <1>1. PICK l \in Nat : l = Len(a)
    BY LenProperties DEF Text
  <1>2. PICK m \in Nat : m = Len(b)
    BY LenProperties DEF Text
  <1>3. PICK t : t = a \o <<c>>
    OBVIOUS
  <1>4. /\ t \in Seq(Nat) /\ Len(t) = l + 1 /\ t[l + 1] = c
        /\ \A i \in 1..l : t[i] = a[i]
    BY <1>1, <1>3 DEF Text
  <1>5. s = t \o b
    BY <1>3
  <1>6. /\ s \in Seq(Nat) /\ Len(s) = (l + 1) + m
        /\ \A i \in 1..(l + 1) + m : s[i] = IF i <= l + 1 THEN t[i] ELSE b[i - (l + 1)]
    <2>1. b \in Seq(Nat)
      BY DEF Text
    <2>2. /\ t \o b \in Seq(Nat) /\ Len(t \o b) = Len(t) + Len(b)
          /\ \A i \in 1..Len(t) + Len(b) :
               (t \o b)[i] = IF i <= Len(t) THEN t[i] ELSE b[i - Len(t)]
      BY <1>4, <2>1, ConcatProperties
    <2> QED
      BY <1>2, <1>4, <1>5, <2>2
  <1>7. /\ s[l + 1] = c
        /\ \A i \in 1..l : s[i] = a[i]
        /\ \A i \in 1..m : s[(l + 1) + i] = b[i]
    <2>1. s[l + 1] = t[l + 1]
      <3>1. l + 1 \in 1..(l + 1) + m /\ l + 1 <= l + 1
        OBVIOUS
      <3> QED
        BY <1>6, <3>1
    <2>2. ASSUME NEW i \in 1..l
          PROVE  s[i] = a[i]
      <3>1. i \in 1..(l + 1) + m /\ i <= l + 1
        OBVIOUS
      <3> QED
        BY <1>4, <1>6, <3>1
    <2>3. ASSUME NEW i \in 1..m
          PROVE  s[(l + 1) + i] = b[i]
      <3>1. (l + 1) + i \in 1..(l + 1) + m /\ ~((l + 1) + i <= l + 1) /\ ((l + 1) + i) - (l + 1) = i
        OBVIOUS
      <3> QED
        BY <1>6, <3>1
    <2> QED
      BY <1>4, <2>1, <2>2, <2>3
  <1>8. PICK p \in 1..(l + 1) + m : p = l + 1
    OBVIOUS
  <1>9. Find(s, c) = p
    <2>1. PICK n \in Nat : n = (l + 1) + m
      OBVIOUS
    <2>2. n = Len(s) /\ p \in 1..n /\ s[p] = c
      BY <1>6, <1>7, <1>8, <2>1
    <2>3. \A i \in 1..p - 1 : s[i] # c
      <3>1. 1..p - 1 = 1..l
        BY <1>8
      <3> QED
        BY <1>1, <1>7, <3>1
    <2> QED
      BY <2>2, <2>3, FindFirst
  <1>10. Before(s, p) = a
    <2>1. PICK u : u = SubSeq(s, 1, l)
      OBVIOUS
    <2>2. u \in Seq(Nat) /\ Len(u) = l /\ \A i \in 1..l : u[i] = s[i]
      BY <1>6, <2>1
    <2>3. u = a
      <3>1. a \in Seq(Nat) /\ Len(u) = Len(a) /\ \A i \in 1..Len(u) : u[i] = a[i]
        BY <1>1, <1>7, <2>2 DEF Text
      <3> QED
        BY <2>2, <3>1, SeqEqual
    <2>4. p - 1 = l
      BY <1>8
    <2> QED
      BY <2>1, <2>3, <2>4 DEF Before
  <1>11. After(s, p) = b
    <2>1. PICK u : u = SubSeq(s, p + 1, (l + 1) + m)
      OBVIOUS
    <2>2. u \in Seq(Nat) /\ Len(u) = m /\ \A i \in 1..m : u[i] = s[(l + 1) + i]
      <3>1. PICK k \in 0..Len(s) : k = l + 1
        BY <1>6
      <3>2. k + 1 = p + 1 /\ Len(s) - k = m /\ Len(s) = (l + 1) + m
        BY <1>6, <1>8, <3>1
      <3>3. /\ SubSeq(s, k + 1, Len(s)) \in Seq(Nat)
            /\ Len(SubSeq(s, k + 1, Len(s))) = Len(s) - k
            /\ \A i \in 1..Len(s) - k : SubSeq(s, k + 1, Len(s))[i] = s[k + i]
        BY <1>6, Suffix
      <3>4. u = SubSeq(s, k + 1, Len(s))
        BY <2>1, <3>2
      <3> QED
        BY <3>1, <3>2, <3>3, <3>4
    <2>3. u = b
      <3>1. b \in Seq(Nat) /\ Len(u) = Len(b) /\ \A i \in 1..Len(u) : u[i] = b[i]
        BY <1>2, <1>7, <2>2 DEF Text
      <3> QED
        BY <2>2, <3>1, SeqEqual
    <2> QED
      BY <1>6, <2>1, <2>3 DEF After
  <1> QED
    BY <1>1, <1>8, <1>9, <1>10, <1>11


----------------------------------------------------------------------------
(* Decoding                                                                *)

\* The equation of the function in Decoded, from position lo on.
IsDecoding(f, step, n, lo) ==
    f = [i \in lo..n + 2 |-> IF i > n THEN <<>> ELSE step[i].text \o f[step[i].next]]

\* The recursion of a decoding loop that always goes forward has a solution.
LEMMA DecodingExists ==
  ASSUME NEW n \in Nat, NEW step, \A i \in 1..n : step[i].next \in i + 1..n + 2,
         NEW one, one = 1
  PROVE  \E f : IsDecoding(f, step, n, one)
  <1> DEFINE K == {k \in Nat : k <= n + 1 => \E f : IsDecoding(f, step, n, (n + 2) - k)}
  <1>1. 0 \in K
    <2> DEFINE v == [i \in n + 2..n + 2 |-> <<>>]
               u == [i \in n + 2..n + 2 |-> IF i > n THEN <<>> ELSE step[i].text \o v[step[i].next]]
    <2>1. v = u
      <3>1. \A i \in n + 2..n + 2 : i > n
        OBVIOUS
      <3> QED
        BY <3>1
    <2>2. PICK lo : lo = n + 2
      OBVIOUS
    <2>3. IsDecoding(v, step, n, lo)
      BY <2>1, <2>2 DEF IsDecoding
    <2>4. (n + 2) - 0 = lo
      BY <2>2
    <2> HIDE DEF v
    <2> QED
      BY <2>3, <2>4
  <1>2. ASSUME NEW k \in Nat, k \in K
        PROVE  k + 1 \in K
    <2>1. CASE k + 1 <= n + 1
      <3>1. PICK lo \in Nat : lo = (n + 2) - k
        BY <2>1
      <3>2. PICK f : IsDecoding(f, step, n, lo)
        BY <1>2, <2>1, <3>1
      <3>3. PICK b \in Nat : b = lo - 1 /\ b >= 1 /\ b <= n + 1
        BY <2>1, <3>1
      <3> DEFINE v == [i \in b..n + 2 |-> IF i # b THEN f[i]
                                          ELSE IF i > n THEN <<>> ELSE step[i].text \o f[step[i].next]]
                 u == [i \in b..n + 2 |-> IF i > n THEN <<>> ELSE step[i].text \o v[step[i].next]]
      <3>4. \A i \in lo..n + 2 : f[i] = IF i > n THEN <<>> ELSE step[i].text \o f[step[i].next]
        BY <3>2 DEF IsDecoding
      <3>5. \A i \in lo..n + 2 : v[i] = f[i]
        BY <3>3
      <3>6. ASSUME NEW i \in b..n + 2
            PROVE  v[i] = IF i > n THEN <<>> ELSE step[i].text \o v[step[i].next]
        <4>1. v[i] = IF i > n THEN <<>> ELSE step[i].text \o f[step[i].next]
          <5>1. CASE i = b
            BY <5>1
          <5>2. CASE i # b
            <6>1. i \in lo..n + 2
              BY <3>3, <5>2
            <6> QED
              BY <3>4, <3>5, <6>1
          <5> QED
            BY <5>1, <5>2
        <4>2. ~(i > n) => v[step[i].next] = f[step[i].next]
          <5>1. ~(i > n) => step[i].next \in lo..n + 2
            <6>1. ~(i > n) => i \in 1..n /\ i + 1 >= lo
              BY <3>3
            <6> QED
              BY <6>1
          <5> HIDE DEF v
          <5> QED
            BY <3>5, <5>1
        <4> HIDE DEF v
        <4> QED
          BY <4>1, <4>2
      <3>7. v = u
        BY <3>6
      <3>8. IsDecoding(v, step, n, b)
        BY <3>7 DEF IsDecoding
      <3>9. (n + 2) - (k + 1) = b
        BY <3>1, <3>3
      <3> HIDE DEF v
      <3> QED
        BY <3>8, <3>9
    <2>2. CASE ~(k + 1 <= n + 1)
      BY <2>2
    <2> QED
      BY <2>1, <2>2
  <1> HIDE DEF K
  <1>3. n + 1 \in K
    BY <1>1, <1>2, SetInduction
  <1>4. (n + 2) - (n + 1) = one
    OBVIOUS
  <1> QED
    BY <1>3, <1>4 DEF K

\* The steps of a decoding that begins at position first.
Decodes(f, step, n) ==
    /\ \A i \in 1..n : f[i] = step[i].text \o f[step[i].next]
    /\ f[n + 1] = <<>> /\ f[n + 2] = <<>>

\* What a decoding loop returns: what its steps append, from the first one on.
LEMMA DecodedDef ==
  ASSUME NEW n \in Nat, NEW step, Len(step) = n, \A i \in 1..n : step[i].next \in i + 1..n + 2,
         NEW first
  PROVE  \E f : Decoded(step, first) = f[first] /\ Decodes(f, step, n)
  <1>1. PICK one : one = 1
    OBVIOUS
  <1>2. PICK f : f = CHOOSE g : IsDecoding(g, step, n, one)
    OBVIOUS
  <1>3. Decoded(step, first) = f[first]
    BY <1>1, <1>2 DEF Decoded, IsDecoding
  <1>4. IsDecoding(f, step, n, one)
    BY <1>1, <1>2, DecodingExists
  <1>5. f = [i \in 1..n + 2 |-> IF i > n THEN <<>> ELSE step[i].text \o f[step[i].next]]
    BY <1>1, <1>4 DEF IsDecoding
  <1>6. ASSUME NEW i \in 1..n
        PROVE  f[i] = step[i].text \o f[step[i].next]
    <2>1. i \in 1..n + 2 /\ ~(i > n)
      OBVIOUS
    <2> QED
      BY <1>5, <2>1
  <1>7. f[n + 1] = <<>> /\ f[n + 2] = <<>>
    BY <1>5
  <1>8. Decodes(f, step, n)
    BY <1>6, <1>7 DEF Decodes
  <1> QED
    BY <1>3, <1>8

\* t is the last k bytes of a text of m bytes.
Ends(t, k, text, m) ==
    t \in Seq(Nat) /\ Len(t) = k /\ \A i \in 1..k : t[i] = text[(m - k) + i]

\* One byte after the other, the last one followed by nothing.
Chain(f, pos, text, m) ==
    /\ \A k \in 1..m : f[pos[k]] = <<text[k]>> \o f[pos[k + 1]]
    /\ f[pos[m + 1]] = <<>>

\* A loop that goes from code to code and appends one byte for each of them
\* returns the text.
LEMMA DecodesText ==
  ASSUME NEW text \in Text, NEW m \in Nat, m = Len(text), NEW f, NEW pos,
         Chain(f, pos, text, m)
  PROVE  f[pos[1]] = text
  <1> DEFINE K == {k \in Nat : k <= m => Ends(f[pos[(m - k) + 1]], k, text, m)}
  <1>1. 0 \in K
    <2>1. (m - 0) + 1 = m + 1
      OBVIOUS
    <2>2. PICK t : t = f[pos[(m - 0) + 1]]
      OBVIOUS
    <2>3. t = <<>>
      BY <2>1, <2>2 DEF Chain
    <2>4. Ends(t, 0, text, m)
      BY <2>3 DEF Ends
    <2> QED
      BY <2>2, <2>4
  <1>2. ASSUME NEW k \in Nat, k \in K
        PROVE  k + 1 \in K
    <2>1. CASE k + 1 <= m
      <3> HIDE DEF K
      <3>0. m - k \in 1..m
        BY <2>1
      <3>1. PICK j \in 1..m : j = m - k
        BY <3>0
      <3>2. PICK t : t = f[pos[j + 1]]
        OBVIOUS
      <3>3. t \in Seq(Nat) /\ Len(t) = k /\ \A i \in 1..k : t[i] = text[j + i]
        <4>1. k <= m
          BY <2>1
        <4>2. Ends(t, k, text, m)
          BY <1>2, <3>1, <3>2, <4>1 DEF K
        <4> QED
          BY <3>1, <4>2 DEF Ends
      <3>4. PICK c \in Nat : c = text[j]
        BY <3>1, ElementOfSeq DEF Text
      <3>5. PICK u : u = <<c>> \o t
        OBVIOUS
      <3>6. f[pos[j]] = u
        <4>1. f[pos[j]] = <<text[j]>> \o f[pos[j + 1]]
          BY DEF Chain
        <4> QED
          BY <3>2, <3>4, <3>5, <4>1
      <3>7. u \in Seq(Nat) /\ Len(u) = k + 1 /\ u[1] = c /\ \A i \in 1..k : u[i + 1] = t[i]
        <4>1. t \in Seq(Nat) /\ Len(t) = k
          BY <3>3
        <4> QED
          BY <3>5, <4>1
      <3>8. (m - (k + 1)) + 1 = j /\ m - (k + 1) = j - 1
        BY <3>1
      <3>9. ASSUME NEW i \in 1..k + 1
            PROVE  u[i] = text[(j - 1) + i]
        <4>1. CASE i = 1
          <5>1. (j - 1) + 1 = j
            BY <3>1
          <5> QED
            BY <3>4, <3>7, <4>1, <5>1
        <4>2. CASE i # 1
          <5>1. PICK h \in 1..k : h = i - 1
            BY <4>2
          <5>2. h + 1 = i /\ j + h = (j - 1) + i
            BY <3>1, <5>1
          <5>3. u[h + 1] = t[h] /\ t[h] = text[j + h]
            BY <3>3, <3>7
          <5> QED
            BY <5>2, <5>3
        <4> QED
          BY <4>1, <4>2
      <3>10. Ends(u, k + 1, text, m)
        BY <3>7, <3>8, <3>9 DEF Ends
      <3>11. Ends(f[pos[(m - (k + 1)) + 1]], k + 1, text, m)
        BY <3>6, <3>8, <3>10
      <3> QED
        BY <3>11 DEF K
    <2>2. CASE ~(k + 1 <= m)
      BY <2>2
    <2> QED
      BY <2>1, <2>2
  <1> HIDE DEF K
  <1>3. m \in K
    BY <1>1, <1>2, SetInduction
  <1>4. PICK t : t = f[pos[1]]
    OBVIOUS
  <1>5. t \in Seq(Nat) /\ Len(t) = m /\ \A i \in 1..m : t[i] = text[i]
    <2>1. m <= m /\ (m - m) + 1 = 1 /\ \A i \in 1..m : (m - m) + i = i
      OBVIOUS
    <2>2. Ends(t, m, text, m)
      BY <1>3, <1>4, <2>1 DEF K
    <2> QED
      BY <2>1, <2>2 DEF Ends
  <1>6. t = text
    <2>1. text \in Seq(Nat) /\ Len(t) = Len(text) /\ \A i \in 1..Len(t) : t[i] = text[i]
      BY <1>5 DEF Text
    <2> QED
      BY <1>5, <2>1, SeqEqual
  <1> QED
    BY <1>4, <1>6


\* Where the codes of a text begin; the last position is that of the end.
Positions(pos, codes, s, m) ==
    /\ pos \in [1..m + 1 -> Nat \ {0}]
    /\ pos[1] = 1 /\ pos[m + 1] = Len(s) + 1
    /\ \A k \in 1..m : /\ pos[k + 1] = pos[k] + Len(codes[k]) /\ pos[k + 1] <= Len(s) + 1
                       /\ \A i \in 1..Len(codes[k]) : s[pos[k] + (i - 1)] = codes[k][i]

\* Where each code of a text begins when they are written one after the other.
LEMMA CodePositions ==
  ASSUME NEW codes \in Seq(Text), NEW m \in Nat, m = Len(codes), NEW s, s = FlattenSeq(codes)
  PROVE  s \in Text /\ \E pos : Positions(pos, codes, s, m)
  <1>1. codes \in Seq(Seq(Nat))
    BY DEF Text
  <1>2. s \in Seq(Nat)
    BY <1>1, FlattenType
  <1>3. \A k \in 0..m : UpTo(codes, k) \in Seq(Nat) /\ Len(UpTo(codes, k)) \in Nat
    BY <1>1, UpToType, LenProperties
  <1>4. PICK pos : pos = [k \in 1..m + 1 |-> Len(UpTo(codes, k - 1)) + 1]
    OBVIOUS
  <1>5. pos \in [1..m + 1 -> Nat \ {0}]
    <2>1. ASSUME NEW k \in 1..m + 1
          PROVE  Len(UpTo(codes, k - 1)) + 1 \in Nat \ {0}
      <3>1. PICK j \in 0..m : j = k - 1
        OBVIOUS
      <3> QED
        BY <1>3, <3>1
    <2> QED
      BY <1>4, <2>1
  <1>6. pos[1] = 1
    <2>1. UpTo(codes, 0) = <<>> /\ Len(<<>>) = 0
      BY <1>1, UpToEnds
    <2>2. pos[1] = Len(UpTo(codes, 1 - 1)) + 1 /\ 1 - 1 = 0
      BY <1>4
    <2> QED
      BY <2>1, <2>2
  <1>7. pos[m + 1] = Len(s) + 1
    <2>1. UpTo(codes, m) = s
      BY <1>1, UpToEnds
    <2>2. pos[m + 1] = Len(UpTo(codes, (m + 1) - 1)) + 1 /\ (m + 1) - 1 = m
      BY <1>4
    <2> QED
      BY <2>1, <2>2
  <1>8. ASSUME NEW k \in 1..m
        PROVE  /\ pos[k + 1] = pos[k] + Len(codes[k]) /\ pos[k + 1] <= Len(s) + 1
               /\ \A i \in 1..Len(codes[k]) : s[pos[k] + (i - 1)] = codes[k][i]
    <2>1. PICK l \in Nat : l = Len(UpTo(codes, k - 1))
      BY <1>3
    <2>2. PICK h \in Nat : h = Len(UpTo(codes, k))
      BY <1>3
    <2>3. pos[k] = l + 1 /\ pos[k + 1] = h + 1
      <3>1. k \in 1..m + 1 /\ k + 1 \in 1..m + 1 /\ (k + 1) - 1 = k
        OBVIOUS
      <3> QED
        BY <1>4, <2>1, <2>2, <3>1
    <2>4. PICK d \in Nat : d = Len(codes[k])
      BY <1>1, ElementOfSeq, LenProperties
    <2>5. h = l + d
      <3>1. UpTo(codes, k) = UpTo(codes, k - 1) \o codes[k]
        BY <1>1, UpToNext
      <3>2. UpTo(codes, k - 1) \in Seq(Nat) /\ codes[k] \in Seq(Nat)
        BY <1>1, <1>3, ElementOfSeq
      <3> QED
        BY <2>1, <2>2, <2>4, <3>1, <3>2, ConcatProperties
    <2>6. h <= Len(s)
      <3>1. UpTo(codes, k) \in Seq(Nat) /\ IsPrefix(UpTo(codes, k), s)
        BY <1>1, <1>3, UpToPrefix
      <3> QED
        BY <1>2, <2>2, <3>1, PrefixDef
    <2>7. ASSUME NEW i \in 1..d
          PROVE  s[pos[k] + (i - 1)] = codes[k][i]
      <3>1. s[Len(UpTo(codes, k - 1)) + i] = codes[k][i]
        BY <1>1, <2>4, FlattenIndex
      <3>2. pos[k] + (i - 1) = l + i
        BY <2>3
      <3> QED
        BY <2>1, <3>1, <3>2
    <2>8. Len(s) \in Nat
      BY <1>2, LenProperties
    <2>9. pos[k + 1] = pos[k] + d /\ pos[k + 1] <= Len(s) + 1
      BY <2>3, <2>5, <2>6, <2>8
    <2> QED
      BY <2>4, <2>7, <2>9
  <1>9. Positions(pos, codes, s, m)
    BY <1>5, <1>6, <1>7, <1>8 DEF Positions
  <1> QED
    BY <1>2, <1>9 DEF Text

\* A hexadecimal digit, in either case, is read for what it stands for.
LEMMA HexDigit ==
  ASSUME NEW n \in 0..15, NEW h \in Digits(n)
  PROVE  h \in Nat /\ h # Nul /\ is_hex(h) /\ from_hex(h) = n
  <1>1. CASE n < 10
    <2>1. h = 48 + n
      BY <1>1 DEF Digits
    <2> QED
      BY <1>1, <2>1 DEF Nul, is_hex, from_hex
  <1>2. CASE ~(n < 10)
    <2>1. h = 55 + n \/ h = 87 + n
      BY <1>2 DEF Digits
    <2>2. CASE h = 55 + n
      BY <1>2, <2>2 DEF Nul, is_hex, from_hex
    <2>3. CASE h = 87 + n
      BY <1>2, <2>3 DEF Nul, is_hex, from_hex
    <2> QED
      BY <2>1, <2>2, <2>3
  <1> QED
    BY <1>1, <1>2

\* A byte is sixteen times its first digit plus its second one.
LEMMA DivMod ==
  ASSUME NEW c \in Nat, NEW q \in Nat, NEW r \in Nat, q = c \div 16, r = c % 16
  PROVE  16 * q + r = c
  OBVIOUS

\* Reading a std::string up to and including its terminator.
LEMMA ByteDef ==
  ASSUME NEW s \in Text, NEW n \in Nat, n = Len(s), NEW i \in 1..n + 1
  PROVE  Byte(s, i) = IF i <= n THEN s[i] ELSE Nul
  <1>1. Nul \in Nat
    BY DEF Nul
  <1>2. /\ \A k \in 1..n : Append(s, Nul)[k] = s[k]
        /\ Append(s, Nul)[n + 1] = Nul
    BY <1>1, AppendProperties DEF Text
  <1> QED
    BY <1>2 DEF Byte

\* Wherever the loop of unquote is, it goes on, and not past the terminator.
LEMMA UnquoteNext ==
  ASSUME NEW s \in Text, NEW n \in Nat, n = Len(s), NEW i \in 1..n
  PROVE  unquote_at(s, i).next \in i + 1..n + 2
  <1>1. CASE s[i] = Percent /\ Byte(s, i + 1) # Nul /\ Byte(s, i + 2) # Nul
    <2>1. i + 1 <= n
      <3>1. i + 1 \in 1..n + 1
        OBVIOUS
      <3> QED
        BY <1>1, <3>1, ByteDef
    <2>2. i + 3 \in i + 1..n + 2
      BY <2>1
    <2>3. unquote_at(s, i).next = i + 3
      BY <1>1 DEF unquote_at, Plus, Percent
    <2> QED
      BY <2>2, <2>3
  <1>2. CASE ~(s[i] = Percent /\ Byte(s, i + 1) # Nul /\ Byte(s, i + 2) # Nul)
    <2>1. unquote_at(s, i).next = i + 1
      BY <1>2 DEF unquote_at, Plus, Percent
    <2> QED
      BY <2>1
  <1> QED
    BY <1>1, <1>2

\* At a code the loop of unquote takes all of it for the byte it stands for.
LEMMA UnquoteCode ==
  ASSUME NEW s \in Text, NEW n \in Nat, n = Len(s), NEW p \in Nat \ {0}, NEW code, NEW c \in Nat,
         IsCode(code, c), p + Len(code) <= n + 1,
         \A i \in 1..Len(code) : s[p + (i - 1)] = code[i]
  PROVE  unquote_at(s, p).text = <<c>> /\ unquote_at(s, p).next = p + Len(code)
  <1>1. CASE code = <<c>> /\ c \notin {Percent, Plus, Amp}
    <2>1. Len(code) = 1 /\ code[1] = c /\ p + (1 - 1) = p
      BY <1>1
    <2>2. s[p] = c /\ c # Percent /\ c # Plus
      BY <1>1, <2>1
    <2> QED
      BY <2>1, <2>2 DEF unquote_at
  <1>2. CASE code = <<Plus>> /\ c = Space
    <2>1. Len(code) = 1 /\ code[1] = Plus /\ p + (1 - 1) = p
      BY <1>2
    <2>2. s[p] = Plus
      BY <2>1
    <2> QED
      BY <1>2, <2>1, <2>2 DEF unquote_at, Plus, Percent
  <1>3. ASSUME c < 256, NEW h \in Digits(c \div 16), NEW l \in Digits(c % 16),
               code = <<Percent, h, l>>
        PROVE  unquote_at(s, p).text = <<c>> /\ unquote_at(s, p).next = p + Len(code)
    <2>1. c \div 16 \in 0..15 /\ c % 16 \in 0..15
      BY <1>3
    <2>2. /\ h # Nul /\ is_hex(h) /\ from_hex(h) = c \div 16
          /\ l # Nul /\ is_hex(l) /\ from_hex(l) = c % 16
      BY <2>1, HexDigit
    <2>3. Len(code) = 3 /\ code[1] = Percent /\ code[2] = h /\ code[3] = l
      BY <1>3
    <2>4. s[p] = Percent /\ s[p + 1] = h /\ s[p + 2] = l
      <3>1. /\ s[p + (1 - 1)] = code[1] /\ s[p + (2 - 1)] = code[2] /\ s[p + (3 - 1)] = code[3]
        BY <2>3
      <3>2. p + (1 - 1) = p /\ p + (2 - 1) = p + 1 /\ p + (3 - 1) = p + 2
        OBVIOUS
      <3> QED
        BY <2>3, <3>1, <3>2
    <2>5. p + 1 \in 1..n + 1 /\ p + 2 \in 1..n + 1 /\ p + 1 <= n /\ p + 2 <= n
      BY <2>3
    <2>6. Byte(s, p + 1) = h /\ Byte(s, p + 2) = l
      BY <2>4, <2>5, ByteDef
    <2>7. unquote_at(s, p) =
            [text |-> <<16 * from_hex(h) + from_hex(l)>>, next |-> p + 3]
      BY <2>2, <2>4, <2>6 DEF unquote_at, Plus, Percent
    <2>8. 16 * from_hex(h) + from_hex(l) = c
      BY <2>1, <2>2, DivMod
    <2> QED
      BY <2>3, <2>7, <2>8
  <1> QED
    BY <1>1, <1>2, <1>3 DEF IsCode

\* Whatever codes a client has chosen, unquote gives back the text.
LEMMA UnquoteQuoting ==
  ASSUME NEW codes \in Seq(Text), NEW text \in Text, IsQuoting(codes, text)
  PROVE  unquote(FlattenSeq(codes)) = text
  <1>1. PICK m \in Nat : m = Len(text)
    BY LenProperties DEF Text
  <1>2. Len(codes) = m /\ \A k \in 1..m : IsCode(codes[k], text[k])
    BY <1>1, LenProperties DEF IsQuoting, Text
  <1>3. PICK s : s = FlattenSeq(codes)
    OBVIOUS
  <1>4. s \in Text /\ \E pos : Positions(pos, codes, s, m)
    BY <1>2, <1>3, CodePositions
  <1>5. PICK pos : Positions(pos, codes, s, m)
    BY <1>4
  <1>6. PICK n \in Nat : n = Len(s)
    BY <1>4, LenProperties DEF Text
  <1>7. PICK step : step = [i \in 1..n |-> unquote_at(s, i)]
    OBVIOUS
  <1>8. Len(step) = n
    BY <1>7
  <1>9. \A i \in 1..n : step[i].next \in i + 1..n + 2
    BY <1>4, <1>6, <1>7, UnquoteNext
  <1>10. PICK one : one = 1
    OBVIOUS
  <1>11. PICK f : Decoded(step, one) = f[one] /\ Decodes(f, step, n)
    BY <1>8, <1>9, DecodedDef
  <1>12. unquote(s) = f[one]
    BY <1>6, <1>7, <1>10, <1>11 DEF unquote
  <1>13. /\ pos \in [1..m + 1 -> Nat \ {0}] /\ pos[1] = 1 /\ pos[m + 1] = n + 1
         /\ \A k \in 1..m : /\ pos[k + 1] = pos[k] + Len(codes[k]) /\ pos[k + 1] <= n + 1
                            /\ \A i \in 1..Len(codes[k]) : s[pos[k] + (i - 1)] = codes[k][i]
    BY <1>5, <1>6 DEF Positions
  <1>14. ASSUME NEW k \in 1..m
         PROVE  f[pos[k]] = <<text[k]>> \o f[pos[k + 1]]
    <2>1. PICK p \in Nat \ {0} : p = pos[k]
      BY <1>13
    <2>2. PICK code : code = codes[k]
      OBVIOUS
    <2>3. PICK c \in Nat : c = text[k]
      BY <1>1, ElementOfSeq DEF Text
    <2>4. IsCode(code, c)
      BY <1>2, <2>2, <2>3
    <2>5. Len(code) \in Nat /\ Len(code) > 0
      BY <2>4, CodeDef, LenProperties
    <2>6. pos[k + 1] = p + Len(code) /\ p + Len(code) <= n + 1
      BY <1>13, <2>1, <2>2
    <2>7. \A i \in 1..Len(code) : s[p + (i - 1)] = code[i]
      BY <1>13, <2>1, <2>2
    <2>8. unquote_at(s, p).text = <<c>> /\ unquote_at(s, p).next = p + Len(code)
      BY <1>4, <1>6, <2>4, <2>6, <2>7, UnquoteCode
    <2>9. p \in 1..n
      BY <2>5, <2>6
    <2>10. step[p] = unquote_at(s, p)
      BY <1>7, <2>9
    <2>11. f[p] = step[p].text \o f[step[p].next]
      BY <1>11, <2>9 DEF Decodes
    <2> QED
      BY <2>1, <2>3, <2>6, <2>8, <2>10, <2>11
  <1>15. f[pos[m + 1]] = <<>>
    BY <1>11, <1>13 DEF Decodes
  <1>16. f[pos[1]] = text
    <2>1. Chain(f, pos, text, m)
      BY <1>14, <1>15 DEF Chain
    <2> QED
      BY <1>1, <2>1, DecodesText
  <1> QED
    BY <1>3, <1>10, <1>12, <1>13, <1>16


\* A field is parsed to its name and, unless it has no name, to its value.
LEMMA FieldParsed ==
  ASSUME NEW f \in FormField, IsFormField(f)
  PROVE  /\ unquote(split_by_eq(FieldText(f))[1]) = f.name
         /\ f.name # <<>> => unquote(split_by_eq(FieldText(f))[2]) = f.value
  <1>1. f.names \in Seq(Text) /\ f.values \in Seq(Text) /\ f.name \in Text /\ f.value \in Text
    BY DEF FormField
  <1>2. IsQuoting(f.names, f.name) /\ IsQuoting(f.values, f.value)
    BY DEF IsFormField
  <1>3. PICK a : a = FlattenSeq(f.names)
    OBVIOUS
  <1>4. PICK b : b = FlattenSeq(f.values)
    OBVIOUS
  <1>5. PICK c \in Nat : c = Equals
    BY DEF Equals
  <1>6. a \in Text /\ \A i \in 1..Len(a) : a[i] # c
    <2>1. a \in Seq(Nat \ {Amp, Equals})
      BY <1>3, FieldType
    <2>2. \A i \in 1..Len(a) : a[i] \in Nat \ {Amp, Equals}
      BY <2>1, ElementOfSeq
    <2>3. a \in Seq(Nat)
      BY <2>1
    <2> QED
      BY <1>5, <2>2, <2>3 DEF Text
  <1>7. b \in Text
    <2>1. b \in Seq(Nat \ {Amp})
      BY <1>4, FieldType
    <2> QED
      BY <2>1 DEF Text
  <1>8. PICK s : s = a \o <<c>> \o b
    OBVIOUS
  <1>9. s = FieldText(f)
    BY <1>3, <1>4, <1>5, <1>8 DEF FieldText
  <1>10. /\ Len(a) \in Nat /\ Find(s, c) = Len(a) + 1
         /\ Before(s, Len(a) + 1) = a /\ After(s, Len(a) + 1) = b
    BY <1>6, <1>7, <1>8, FindCuts
  <1>11. unquote(a) = f.name /\ unquote(b) = f.value
    BY <1>1, <1>2, <1>3, <1>4, UnquoteQuoting
  <1>12. PICK p \in Nat \ {0} : p = Len(a) + 1
    BY <1>10
  <1>13. CASE p = 1
    <2>1. a = <<>>
      BY <1>6, <1>10, <1>12, <1>13, EmptySeq DEF Text
    <2>2. split_by_eq(s) = << <<>>, s >>
      BY <1>5, <1>10, <1>12, <1>13 DEF split_by_eq
    <2>3. unquote(<<>>) = <<>>
      <3>1. PICK e : e = <<>>
        OBVIOUS
      <3>2. e \in Seq(Text) /\ e \in Text /\ IsQuoting(e, e)
        BY <3>1, EmptySeq DEF IsQuoting, Text
      <3>3. FlattenSeq(e) = e
        BY <3>1 DEF FlattenSeq
      <3> QED
        BY <3>1, <3>2, <3>3, UnquoteQuoting
    <2> QED
      BY <1>9, <1>11, <2>1, <2>2, <2>3
  <1>14. CASE p # 1
    <2>1. split_by_eq(s) = <<Before(s, p), After(s, p)>>
      BY <1>5, <1>10, <1>12, <1>14 DEF split_by_eq
    <2> QED
      BY <1>9, <1>10, <1>11, <1>12, <2>1
  <1> QED
    BY <1>13, <1>14

\* What is left in a map is the last one of the values for a key.
LastFor(kvs, used, k, i) == kvs[i][1] = k /\ \A j \in used : kvs[j][1] = k => j <= i

\* A std::map filled in order has the keys that were put, each with its last value.
LEMMA MapOfDef ==
  ASSUME NEW n \in Nat, NEW kvs, NEW used, used = 1..n, NEW k
  PROVE  /\ Has(MapOf(kvs, used), k) <=> \E i \in used : kvs[i][1] = k
         /\ Has(MapOf(kvs, used), k) =>
              \E i \in used : LastFor(kvs, used, k, i) /\ MapOf(kvs, used)[k] = kvs[i][2]
  <1>1. PICK M : M = MapOf(kvs, used)
    OBVIOUS
  <1>2. M = [x \in {kvs[i][1] : i \in used} |-> kvs[Max({i \in used : kvs[i][1] = x})][2]]
    BY <1>1 DEF MapOf
  <1>3. Has(M, k) <=> \E i \in used : kvs[i][1] = k
    BY <1>2 DEF Has
  <1>4. ASSUME Has(M, k)
        PROVE  \E i \in used : LastFor(kvs, used, k, i) /\ M[k] = kvs[i][2]
    <2>1. PICK T \in SUBSET (1..n) : T = {i \in used : kvs[i][1] = k}
      OBVIOUS
    <2>2. T # {}
      BY <1>3, <1>4, <2>1
    <2>3. PICK i : i = Max(T)
      OBVIOUS
    <2>4. i \in T /\ \A m \in T : m <= i
      BY <2>2, <2>3, GreatestNumber
    <2>5. k \in {kvs[j][1] : j \in used}
      BY <1>3, <1>4
    <2>6. M[k] = kvs[Max({j \in used : kvs[j][1] = k})][2]
      BY <1>2, <2>5
    <2>7. M[k] = kvs[i][2]
      BY <2>1, <2>3, <2>6
    <2> QED
      BY <2>1, <2>4, <2>7 DEF LastFor
  <1> QED
    BY <1>1, <1>3, <1>4

\* The parser of an urlencoded form gives the last value of a name.
LEMMA ParseQslDef ==
  ASSUME NEW body, NEW form, IsUrlEncoding(body, form), form # <<>>, NEW k, k # <<>>,
         Has(parse_qsl(body), k)
  PROVE  \E i \in DOMAIN form :
            /\ form[i].name = k /\ parse_qsl(body)[k] = form[i].value
            /\ \A j \in DOMAIN form : form[j].name = k => j <= i
  <1>1. /\ form \in Seq(FormField) /\ \A i \in DOMAIN form : IsFormField(form[i])
    BY DEF IsUrlEncoding
  <1>2. PICK n \in Nat : n = Len(form) /\ DOMAIN form = 1..n
    BY <1>1, LenProperties
  <1>3. PICK ss : ss = FieldTexts(form)
    OBVIOUS
  <1>4. /\ ss \in Seq(Text) /\ ss # <<>> /\ Len(ss) = n
        /\ body = Joined(ss, Amp) /\ Free(ss, Amp)
    BY <1>2, <1>3, BodyType
  <1>5. \A m \in 1..n : ss[m] = FieldText(form[m]) /\ ss[m] # <<>>
    BY <1>2, <1>3, BodyType
  <1>6. Split(body, Amp) = ss
    <2>1. PICK sep \in Nat : sep = Amp
      BY DEF Amp
    <2>2. Split(Joined(ss, sep), sep) = ss
      BY <1>4, <2>1, SplitJoined
    <2> QED
      BY <1>4, <2>1, <2>2
  <1>7. DOMAIN ss = 1..n
    BY <1>4, LenProperties
  <1>8. PICK kvs : kvs = [i \in 1..n |-> LET kvt == split_by_eq(ss[i])
                                         IN  <<unquote(kvt[1]), unquote(kvt[2])>>]
    OBVIOUS
  <1>9. PICK used \in SUBSET (1..n) : used = 1..n
    OBVIOUS
  <1>10. parse_qsl(body) = MapOf(kvs, used)
    <2>1. {i \in 1..n : ss[i] # <<>>} = used
      BY <1>5, <1>9
    <2> QED
      BY <1>6, <1>7, <1>8, <2>1 DEF parse_qsl
  <1>11. ASSUME NEW i \in 1..n
         PROVE  kvs[i][1] = form[i].name /\ (form[i].name # <<>> => kvs[i][2] = form[i].value)
    <2>1. form[i] \in FormField /\ IsFormField(form[i])
      BY <1>1, <1>2, ElementOfSeq
    <2>2. kvs[i] = <<unquote(split_by_eq(ss[i])[1]), unquote(split_by_eq(ss[i])[2])>>
      BY <1>8
    <2>3. ss[i] = FieldText(form[i])
      BY <1>5
    <2> QED
      BY <2>1, <2>2, <2>3, FieldParsed
  <1>12. PICK M : M = parse_qsl(body)
    OBVIOUS
  <1>13. PICK i \in used : LastFor(kvs, used, k, i) /\ M[k] = kvs[i][2]
    <2>1. M = MapOf(kvs, used) /\ Has(MapOf(kvs, used), k)
      BY <1>10, <1>12
    <2>2. \E i \in used : LastFor(kvs, used, k, i) /\ MapOf(kvs, used)[k] = kvs[i][2]
      BY <1>9, <2>1, MapOfDef
    <2> QED
      BY <2>1, <2>2
  <1>14. /\ form[i].name = k /\ M[k] = form[i].value
         /\ \A j \in 1..n : form[j].name = k => j <= i
    BY <1>9, <1>11, <1>13 DEF LastFor
  <1> QED
    BY <1>2, <1>9, <1>12, <1>14


----------------------------------------------------------------------------
(* Quoted values of parameters                                             *)

\* std::quoted goes forward in every step, at most past the terminator.
LEMMA QuotedNext ==
  ASSUME NEW v, NEW n \in Nat, n = Len(v), NEW i \in 1..n
  PROVE  quoted_at(v, i).next \in i + 1..n + 2
  <1>1. CASE v[i] = DQuote
    BY <1>1 DEF quoted_at
  <1>2. CASE v[i] = Backslash
    BY <1>2 DEF quoted_at, DQuote, Backslash
  <1>3. CASE v[i] # DQuote /\ v[i] # Backslash
    BY <1>3 DEF quoted_at
  <1> QED
    BY <1>1, <1>2, <1>3

\* A code is found at a position.
CodeAt(v, p, code) == \A i \in 1..Len(code) : v[p + (i - 1)] = code[i]

\* One step of std::quoted turns one code into its byte and goes on after it.
LEMMA QuotedCode ==
  ASSUME NEW v, NEW n \in Nat, n = Len(v), NEW p \in Nat \ {0}, NEW code, NEW c,
         IsEscape(code, c), p + Len(code) <= n + 1, CodeAt(v, p, code)
  PROVE  /\ Len(code) \in Nat \ {0}
         /\ quoted_at(v, p).text = <<c>> /\ quoted_at(v, p).next = p + Len(code)
  <1>1. CASE code = <<c>> /\ c \notin {DQuote, Backslash}
    <2>1. Len(code) = 1 /\ code[1] = c /\ p + (1 - 1) = p
      BY <1>1
    <2>2. v[p] = c /\ c # DQuote /\ c # Backslash
      BY <1>1, <2>1 DEF CodeAt
    <2> QED
      BY <2>1, <2>2 DEF quoted_at
  <1>2. CASE code = <<Backslash, c>>
    <2>1. Len(code) = 2 /\ code[1] = Backslash /\ code[2] = c
      BY <1>2
    <2>2. v[p] = Backslash /\ v[p + 1] = c
      <3>1. v[p + (1 - 1)] = code[1] /\ v[p + (2 - 1)] = code[2]
        BY <2>1 DEF CodeAt
      <3>2. p + (1 - 1) = p /\ p + (2 - 1) = p + 1
        OBVIOUS
      <3> QED
        BY <2>1, <3>1, <3>2
    <2>3. p < n
      BY <2>1
    <2> QED
      BY <2>1, <2>2, <2>3 DEF quoted_at, DQuote, Backslash
  <1> QED
    BY <1>1, <1>2 DEF IsEscape

\* Whatever a client has escaped, std::quoted gives back the text.
LEMMA QuotedEscaping ==
  ASSUME NEW codes \in Seq(Text), NEW text \in Text, IsEscaping(codes, text)
  PROVE  LET v == <<DQuote>> \o FlattenSeq(codes) \o <<DQuote>>
         IN  v \in Text /\ Byte(v, 1) = DQuote /\ quoted(v) = text
  <1>0. PICK v : v = <<DQuote>> \o FlattenSeq(codes) \o <<DQuote>>
    OBVIOUS
  <1>1. PICK m \in Nat : m = Len(text)
    BY LenProperties DEF Text
  <1>2. Len(codes) = m /\ \A k \in 1..m : IsEscape(codes[k], text[k])
    BY <1>1, LenProperties DEF IsEscaping, Text
  <1>3. PICK s : s = FlattenSeq(codes)
    OBVIOUS
  <1>4. s \in Text /\ \E pos : Positions(pos, codes, s, m)
    BY <1>2, <1>3, CodePositions
  <1>5. PICK pos : Positions(pos, codes, s, m)
    BY <1>4
  <1>6. PICK l \in Nat : l = Len(s)
    BY <1>4, LenProperties DEF Text
  <1>7. PICK n \in Nat : n = l + 2
    OBVIOUS
  <1>8. /\ v \in Seq(Nat) /\ Len(v) = n /\ v[1] = DQuote /\ v[n] = DQuote
        /\ \A i \in 1..l : v[i + 1] = s[i]
    <2>1. PICK d \in Nat : d = DQuote
      BY DEF DQuote
    <2>2. PICK t : t = <<d>> \o s
      OBVIOUS
    <2>3. s \in Seq(Nat) /\ Len(s) = l
      BY <1>4, <1>6 DEF Text
    <2>4. t \in Seq(Nat) /\ Len(t) = l + 1 /\ t[1] = d /\ \A i \in 1..l : t[i + 1] = s[i]
      BY <2>2, <2>3
    <2>5. v = t \o <<d>>
      BY <1>0, <1>3, <2>1, <2>2
    <2>6. v \in Seq(Nat) /\ Len(v) = l + 2 /\ v[l + 2] = d /\ \A i \in 1..l + 1 : v[i] = t[i]
      <3>1. t \in Seq(Nat) /\ Len(t) = l + 1
        BY <2>4
      <3> QED
        BY <2>5, <3>1
    <2>7. v[1] = d
      <3>1. 1 \in 1..l + 1
        OBVIOUS
      <3> QED
        BY <2>4, <2>6, <3>1
    <2>8. ASSUME NEW i \in 1..l
          PROVE  v[i + 1] = s[i]
      <3>1. i + 1 \in 1..l + 1
        OBVIOUS
      <3> QED
        BY <2>4, <2>6, <3>1
    <2> QED
      BY <1>7, <2>1, <2>6, <2>7, <2>8
  <1>9. Byte(v, 1) = DQuote
    <2>1. v \in Text /\ 1 \in 1..n + 1 /\ 1 <= n
      BY <1>7, <1>8 DEF Text
    <2> QED
      BY <1>8, <2>1, ByteDef
  <1>10. PICK step : step = [i \in 1..n |-> quoted_at(v, i)]
    OBVIOUS
  <1>11. Len(step) = n
    BY <1>10
  <1>12. \A i \in 1..n : step[i].next \in i + 1..n + 2
    BY <1>8, <1>10, QuotedNext
  <1>13. PICK two : two = 2
    OBVIOUS
  <1>14. PICK f : Decoded(step, two) = f[two] /\ Decodes(f, step, n)
    BY <1>11, <1>12, DecodedDef
  <1>15. quoted(v) = f[two]
    BY <1>8, <1>10, <1>13, <1>14 DEF quoted
  <1>16. /\ pos \in [1..m + 1 -> Nat \ {0}] /\ pos[1] = 1 /\ pos[m + 1] = l + 1
         /\ \A k \in 1..m : /\ pos[k + 1] = pos[k] + Len(codes[k]) /\ pos[k + 1] <= l + 1
                            /\ \A i \in 1..Len(codes[k]) : s[pos[k] + (i - 1)] = codes[k][i]
    BY <1>5, <1>6 DEF Positions
  <1>17. PICK at : at = [k \in 1..m + 1 |-> pos[k] + 1]
    OBVIOUS
  <1>18. ASSUME NEW k \in 1..m
         PROVE  f[at[k]] = <<text[k]>> \o f[at[k + 1]]
    <2>1. PICK p \in Nat \ {0} : p = pos[k]
      BY <1>16
    <2>2. PICK code : code = codes[k]
      OBVIOUS
    <2>3. PICK c : c = text[k]
      OBVIOUS
    <2>4. IsEscape(code, c)
      BY <1>2, <2>2, <2>3
    <2>5. pos[k + 1] = p + Len(code) /\ p + Len(code) <= l + 1
      BY <1>16, <2>1, <2>2
    <2>6. PICK q \in Nat \ {0} : q = p + 1
      OBVIOUS
    <2>7. PICK e \in Nat : e = Len(code)
      BY <1>2, <2>2, ElementOfSeq, LenProperties DEF Text
    <2>8. ASSUME NEW i \in 1..e
          PROVE  v[q + (i - 1)] = code[i]
      <3>1. s[p + (i - 1)] = code[i]
        BY <1>16, <2>1, <2>2, <2>7
      <3>2. PICK h \in 1..l : h = p + (i - 1)
        BY <2>5, <2>7
      <3>3. h + 1 = q + (i - 1)
        BY <2>6, <3>2
      <3>4. v[h + 1] = s[h]
        BY <1>8
      <3> QED
        BY <3>1, <3>2, <3>3, <3>4
    <2>9. q + e <= n + 1
      BY <1>7, <2>5, <2>6, <2>7
    <2>10. e > 0 /\ quoted_at(v, q).text = <<c>> /\ quoted_at(v, q).next = q + e
      <3>1. q + Len(code) <= n + 1 /\ n = Len(v)
        BY <1>8, <2>7, <2>9
      <3>2. CodeAt(v, q, code)
        BY <2>7, <2>8 DEF CodeAt
      <3>3. /\ Len(code) \in Nat \ {0}
            /\ quoted_at(v, q).text = <<c>> /\ quoted_at(v, q).next = q + Len(code)
        BY <2>4, <3>1, <3>2, QuotedCode
      <3> QED
        BY <2>7, <3>3
    <2>11. q \in 1..n
      BY <2>9, <2>10
    <2>12. step[q] = quoted_at(v, q)
      BY <1>10, <2>11
    <2>13. f[q] = step[q].text \o f[step[q].next]
      BY <1>14, <2>11 DEF Decodes
    <2>14. at[k] = q /\ at[k + 1] = q + e
      <3>1. k \in 1..m + 1 /\ k + 1 \in 1..m + 1
        OBVIOUS
      <3>2. at[k] = pos[k] + 1 /\ at[k + 1] = pos[k + 1] + 1
        BY <1>17, <3>1
      <3> QED
        BY <2>1, <2>5, <2>6, <2>7, <3>2
    <2> QED
      BY <2>3, <2>10, <2>12, <2>13, <2>14
  <1>19. f[at[m + 1]] = <<>>
    <2>1. m + 1 \in 1..m + 1
      OBVIOUS
    <2>2. at[m + 1] = n /\ n \in 1..n
      BY <1>7, <1>16, <1>17, <2>1
    <2>3. step[n].text = <<>> /\ step[n].next = n + 1
      <3>1. step[n] = quoted_at(v, n)
        BY <1>10, <2>2
      <3>2. quoted_at(v, n) = [text |-> <<>>, next |-> Len(v) + 1]
        BY <1>8 DEF quoted_at, DQuote, Backslash
      <3> QED
        BY <1>8, <3>1, <3>2
    <2>4. f[n] = <<>> \o <<>>
      BY <1>14, <2>2, <2>3 DEF Decodes
    <2>5. <<>> \o <<>> = <<>>
      OBVIOUS
    <2> QED
      BY <2>2, <2>4, <2>5
  <1>20. f[at[1]] = text
    <2>1. Chain(f, at, text, m)
      BY <1>18, <1>19 DEF Chain
    <2> QED
      BY <1>1, <2>1, DecodesText
  <1>21. at[1] = two
    <2>1. 1 \in 1..m + 1
      OBVIOUS
    <2> QED
      BY <1>13, <1>16, <1>17, <2>1
  <1> QED
    BY <1>0, <1>8, <1>9, <1>15, <1>20, <1>21 DEF Text


----------------------------------------------------------------------------
(* Parameters of a header                                                  *)

\* The text of a parameter has no semicolon, and trimming leaves its key and
\* what follows it.
LEMMA ParamDef ==
  ASSUME NEW p \in Param, IsParam(p)
  PROVE  /\ ParamText(p) \in Text
         /\ \A i \in 1..Len(ParamText(p)) : ParamText(p)[i] # Semicolon
         /\ trim_left(ParamText(p)) = p.key \o p.rest
  <1>0. PICK sp \in Seq(White) : sp = p.spaces
    BY DEF Param
  <1>1. PICK n \in Nat : n = Len(sp)
    BY LenProperties
  <1>2. PICK key \in Text : key = p.key
    BY DEF Param
  <1>3. PICK rest \in Text : rest = p.rest
    BY DEF Param
  <1>4. /\ key # <<>> => key[1] \notin White
        /\ \A i \in DOMAIN key : key[i] \notin {Equals, Semicolon}
        /\ rest # <<>> => rest[1] = Equals
        /\ \A i \in DOMAIN rest : rest[i] # Semicolon
    BY <1>2, <1>3 DEF IsParam
  <1>5. PICK X : X = Nat \ {Semicolon}
    OBVIOUS
  <1>6. White \subseteq X
    BY <1>5 DEF White, Semicolon
  <1>7. sp \in Seq(X) /\ Len(sp) = n /\ \A i \in 1..n : sp[i] \in White
    BY <1>1, <1>6, SeqMonotonic, ElementOfSeq
  <1>8. key \in Seq(X) /\ rest \in Seq(X)
    <2>1. key \in [1..Len(key) -> Nat] /\ Len(key) \in Nat /\ DOMAIN key = 1..Len(key)
      BY LenProperties DEF Text
    <2>2. key \in [1..Len(key) -> X]
      BY <1>4, <1>5, <2>1
    <2>3. rest \in [1..Len(rest) -> Nat] /\ Len(rest) \in Nat /\ DOMAIN rest = 1..Len(rest)
      BY LenProperties DEF Text
    <2>4. rest \in [1..Len(rest) -> X]
      BY <1>4, <1>5, <2>3
    <2> QED
      BY <2>1, <2>2, <2>3, <2>4
  <1>9. PICK t : t = key \o rest
    OBVIOUS
  <1>10. PICK s : s = ParamText(p)
    OBVIOUS
  <1>11. s = sp \o t /\ t \in Seq(X)
    <2>1. s = (sp \o key) \o rest
      BY <1>0, <1>2, <1>3, <1>10 DEF ParamText
    <2> QED
      BY <1>7, <1>8, <1>9, <2>1, ConcatAssociative, ConcatProperties, SMTT(40)
  <1>12. PICK m \in Nat : m = Len(t)
    BY <1>11, LenProperties
  <1>13. /\ s \in Seq(X) /\ Len(s) = n + m
         /\ \A i \in 1..n : s[i] \in White
         /\ \A i \in 1..m : s[n + i] = t[i]
    <2>1. /\ sp \o t \in Seq(X) /\ Len(sp \o t) = Len(sp) + Len(t)
          /\ \A i \in 1..Len(sp) + Len(t) :
               (sp \o t)[i] = IF i <= Len(sp) THEN sp[i] ELSE t[i - Len(sp)]
      BY <1>7, <1>11, ConcatProperties
    <2>2. /\ s \in Seq(X) /\ Len(s) = n + m
          /\ \A i \in 1..n + m : s[i] = IF i <= n THEN sp[i] ELSE t[i - n]
      BY <1>7, <1>11, <1>12, <2>1
    <2>3. ASSUME NEW i \in 1..n
          PROVE  s[i] \in White
      <3>1. i \in 1..n + m /\ i <= n
        OBVIOUS
      <3> QED
        BY <1>7, <2>2, <3>1
    <2>4. ASSUME NEW i \in 1..m
          PROVE  s[n + i] = t[i]
      <3>1. n + i \in 1..n + m /\ ~(n + i <= n) /\ (n + i) - n = i
        OBVIOUS
      <3> QED
        BY <2>2, <3>1
    <2> QED
      BY <2>2, <2>3, <2>4
  <1>14. s \in Text /\ \A i \in 1..Len(s) : s[i] # Semicolon
    <2>1. \A i \in 1..Len(s) : s[i] \in X
      BY <1>13, ElementOfSeq
    <2>2. s \in Seq(Nat)
      BY <1>5, <1>13
    <2> QED
      BY <1>5, <2>1, <2>2 DEF Text
  <1>15. PICK T : T = {i \in 1..n + m : s[i] \notin White}
    OBVIOUS
  <1>16. PICK first : first = SelectInSeq(s, LAMBDA c : c \notin White)
    OBVIOUS
  <1>17. first = IF T # {} THEN Min(T) ELSE 0
    BY <1>13, <1>15, <1>16 DEF SelectInSeq
  <1>18. trim_left(s) = IF first = 0 THEN <<>> ELSE SubSeq(s, first, Len(s))
    BY <1>16 DEF trim_left
  <1>19. CASE m = 0
    <2>1. T = {}
      BY <1>13, <1>15, <1>19
    <2>2. trim_left(s) = <<>>
      BY <1>17, <1>18, <2>1
    <2>3. t = <<>>
      BY <1>11, <1>12, <1>19, EmptySeq
    <2> QED
      BY <1>2, <1>3, <1>9, <1>10, <1>14, <2>2, <2>3
  <1>20. CASE m # 0
    <2>1. t[1] \notin White
      <3>1. CASE key # <<>>
        <4>1. Len(key) \in Nat \ {0}
          BY <1>8, <3>1, EmptySeq
        <4>2. t[1] = key[1]
          BY <1>8, <1>9, <4>1
        <4> QED
          BY <1>4, <3>1, <4>2
      <3>2. CASE key = <<>>
        <4>1. t = rest
          BY <1>8, <1>9, <3>2, ConcatEmptySeq
        <4>2. rest # <<>>
          BY <1>12, <1>20, <4>1, EmptySeq
        <4> QED
          BY <1>4, <4>1, <4>2 DEF White, Equals
      <3> QED
        BY <3>1, <3>2
    <2>2. PICK a \in Nat : a = n + 1
      OBVIOUS
    <2>3. a \in T
      <3>1. 1 \in 1..m /\ n + 1 \in 1..n + m
        BY <1>20
      <3>2. s[n + 1] = t[1]
        BY <1>13, <3>1
      <3> QED
        BY <1>15, <2>1, <2>2, <3>1, <3>2
    <2>4. ASSUME NEW i \in T
          PROVE  a <= i
      <3>1. i \in 1..n + m /\ s[i] \notin White
        BY <1>15
      <3>2. i \notin 1..n
        BY <1>13, <3>1
      <3> QED
        BY <2>2, <3>1, <3>2
    <2>5. T \in SUBSET Nat
      BY <1>15
    <2>6. Min(T) = a
      BY <2>3, <2>4, <2>5, LeastOf
    <2>7. first = a /\ a # 0
      BY <1>17, <2>2, <2>3, <2>6
    <2>8. trim_left(s) = SubSeq(s, n + 1, Len(s))
      BY <1>18, <2>2, <2>7
    <2>9. PICK u : u = SubSeq(s, n + 1, Len(s))
      OBVIOUS
    <2>10. u \in Seq(X) /\ Len(u) = m /\ \A i \in 1..m : u[i] = s[n + i]
      <3>1. n \in 0..Len(s) /\ Len(s) - n = m
        BY <1>13
      <3>2. /\ SubSeq(s, n + 1, Len(s)) \in Seq(X)
            /\ Len(SubSeq(s, n + 1, Len(s))) = Len(s) - n
            /\ \A i \in 1..Len(s) - n : SubSeq(s, n + 1, Len(s))[i] = s[n + i]
        BY <1>13, <3>1, Suffix
      <3> QED
        BY <2>9, <3>1, <3>2
    <2>11. u = t
      <3>1. Len(u) = Len(t) /\ \A i \in 1..Len(u) : u[i] = t[i]
        BY <1>12, <1>13, <2>10
      <3> QED
        BY <1>11, <2>10, <3>1, SeqEqual
    <2> QED
      BY <1>2, <1>3, <1>9, <1>10, <1>14, <2>8, <2>9, <2>11
  <1> QED
    BY <1>19, <1>20

\* What parse_header_value makes of one token.
TokenParsed(tok) ==
    LET pos == Find(tok, Equals)
    IN  IF pos = 0 THEN <<tok, Monostate>>
        ELSE <<Before(tok, pos), param_value(After(tok, pos))>>

\* parse_header_value reads one parameter as its key and its value.
LEMMA ParamParsed ==
  ASSUME NEW p \in Param, IsParam(p)
  PROVE  /\ TokenParsed(trim_left(ParamText(p)))[1] = p.key
         /\ \A b \in Text : p.rest = <<Equals>> \o b =>
               TokenParsed(trim_left(ParamText(p)))[2] = param_value(b)
  <1>1. PICK key \in Text : key = p.key
    BY DEF Param
  <1>2. PICK rest \in Text : rest = p.rest
    BY DEF Param
  <1>3. PICK c \in Nat : c = Equals
    BY DEF Equals
  <1>4. /\ \A i \in 1..Len(key) : key[i] # c
        /\ rest # <<>> => rest[1] = c
    BY <1>1, <1>2, <1>3, LenProperties DEF IsParam, Text
  <1>5. PICK tok : tok = key \o rest
    OBVIOUS
  <1>6. trim_left(ParamText(p)) = tok
    BY <1>1, <1>2, <1>5, ParamDef
  <1>7. ASSUME NEW b \in Text, rest = <<c>> \o b
        PROVE  TokenParsed(tok) = <<key, param_value(b)>>
    <2>1. PICK s : s = key \o <<c>> \o b
      OBVIOUS
    <2>2. s = tok
      <3>1. key \in Seq(Nat) /\ b \in Seq(Nat)
        BY DEF Text
      <3>2. PICK e : e = <<c>>
        OBVIOUS
      <3>3. e \in Seq(Nat)
        BY <3>2
      <3>4. s = (key \o e) \o b /\ tok = key \o (e \o b)
        BY <1>5, <1>7, <2>1, <3>2
      <3> QED
        BY <3>1, <3>3, <3>4, ConcatAssociative
    <2>3. /\ Len(key) \in Nat /\ Find(s, c) = Len(key) + 1
          /\ Before(s, Len(key) + 1) = key /\ After(s, Len(key) + 1) = b
      BY <1>4, <2>1, FindCuts
    <2>4. PICK q \in Nat \ {0} : q = Len(key) + 1
      BY <2>3
    <2>5. Find(tok, Equals) = q /\ Before(tok, q) = key /\ After(tok, q) = b
      BY <1>3, <2>2, <2>3, <2>4
    <2> QED
      BY <2>5 DEF TokenParsed
  <1>8. CASE rest = <<>>
    <2>1. tok = key
      BY <1>5, <1>8, ConcatEmptySeq DEF Text
    <2>2. PICK n \in Nat : n = Len(key)
      BY LenProperties DEF Text
    <2>3. Find(tok, c) = 0
      BY <1>4, <2>1, <2>2, FindNone
    <2>4. TokenParsed(tok)[1] = key
      BY <1>3, <2>1, <2>3 DEF TokenParsed
    <2>5. ASSUME NEW b \in Text, rest = <<c>> \o b
          PROVE  FALSE
      <3>1. Len(<<c>> \o b) = 1 + Len(b) /\ Len(b) \in Nat
        BY DEF Text
      <3>2. Len(rest) = 1 + Len(b)
        BY <2>5, <3>1
      <3>3. Len(rest) = 0
        BY <1>8
      <3> QED
        BY <3>1, <3>2, <3>3
    <2> QED
      BY <1>1, <1>2, <1>3, <1>6, <2>4, <2>5
  <1>9. CASE rest # <<>>
    <2>1. PICK b : b = Tail(rest)
      OBVIOUS
    <2>2. b \in Seq(Nat) /\ rest = <<c>> \o b
      <3>1. rest \in Seq(Nat) /\ rest[1] = c
        BY <1>4, <1>9 DEF Text
      <3> QED
        BY <1>9, <2>1, <3>1
    <2>3. TokenParsed(tok)[1] = key
      <3>1. b \in Text
        BY <2>2 DEF Text
      <3>2. TokenParsed(tok) = <<key, param_value(b)>>
        BY <1>7, <2>2, <3>1
      <3> QED
        BY <3>2
    <2> QED
      BY <1>1, <1>2, <1>3, <1>6, <1>7, <2>3
  <1> QED
    BY <1>8, <1>9

\* However a client has written a value, it is read.
LEMMA SaysDef ==
  ASSUME NEW text \in Text, NEW codes \in Seq(Text), NEW rest, Says(rest, text, codes)
  PROVE  \E b \in Text : rest = <<Equals>> \o b /\ param_value(b) = text
  <1>1. CASE rest = <<Equals>> \o text /\ (text # <<>> => text[1] # DQuote)
    <2>1. PICK n \in Nat : n = Len(text)
      BY LenProperties DEF Text
    <2>2. Byte(text, 1) = IF 1 <= n THEN text[1] ELSE Nul
      <3>1. 1 \in 1..n + 1
        OBVIOUS
      <3> QED
        BY <2>1, <3>1, ByteDef
    <2>3. 1 <= n => text # <<>>
      BY <2>1
    <2>4. Byte(text, 1) # DQuote
      BY <1>1, <2>2, <2>3 DEF Nul, DQuote
    <2>5. param_value(text) = text
      BY <2>4 DEF param_value
    <2> QED
      BY <1>1, <2>5
  <1>2. CASE /\ rest = <<Equals, DQuote>> \o FlattenSeq(codes) \o <<DQuote>>
             /\ IsEscaping(codes, text)
    <2>1. PICK s : s = FlattenSeq(codes)
      OBVIOUS
    <2>2. s \in Seq(Nat)
      BY <2>1, FlattenType DEF Text
    <2>3. PICK v : v = <<DQuote>> \o s \o <<DQuote>>
      OBVIOUS
    <2>4. v \in Text /\ Byte(v, 1) = DQuote /\ quoted(v) = text
      BY <1>2, <2>1, <2>3, QuotedEscaping
    <2>5. rest = <<Equals>> \o v
      <3>1. PICK e : e = <<Equals>>
        OBVIOUS
      <3>2. PICK d : d = <<DQuote>>
        OBVIOUS
      <3>3. e \in Seq(Nat) /\ d \in Seq(Nat)
        BY <3>1, <3>2 DEF Equals, DQuote
      <3>4. <<Equals, DQuote>> = e \o d
        BY <3>1, <3>2
      <3>5. rest = ((e \o d) \o s) \o d /\ v = (d \o s) \o d
        BY <1>2, <2>1, <2>3, <3>2, <3>4
      <3>6. (e \o d) \o s = e \o (d \o s) /\ d \o s \in Seq(Nat)
        BY <2>2, <3>3, ConcatAssociative, ConcatProperties
      <3>7. (e \o (d \o s)) \o d = e \o ((d \o s) \o d)
        BY <3>3, <3>6, ConcatAssociative, SMTT(40)
      <3> QED
        BY <3>1, <3>5, <3>6, <3>7
    <2>6. param_value(v) = text
      BY <2>4 DEF param_value
    <2> QED
      BY <2>4, <2>5, <2>6
  <1> QED
    BY <1>1, <1>2 DEF Says


----------------------------------------------------------------------------
(* The name of a part                                                      *)

ParamTexts(params) == [k \in DOMAIN params |-> ParamText(params[k])]

\* What the last parameter with the key "name" says, or nothing, is the name.
IsName(text, params, codes) ==
    LET named == {k \in DOMAIN params : params[k].key = <<NameWord>>}
    IN  /\ named = {} => text = <<>>
        /\ named # {} => Says(params[Max(named)].rest, text, codes)

\* parse_header_value finds the name "url" in the parameters of a part if, and only
\* if, they say it.
LEMMA NameParsed ==
  ASSUME NEW params \in Seq(Param), params # <<>>, \A k \in DOMAIN params : IsParam(params[k]),
         NEW text \in Text, NEW codes \in Seq(Text), IsName(text, params, codes)
  PROVE  (Lookup(parse_header_value(ParamsText(params)), <<NameWord>>) = <<UrlWord>>)
           <=> (text = <<UrlWord>>)
  <1>1. PICK n \in Nat \ {0} : n = Len(params) /\ DOMAIN params = 1..n
    BY EmptySeq, LenProperties
  <1>2. PICK ss : ss = ParamTexts(params)
    OBVIOUS
  <1>3. ss = [k \in 1..n |-> ParamText(params[k])]
    BY <1>1, <1>2 DEF ParamTexts
  <1>4. \A k \in 1..n : params[k] \in Param /\ IsParam(params[k])
    BY <1>1, ElementOfSeq
  <1>5. ASSUME NEW k \in 1..n
        PROVE  ss[k] \in Text /\ \A i \in 1..Len(ss[k]) : ss[k][i] # Semicolon
    <2>1. ss[k] = ParamText(params[k])
      BY <1>3
    <2> QED
      BY <1>4, <2>1, ParamDef
  <1>6. ss \in Seq(Text) /\ Len(ss) = n
    <2>1. ss \in [1..n -> Text]
      BY <1>3, <1>5
    <2> QED
      BY <2>1
  <1>7. ss # <<>> /\ DOMAIN ss = 1..n
    BY <1>6, LenProperties
  <1>8. PICK header : header = ParamsText(params)
    OBVIOUS
  <1>9. Split(header, Semicolon) = ss
    <2>1. PICK sep \in Nat : sep = Semicolon
      BY DEF Semicolon
    <2>2. Free(ss, sep)
      BY <1>5, <1>6, <2>1 DEF Free
    <2>3. Split(Joined(ss, sep), sep) = ss
      BY <1>6, <1>7, <2>2, SplitJoined
    <2>4. header = Joined(ss, sep)
      BY <1>2, <1>8, <2>1 DEF ParamsText, ParamTexts
    <2> QED
      BY <2>1, <2>3, <2>4
  <1>10. PICK kvs : kvs = [i \in 1..n |-> TokenParsed(trim_left(ss[i]))]
    OBVIOUS
  <1>11. PICK used : used = 1..n
    OBVIOUS
  <1>12. parse_header_value(header) = MapOf(kvs, used)
    BY <1>7, <1>9, <1>10, <1>11 DEF parse_header_value, TokenParsed
  <1>13. ASSUME NEW i \in 1..n
         PROVE  /\ kvs[i][1] = params[i].key
                /\ \A b \in Text : params[i].rest = <<Equals>> \o b => kvs[i][2] = param_value(b)
    <2>1. kvs[i] = TokenParsed(trim_left(ParamText(params[i])))
      BY <1>3, <1>10
    <2> QED
      BY <1>4, <2>1, ParamParsed
  <1>14. PICK M : M = MapOf(kvs, used)
    OBVIOUS
  <1>15. PICK word : word = <<NameWord>>
    OBVIOUS
  <1>16. PICK named \in SUBSET (1..n) : named = {k \in 1..n : params[k].key = word}
    OBVIOUS
  <1>17. /\ named = {} => text = <<>>
         /\ named # {} => Says(params[Max(named)].rest, text, codes)
    BY <1>1, <1>15, <1>16 DEF IsName
  <1>18. Has(M, word) <=> named # {}
    <2>1. Has(M, word) <=> \E i \in used : kvs[i][1] = word
      BY <1>11, <1>14, MapOfDef
    <2> QED
      BY <1>11, <1>13, <1>16, <2>1
  <1>19. CASE named = {}
    <2>1. Lookup(M, word) = Monostate
      BY <1>18, <1>19 DEF Lookup
    <2>2. Monostate # <<UrlWord>>
      BY DEF Monostate, UrlWord
    <2>3. text # <<UrlWord>>
      BY <1>17, <1>19
    <2> QED
      BY <1>8, <1>12, <1>14, <1>15, <2>1, <2>2, <2>3
  <1>20. CASE named # {}
    <2>1. \E i \in used : LastFor(kvs, used, word, i) /\ MapOf(kvs, used)[word] = kvs[i][2]
      BY <1>11, <1>14, <1>18, <1>20, MapOfDef
    <2>2. PICK i \in used : LastFor(kvs, used, word, i) /\ M[word] = kvs[i][2]
      BY <1>14, <2>1
    <2>3. PICK g : g = Max(named)
      OBVIOUS
    <2>4. g \in named /\ \A m \in named : m <= g
      BY <1>20, <2>3, GreatestNumber
    <2>5. i = g
      <3>1. i \in 1..n /\ kvs[i][1] = word /\ \A j \in 1..n : kvs[j][1] = word => j <= i
        BY <1>11, <2>2 DEF LastFor
      <3>2. i \in named
        BY <1>13, <1>16, <3>1
      <3>3. g \in 1..n /\ kvs[g][1] = word
        BY <1>13, <1>16, <2>4
      <3>4. i <= g /\ g <= i
        BY <2>4, <3>1, <3>2, <3>3
      <3> QED
        BY <3>1, <3>3, <3>4
    <2>6. PICK b \in Text : params[g].rest = <<Equals>> \o b /\ param_value(b) = text
      BY <1>17, <1>20, <2>3, SaysDef
    <2>7. g \in 1..n
      BY <1>16, <2>4
    <2>8. kvs[g][2] = text
      BY <1>13, <2>6, <2>7
    <2>9. Lookup(M, word) = text
      BY <1>18, <1>20, <2>2, <2>5, <2>8 DEF Lookup
    <2> QED
      BY <1>8, <1>12, <1>14, <1>15, <2>9
  <1> QED
    BY <1>19, <1>20


\* Of all the sections of a part the first one may have the name of the part.
LEMMA PartNamed ==
  ASSUME NEW part \in Part, NEW f \in PartField, IsPartField(f, part),
         NEW q \in 1..Len(part.pieces)
  PROVE  /\ (field_name(Sections(part)[q]) = <<UrlWord>>) <=> (q = 1 /\ f.name = <<UrlWord>>)
         /\ Sections(part)[q].data = part.pieces[q]
  <1>1. PICK sec : sec = Sections(part)[q]
    OBVIOUS
  <1>2. sec = [headers |-> IF q = 1 /\ part.headers # <<>> THEN OwnHeaders(part) ELSE NoEntries,
               data |-> part.pieces[q]]
    BY <1>1, SectionsDef
  <1>3. f.params \in Seq(Param) /\ f.name \in Text /\ f.codes \in Seq(Text)
    BY DEF PartField
  <1>4. PICK cd : cd = <<ContentDisposition>>
    OBVIOUS
  <1>5. PICK headers : headers = part.headers
    OBVIOUS
  <1>6. PICK n \in Nat : n = Len(headers) /\ DOMAIN headers = 1..n
    BY <1>5, PartType
  <1>7. PICK D \in SUBSET (1..n) : D = {i \in 1..n : headers[i].name = cd}
    OBVIOUS
  <1>8. /\ \/ D = {} /\ f.params = <<>>
           \/ f.params # <<>> /\ \E i \in D : D = {i} /\ headers[i].value = ParamsText(f.params)
        /\ \A k \in DOMAIN f.params : IsParam(f.params[k])
        /\ IsName(f.name, f.params, f.codes)
    BY <1>4, <1>5, <1>6, <1>7 DEF IsPartField, IsName
  <1>9. Monostate # <<UrlWord>>
    BY DEF Monostate, UrlWord
  <1>10. D = {} => f.name = <<>>
    <2>1. ASSUME D = {}
          PROVE  f.name = <<>>
      <3>1. f.params = <<>>
        BY <1>8, <2>1
      <3>2. DOMAIN f.params = {}
        BY <3>1
      <3> QED
        BY <1>8, <3>2 DEF IsName
    <2> QED
      BY <2>1
  <1>11. f.name = <<>> => f.name # <<UrlWord>>
    OBVIOUS
  <1>12. ASSUME sec.headers = NoEntries
         PROVE  field_name(sec) # <<UrlWord>>
    <2>1. ~Has(sec.headers, <<ContentDisposition>>)
      BY <1>12 DEF Has, NoEntries
    <2> QED
      BY <1>9, <2>1 DEF field_name
  <1>13. CASE q # 1
    BY <1>1, <1>2, <1>12, <1>13
  <1>14. CASE q = 1 /\ headers = <<>>
    <2>1. n = 0
      BY <1>6, <1>14
    <2>2. D = {}
      BY <1>7, <2>1
    <2>3. sec.headers = NoEntries
      BY <1>2, <1>5, <1>14
    <2> QED
      BY <1>1, <1>2, <1>10, <1>11, <1>12, <2>2, <2>3
  <1>15. CASE q = 1 /\ headers # <<>>
    <2>1. PICK own : own = OwnHeaders(part)
      OBVIOUS
    <2>2. sec.headers = own
      BY <1>2, <1>5, <1>15, <2>1
    <2>3. own = [x \in {headers[i].name : i \in 1..n} |->
                   parse_header_value(headers[SelectLastInSeq(headers, LAMBDA h : h.name = x)].value)]
      BY <1>5, <1>6, <2>1 DEF OwnHeaders
    <2>4. Has(own, cd) <=> D # {}
      BY <1>7, <2>3 DEF Has
    <2>5. CASE D = {}
      <3>1. field_name(sec) = Monostate
        BY <1>4, <2>2, <2>4, <2>5 DEF field_name
      <3> QED
        BY <1>1, <1>2, <1>9, <1>10, <1>11, <2>5, <3>1
    <2>6. CASE D # {}
      <3>1. f.params # <<>>
        BY <1>8, <2>6
      <3>2. PICK i \in D : D = {i} /\ headers[i].value = ParamsText(f.params)
        BY <1>8, <2>6
      <3>3. Max(D) = i
        BY <2>6, <3>2, GreatestNumber
      <3>4. SelectLastInSeq(headers, LAMBDA h : h.name = cd) = i
        BY <1>6, <1>7, <2>6, <3>3 DEF SelectLastInSeq
      <3>5. cd \in {headers[k].name : k \in 1..n}
        BY <1>7, <2>6
      <3>6. own[cd] =
              parse_header_value(headers[SelectLastInSeq(headers, LAMBDA h : h.name = cd)].value)
        BY <2>3, <3>5
      <3>7. own[cd] = parse_header_value(ParamsText(f.params))
        BY <3>2, <3>4, <3>6
      <3>8. field_name(sec) = Lookup(parse_header_value(ParamsText(f.params)), <<NameWord>>)
        BY <1>4, <2>2, <2>4, <2>6, <3>7 DEF field_name
      <3>9. (field_name(sec) = <<UrlWord>>) <=> (f.name = <<UrlWord>>)
        BY <1>3, <1>8, <3>1, <3>8, NameParsed
      <3> QED
        BY <1>1, <1>2, <1>15, <3>9
    <2> QED
      BY <2>5, <2>6
  <1> QED
    BY <1>13, <1>14, <1>15


----------------------------------------------------------------------------
(* The part named "url"                                                    *)

\* The position of every element, and that the pieces do not overlap.
LEMMA FlattenFind ==
  ASSUME NEW T, NEW ss \in Seq(Seq(T)), NEW i \in 1..Len(FlattenSeq(ss))
  PROVE  \E j \in 1..Len(ss) : \E q \in 1..Len(ss[j]) : i = Len(UpTo(ss, j - 1)) + q
  <1>1. PICK m \in Nat : m = Len(ss)
    BY LenProperties
  <1>2. \A j \in 0..m : UpTo(ss, j) \in Seq(T) /\ Len(UpTo(ss, j)) \in Nat
    BY <1>1, UpToType, LenProperties
  <1>3. UpTo(ss, 0) = <<>> /\ UpTo(ss, m) = FlattenSeq(ss)
    BY <1>1, UpToEnds
  <1>4. i \in Nat /\ i >= 1 /\ i <= Len(UpTo(ss, m)) /\ Len(UpTo(ss, 0)) = 0
    <2>1. Len(UpTo(ss, m)) \in Nat /\ Len(<<>>) = 0
      BY <1>2
    <2> QED
      BY <1>3, <2>1
  <1>5. PICK J : J = {j \in 0..m : i <= Len(UpTo(ss, j))}
    OBVIOUS
  <1>6. m \in J /\ J \in SUBSET Nat
    BY <1>4, <1>5
  <1>7. PICK j \in J : \A h \in J : j <= h
    BY <1>6, LeastNumber
  <1>8. j \in 0..m /\ i <= Len(UpTo(ss, j))
    BY <1>5
  <1>9. j # 0
    BY <1>4, <1>8
  <1>10. j \in 1..m /\ j - 1 \in 0..m /\ ~(j <= j - 1)
    BY <1>8, <1>9
  <1>11. ~(i <= Len(UpTo(ss, j - 1)))
    BY <1>5, <1>7, <1>10
  <1>12. PICK l \in Nat : l = Len(UpTo(ss, j - 1))
    BY <1>2, <1>10
  <1>13. PICK d \in Nat : d = Len(ss[j])
    BY <1>1, <1>10, ElementOfSeq, LenProperties
  <1>14. Len(UpTo(ss, j)) = l + d
    <2>1. UpTo(ss, j) = UpTo(ss, j - 1) \o ss[j]
      BY <1>1, <1>10, UpToNext
    <2>2. UpTo(ss, j - 1) \in Seq(T) /\ ss[j] \in Seq(T)
      BY <1>1, <1>2, <1>10, ElementOfSeq
    <2> QED
      BY <1>12, <1>13, <2>1, <2>2, ConcatProperties
  <1>15. PICK q \in 1..d : i = l + q
    <2>1. i - l \in 1..d /\ i = l + (i - l)
      BY <1>4, <1>8, <1>11, <1>12, <1>14
    <2> QED
      BY <2>1
  <1> QED
    BY <1>1, <1>10, <1>12, <1>13, <1>15

\* More pieces, put one after the other, are at least as long.
LEMMA UpToGrows ==
  ASSUME NEW T, NEW ss \in Seq(Seq(T)), NEW m \in Nat, m = Len(ss), NEW a \in 0..m, NEW b \in 0..m,
         a <= b
  PROVE  /\ Len(UpTo(ss, a)) \in Nat /\ Len(UpTo(ss, b)) \in Nat
         /\ Len(UpTo(ss, a)) <= Len(UpTo(ss, b))
  <1>1. \A j \in 0..m : UpTo(ss, j) \in Seq(T) /\ Len(UpTo(ss, j)) \in Nat
    BY UpToType, LenProperties
  <1> DEFINE K == {k \in Nat : a + k <= m => Len(UpTo(ss, a)) <= Len(UpTo(ss, a + k))}
  <1>2. 0 \in K
    <2>1. a + 0 = a /\ Len(UpTo(ss, a)) \in Nat
      BY <1>1
    <2> QED
      BY <2>1
  <1>3. ASSUME NEW k \in Nat, k \in K
        PROVE  k + 1 \in K
    <2>1. CASE a + (k + 1) <= m
      <3>1. PICK j \in 1..m : j = a + (k + 1)
        BY <2>1
      <3>2. j - 1 = a + k /\ j - 1 \in 0..m
        BY <3>1
      <3>3. Len(UpTo(ss, a)) <= Len(UpTo(ss, j - 1))
        BY <1>3, <3>2
      <3>4. UpTo(ss, j) = UpTo(ss, j - 1) \o ss[j]
        BY UpToNext
      <3>5. UpTo(ss, j - 1) \in Seq(T) /\ ss[j] \in Seq(T) /\ Len(ss[j]) \in Nat
        BY <1>1, <3>2, ElementOfSeq, LenProperties
      <3>6. Len(UpTo(ss, j)) = Len(UpTo(ss, j - 1)) + Len(ss[j])
        BY <3>4, <3>5, ConcatProperties
      <3>7. Len(UpTo(ss, a)) \in Nat /\ Len(UpTo(ss, j - 1)) \in Nat
        BY <1>1, <3>2
      <3>8. Len(UpTo(ss, a)) <= Len(UpTo(ss, j))
        <4>1. PICK x \in Nat : x = Len(UpTo(ss, a))
          BY <3>7
        <4>2. PICK y \in Nat : y = Len(UpTo(ss, j - 1))
          BY <3>7
        <4>3. PICK z \in Nat : z = Len(ss[j])
          BY <3>5
        <4>4. x <= y /\ Len(UpTo(ss, j)) = y + z
          BY <3>3, <3>6, <4>1, <4>2, <4>3
        <4>5. x <= y + z
          BY <4>4
        <4> QED
          BY <4>1, <4>4, <4>5
      <3> QED
        BY <3>1, <3>8
    <2>2. CASE ~(a + (k + 1) <= m)
      BY <2>2
    <2> QED
      BY <2>1, <2>2
  <1> HIDE DEF K
  <1>4. PICK d \in Nat : a + d = b
    <2>1. b - a \in Nat /\ a + (b - a) = b
      OBVIOUS
    <2> QED
      BY <2>1
  <1>5. d \in K
    BY <1>2, <1>3, SetInduction
  <1>6. Len(UpTo(ss, a)) <= Len(UpTo(ss, b))
    <2>1. a + d <= m
      BY <1>4
    <2>2. Len(UpTo(ss, a)) <= Len(UpTo(ss, a + d))
      BY <1>5, <2>1 DEF K
    <2> QED
      BY <1>4, <2>2
  <1> QED
    BY <1>1, <1>6

\* u is the beginning of the first part named "url".
IsFirstUrl(u, parts, form) ==
    \E i \in DOMAIN form :
       /\ form[i].name = <<UrlWord>> /\ u = parts[i].pieces[1]
       /\ \A j \in DOMAIN form : form[j].name = <<UrlWord>> => i <= j

\* What handle_post finds among the sections is the first piece of the first part
\* that the form names "url", wherever the parser has given up.
LEMMA FindUrlDef ==
  ASSUME NEW parts \in Seq(Part), NEW form, IsMultipartOf(parts, form), NEW X,
         sections \in Seq(X), IsPrefix(sections, AllSections(parts)), find_url # <<>>
  PROVE  IsFirstUrl(find_url, parts, form)
  <1>1. /\ form \in Seq(PartField) /\ Len(form) = Len(parts)
        /\ \A i \in DOMAIN form : IsPartField(form[i], parts[i])
    BY DEF IsMultipartOf
  <1>2. PICK m \in Nat : m = Len(parts)
    BY LenProperties
  <1>3. DOMAIN form = 1..m
    BY <1>1, <1>2, LenProperties
  <1>4. PICK S : S = SectionSeq(parts)
    OBVIOUS
  <1>5. S \in Seq(Seq(AnySection)) /\ Len(S) = m /\ \A i \in 1..m : S[i] = Sections(parts[i])
    BY <1>2, <1>4, SectionSeqType
  <1>6. PICK A : A = AllSections(parts)
    OBVIOUS
  <1>7. A = FlattenSeq(S) /\ A \in Seq(AnySection)
    BY <1>4, <1>5, <1>6, FlattenType DEF AllSections, SectionSeq
  <1>8. PICK n \in Nat : n = Len(sections)
    BY LenProperties
  <1>9. n <= Len(A) /\ Len(A) \in Nat /\ \A i \in 1..n : sections[i] = A[i]
    <2>1. PICK Y : Y = X \cup AnySection
      OBVIOUS
    <2>2. sections \in Seq(Y) /\ A \in Seq(Y)
      BY <1>7, <2>1
    <2>3. IsPrefix(sections, A)
      BY <1>6
    <2> QED
      BY <1>8, <2>2, <2>3, PrefixDef, LenProperties
  <1>10. PICK T : T = {i \in 1..n : field_name(sections[i]) = <<UrlWord>>}
    OBVIOUS
  <1> T \in SUBSET Nat
    BY <1>10
  <1>11. find_url = IF T = {} THEN <<>> ELSE sections[Min(T)].data
    <2>1. PICK i : i = SelectInSeq(sections, LAMBDA s : field_name(s) = <<UrlWord>>)
      OBVIOUS
    <2>2. i = IF T # {} THEN Min(T) ELSE 0
      BY <1>8, <1>10, <2>1 DEF SelectInSeq
    <2>3. find_url = IF i = 0 THEN <<>> ELSE sections[i].data
      BY <2>1 DEF find_url
    <2>4. T # {} => Min(T) # 0
      <3>1. ASSUME T # {}
            PROVE  Min(T) \in T
        <4>1. PICK a \in T : \A k \in T : a <= k
          BY <3>1, LeastNumber
        <4> QED
          BY <4>1, LeastOf
      <3> QED
        BY <1>10, <3>1
    <2> QED
      BY <2>2, <2>3, <2>4
  <1>12. T # {}
    BY <1>11
  <1>13. PICK i \in T : \A k \in T : i <= k
    BY <1>12, LeastNumber
  <1>14. find_url = sections[i].data
    BY <1>11, <1>12, <1>13, LeastOf
  <1>15. i \in 1..n /\ field_name(A[i]) = <<UrlWord>> /\ find_url = A[i].data
    BY <1>9, <1>10, <1>14
  <1>16. i \in 1..Len(FlattenSeq(S))
    BY <1>7, <1>9, <1>15
  <1>17. PICK j \in 1..m : \E q \in 1..Len(S[j]) : i = Len(UpTo(S, j - 1)) + q
    BY <1>5, <1>16, FlattenFind
  <1>18. PICK q \in 1..Len(S[j]) : i = Len(UpTo(S, j - 1)) + q
    BY <1>17
  <1>19. A[i] = Sections(parts[j])[q]
    <2>1. j \in 1..Len(S)
      BY <1>5
    <2>2. FlattenSeq(S)[Len(UpTo(S, j - 1)) + q] = S[j][q]
      BY <1>5, <2>1, FlattenIndex
    <2> QED
      BY <1>5, <1>7, <1>18, <2>2
  <1>20. \A h \in 1..m : /\ parts[h] \in Part /\ form[h] \in PartField
                         /\ IsPartField(form[h], parts[h])
                         /\ Len(S[h]) = Len(parts[h].pieces) /\ Len(S[h]) \in Nat /\ Len(S[h]) > 0
    <2>1. ASSUME NEW h \in 1..m
          PROVE  /\ parts[h] \in Part /\ form[h] \in PartField
                 /\ IsPartField(form[h], parts[h])
                 /\ Len(S[h]) = Len(parts[h].pieces) /\ Len(S[h]) \in Nat /\ Len(S[h]) > 0
      <3>1. parts[h] \in Part /\ form[h] \in PartField /\ IsPartField(form[h], parts[h])
        BY <1>1, <1>2, <1>3, ElementOfSeq
      <3>2. S[h] = Sections(parts[h])
        BY <1>5
      <3> QED
        BY <3>1, <3>2, SectionsDef, PartType
    <2> QED
      BY <2>1
  <1>21. q = 1 /\ form[j].name = <<UrlWord>> /\ find_url = parts[j].pieces[1]
    <2>1. q \in 1..Len(parts[j].pieces)
      BY <1>18, <1>20
    <2>2. /\ (field_name(A[i]) = <<UrlWord>>) <=> (q = 1 /\ form[j].name = <<UrlWord>>)
          /\ A[i].data = parts[j].pieces[q]
      BY <1>19, <1>20, <2>1, PartNamed
    <2> QED
      BY <1>15, <2>2
  <1>22. ASSUME NEW h \in 1..m, form[h].name = <<UrlWord>>, ~(j <= h)
         PROVE  FALSE
    <2>1. PICK one \in Nat : one = 1
      OBVIOUS
    <2>2. one \in 1..Len(S[h]) /\ one \in 1..Len(parts[h].pieces)
      BY <1>20, <2>1
    <2>3. PICK l \in Nat : l = Len(UpTo(S, h - 1))
      BY <1>5, <2>2, FlattenIndex
    <2>4. A[l + one] = Sections(parts[h])[one]
      <3>1. h \in 1..Len(S)
        BY <1>5
      <3>2. FlattenSeq(S)[Len(UpTo(S, h - 1)) + one] = S[h][one]
        BY <1>5, <2>2, <3>1, FlattenIndex
      <3> QED
        BY <1>5, <1>7, <2>3, <3>2
    <2>5. field_name(A[l + one]) = <<UrlWord>>
      <3>1. (field_name(Sections(parts[h])[one]) = <<UrlWord>>)
              <=> (one = 1 /\ form[h].name = <<UrlWord>>)
        BY <1>20, <2>2, PartNamed
      <3> QED
        BY <1>22, <2>1, <2>4, <3>1
    <2>6. h \in 0..m /\ j - 1 \in 0..m /\ h <= j - 1
      BY <1>22
    <2>7. /\ Len(UpTo(S, h)) \in Nat /\ Len(UpTo(S, j - 1)) \in Nat
          /\ Len(UpTo(S, h)) <= Len(UpTo(S, j - 1))
      BY <1>5, <2>6, UpToGrows
    <2>8. Len(UpTo(S, h)) = l + Len(S[h])
      <3>1. UpTo(S, h) = UpTo(S, h - 1) \o S[h]
        BY <1>5, UpToNext
      <3>2. h - 1 \in 0..m
        OBVIOUS
      <3>3. UpTo(S, h - 1) \in Seq(AnySection) /\ S[h] \in Seq(AnySection)
        BY <1>5, <3>2, UpToType, ElementOfSeq
      <3> QED
        BY <2>3, <3>1, <3>3, ConcatProperties
    <2>9. l + one < i /\ l + one \in 1..n
      BY <1>15, <1>18, <1>20, <1>21, <2>1, <2>7, <2>8
    <2>10. l + one \in T
      BY <1>9, <1>10, <2>5, <2>9
    <2> QED
      BY <1>13, <2>9, <2>10
  <1> QED
    BY <1>3, <1>21, <1>22 DEF IsFirstUrl


----------------------------------------------------------------------------
(* The URL of a form                                                       *)

\* u is what handle_post has to shorten for a form.
IsUrlOf(u, r) ==
    LET named == {i \in DOMAIN r.form : r.form[i].name = <<UrlWord>>}
    IN  \E i \in named :
          IF multipart(r.ctype)
          THEN u = r.parts[i].pieces[1] /\ \A j \in named : i <= j
          ELSE u = r.form[i].value /\ \A j \in named : j <= i

\* The sections are a sequence, of whatever.
SectionsAreSeq == \E X : sections \in Seq(X)

\* Every step of a request keeps the sections a sequence.
LEMMA SectionsAreSeqStep ==
  ASSUME SectionsAreSeq, [Next]_vars
  PROVE  SectionsAreSeq'
  <1>1. PICK X : sections \in Seq(X)
    BY DEF SectionsAreSeq
  <1>2. CASE callback /\ read_body
    <2>1. PICK v : sections' = Append(sections, v)
      BY <1>2 DEF read_body
    <2>2. sections \in Seq(X \cup {v})
      BY <1>1
    <2>3. sections' \in Seq(X \cup {v})
      BY <2>1, <2>2
    <2> QED
      BY <2>3 DEF SectionsAreSeq
  <1>3. CASE sections' = sections
    BY <1>1, <1>3 DEF SectionsAreSeq
  <1>4. (callback /\ read_body) \/ sections' = sections
    BY DEF Next, handle_request, handle_file, handle_get_template, handle_get_url, handle_post,
           post_refused, parse_throws, post_urlencoded, post_multipart, callback, search_url,
           check_url, generate, generated, store, Ended, vars, mpvars, postvars, ingest,
           read_header_name, read_header_value, parser_stops
  <1> QED
    BY <1>2, <1>3, <1>4

\* The form has been read.
UrlSteps == {"check_url", "generate", "store"}

\* Every step of a request keeps the URL that of the form.
LEMMA UrlStep ==
  ASSUME IInv, SectionsInv, SectionsAreSeq, FormUrl, [Next]_vars
  PROVE  FormUrl'
  <1>1. req' = req
    BY DEF Next, handle_request, handle_file, handle_get_template, handle_get_url, handle_post,
           post_refused, parse_throws, post_urlencoded, post_multipart, callback, search_url,
           check_url, generate, generated, store, Ended, vars
  <1>2. PICK r : r = req
    OBVIOUS
  <1>3. SUFFICES ASSUME pc' \in UrlSteps, r.form # <<>>
                 PROVE  IsUrlOf(url', r)
    BY <1>1, <1>2 DEF FormUrl, IsUrlOf, is_multipart, UrlSteps
  <1>4. r \in Requests /\ req = r
    BY <1>2 DEF IInv, ControlInv
  <1>5. \/ pc \in UrlSteps /\ url' = url
        \/ post_urlencoded /\ pc' = "check_url"
        \/ search_url /\ pc' = "check_url"
    BY <1>3, RouteType DEF UrlSteps, Next, handle_request, handle_file, handle_get_template,
       handle_get_url, handle_post, post_refused, parse_throws, post_urlencoded, post_multipart,
       callback, search_url, check_url, generate, generated, store, Ended, vars, postvars, Send,
       bad_request, Goto, Handlers
  <1>6. CASE pc \in UrlSteps /\ url' = url
    BY <1>3, <1>4, <1>6 DEF FormUrl, IsUrlOf, is_multipart, UrlSteps
  <1>7. CASE post_urlencoded /\ pc' = "check_url"
    <2>1. PICK M : M = parse_qsl(r.body)
      OBVIOUS
    <2>2. PICK word : word = <<UrlWord>>
      OBVIOUS
    <2>3. req.ctype = <<UrlEncoded>> /\ Has(M, word) /\ url' = M[word]
      BY <1>4, <1>7, <2>1, <2>2 DEF post_urlencoded, bad_request, Send
    <2>4. ~multipart(r.ctype)
      BY <1>4, <2>3 DEF multipart, UrlEncoded, FormData
    <2>5. IsUrlEncoding(r.body, r.form)
      BY <1>3, <1>4, <2>4, FormsAssumption
    <2>6. PICK i \in DOMAIN r.form :
            /\ r.form[i].name = word /\ parse_qsl(r.body)[word] = r.form[i].value
            /\ \A j \in DOMAIN r.form : r.form[j].name = word => j <= i
      <3>1. word # <<>> /\ Has(parse_qsl(r.body), word)
        BY <2>1, <2>2, <2>3
      <3> QED
        BY <1>3, <2>5, <3>1, ParseQslDef
    <2> QED
      BY <2>1, <2>2, <2>3, <2>4, <2>6 DEF IsUrlOf
  <1>8. CASE search_url /\ pc' = "check_url"
    <2>1. pc = "ingest" /\ url' = find_url /\ url' # <<>>
      BY <1>8 DEF search_url, bad_request, Send
    <2>2. multipart(r.ctype)
      BY <1>4, <2>1 DEF IInv, ControlInv, is_multipart
    <2>3. r.parts \in Seq(Part) /\ IsMultipartOf(r.parts, r.form)
      BY <1>3, <1>4, <2>2, FormsAssumption
    <2>4. IsPrefix(sections, AllSections(r.parts))
      BY <1>4 DEF SectionsInv, SectionsOwnHeaders
    <2>5. PICK X : sections \in Seq(X)
      BY DEF SectionsAreSeq
    <2>6. IsFirstUrl(find_url, r.parts, r.form)
      BY <2>1, <2>3, <2>4, <2>5, FindUrlDef
    <2> QED
      BY <2>1, <2>2, <2>6 DEF IsUrlOf, IsFirstUrl
  <1> QED
    BY <1>5, <1>6, <1>7, <1>8

\* What handle_post shortens is the value that the form of the client gives to
\* "url": the last one of an urlencoded form, whatever bytes it has and however
\* they are quoted, the beginning of the first one of a multipart form, however
\* its name is written and wherever the parser gives up.
THEOREM RequestFormUrl == Spec => []FormUrl
  <1>1. Init => SectionsInv /\ SectionsAreSeq /\ FormUrl
    <2>1. Init => SectionsAreSeq
      BY EmptySeq DEF Init, Constructed, SectionsAreSeq
    <2>2. Init => FormUrl
      BY DEF Init, FormUrl
    <2> QED
      BY <2>1, <2>2, InitSections
  <1>2. IInv /\ SectionsInv /\ SectionsAreSeq /\ FormUrl /\ [Next]_vars =>
          SectionsInv' /\ SectionsAreSeq' /\ FormUrl'
    BY SectionsStep, SectionsAreSeqStep, UrlStep
  <1> QED
    BY <1>1, <1>2, RequestInvariant, PTL DEF Spec

----------------------------------------------------------------------------
(* The limit for parameters                                                *)

\* A form within the limit of parse_qsl is never met with its exception.
LEMMA LimitStep ==
  ASSUME IInv, ParamLimit, [Next]_vars
  PROVE  ParamLimit'
  <1> SUFFICES ASSUME (req.form # <<>> /\ ~is_multipart /\ Len(req.form) <= MaxParams)',
                      pc' = "terminated"
               PROVE  FALSE
    BY DEF ParamLimit
  <1>1. req' = req
    BY DEF Next, handle_request, handle_file, handle_get_template, handle_get_url, handle_post,
           post_refused, parse_throws, post_urlencoded, post_multipart, callback, search_url,
           check_url, generate, generated, store, Ended, vars
  <1>2. req \in Requests /\ req.form # <<>> /\ ~is_multipart /\ ~multipart(req.ctype)
    BY <1>1 DEF IInv, ControlInv, is_multipart
  <1>3. IsUrlEncoding(req.body, req.form)
    BY <1>2, FormsAssumption
  <1>4. PICK n \in Nat : n = Len(req.form) /\ (exceeds(req.body, MaxParams) <=> n - 1 > MaxParams)
    BY <1>2, <1>3, ExceedsDef
  <1>5. n <= MaxParams /\ pc # "terminated"
    BY <1>1, <1>2, <1>4 DEF ParamLimit
  <1>6. parse_throws
    BY <1>5, RouteType DEF Next, handle_request, handle_file, handle_get_template, handle_get_url,
       handle_post, post_refused, post_urlencoded, post_multipart, callback, search_url, check_url,
       generate, generated, store, Ended, vars, Send, bad_request, Goto, Handlers
  <1>7. n - 1 > MaxParams
    BY <1>4, <1>6 DEF parse_throws
  <1> QED
    BY <1>5, <1>7, LimitAssumption

\* The exception of parse_qsl ends the process for no form that has at most
\* MaxParams fields, with any values in any quoting.
THEOREM RequestParamLimit == Spec => []ParamLimit
  <1>1. Init => ParamLimit
    BY DEF Init, ParamLimit
  <1>2. IInv /\ ParamLimit /\ [Next]_vars => ParamLimit'
    BY LimitStep
  <1> QED
    BY <1>1, <1>2, RequestInvariant, PTL DEF Spec

=============================================================================
