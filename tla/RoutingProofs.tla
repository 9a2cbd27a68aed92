--------------------------- MODULE RoutingProofs ---------------------------
(***************************************************************************)
(* Proofs about Routing: what the operators on targets, paths and file     *)
(* names compute, for texts of any length. The recursive functions are     *)
(* reasoned about by induction, in the form of SetInduction.               *)
(***************************************************************************)
EXTENDS Routing, SequenceTheorems, WellFoundedInduction, TLAPS

----------------------------------------------------------------------------
(* Induction                                                               *)

\* A set of natural numbers has a least element.
LEMMA LeastNumber ==
  ASSUME NEW T \in SUBSET Nat, T # {}
  PROVE  \E n \in T : \A m \in T : n <= m
  <1> DEFINE R == OpToRel(<, Nat)
  <1>1. IsWellFoundedOn(R, Nat)
    BY NatLessThanWellFounded
  <1>2. \A m, n \in Nat : (<<m, n>> \in R) <=> m < n
    BY DEF OpToRel
  <1> HIDE DEF R
  <1>3. PICK n \in T : \A m \in T : ~ (<<m, n>> \in R)
    BY <1>1, WFMin
  <1>4. ASSUME NEW m \in T
        PROVE  n <= m
    <2>1. ~(m < n)
      BY <1>2, <1>3, Zenon
    <2> QED
      BY <2>1
  <1> QED
    BY <1>4

\* Induction: a set with 0 and every successor has all natural numbers.
LEMMA SetInduction ==
  ASSUME NEW S, 0 \in S, \A n \in Nat : n \in S => n + 1 \in S
  PROVE  Nat \subseteq S
  <1> SUFFICES ASSUME Nat \ S # {}
               PROVE  FALSE
    OBVIOUS
  <1>1. PICK n \in Nat \ S : \A m \in Nat \ S : n <= m
    BY LeastNumber
  <1>2. n - 1 \in Nat /\ n - 1 \in S
    BY <1>1
  <1> QED
    BY <1>1, <1>2

----------------------------------------------------------------------------
(* Paths                                                                   *)

\* The equation of the function in Walk, as far as the segment n.
IsWalk(w, p, n) == w = [i \in 0..n |-> IF i = 0 THEN <<>> ELSE Enter(w[i - 1], p[i])]

\* Every path can be walked.
LEMMA WalkExists ==
  ASSUME NEW p, NEW n \in Nat
  PROVE  \E w : IsWalk(w, p, n)
  <1> DEFINE S == {k \in Nat : \E w : IsWalk(w, p, k)}
  <1>1. 0 \in S
    <2>1. IsWalk([i \in 0..0 |-> <<>>], p, 0)
      BY DEF IsWalk
    <2> QED
      BY <2>1
  <1>2. ASSUME NEW k \in Nat, k \in S
        PROVE  k + 1 \in S
    <2>1. PICK w : IsWalk(w, p, k)
      BY <1>2
    <2> DEFINE v == [i \in 0..k + 1 |-> IF i <= k THEN w[i] ELSE Enter(w[k], p[k + 1])]
               u == [i \in 0..k + 1 |-> IF i = 0 THEN <<>> ELSE Enter(v[i - 1], p[i])]
    <2>2. \A i \in 0..k : w[i] = IF i = 0 THEN <<>> ELSE Enter(w[i - 1], p[i])
      BY <2>1 DEF IsWalk
    <2>3. ASSUME NEW i \in 0..k + 1
          PROVE  v[i] = IF i = 0 THEN <<>> ELSE Enter(v[i - 1], p[i])
      <3>1. CASE i = 0
        BY <2>2, <3>1
      <3>2. CASE i \in 1..k
        BY <2>2, <3>2
      <3>3. CASE i = k + 1
        BY <3>3
      <3> QED
        BY <3>1, <3>2, <3>3
    <2>4. v = u
      BY <2>3
    <2>5. IsWalk(v, p, k + 1)
      BY <2>4 DEF IsWalk
    <2> QED
      BY <2>5
  <1> HIDE DEF S
  <1>3. n \in S
    BY <1>1, <1>2, SetInduction
  <1> QED
    BY <1>3 DEF S

\* So Walk satisfies its equation.
LEMMA WalkDef ==
  ASSUME NEW p, Len(p) \in Nat
  PROVE  /\ Walk(p)[0] = <<>>
         /\ \A i \in 1..Len(p) : Walk(p)[i] = Enter(Walk(p)[i - 1], p[i])
  <1>1. Walk(p) = CHOOSE w : IsWalk(w, p, Len(p))
    BY DEF Walk, IsWalk
  <1>2. IsWalk(Walk(p), p, Len(p))
    BY <1>1, WalkExists
  <1> DEFINE w == Walk(p)
  <1>3. w = [i \in 0..Len(p) |-> IF i = 0 THEN <<>> ELSE Enter(w[i - 1], p[i])]
    BY <1>2 DEF IsWalk
  <1> HIDE DEF w
  <1>4. /\ w[0] = <<>>
        /\ \A i \in 1..Len(p) : w[i] = Enter(w[i - 1], p[i])
    BY <1>3
  <1> QED
    BY <1>4 DEF w

\* Entering a segment from a place leads to a place.
LEMMA EnterType ==
  ASSUME NEW S, NEW at \in Seq(S), NEW s \in S
  PROVE  Enter(at, s) \in Seq(S)
  <1>1. at # <<>> => Front(at) \in Seq(S)
    BY DEF Front
  <1> QED
    BY <1>1 DEF Enter

\* So does every step of a walk along a path.
LEMMA WalkType ==
  ASSUME NEW S, NEW p \in Seq(S)
  PROVE  \A i \in 0..Len(p) : Walk(p)[i] \in Seq(S)
  <1> DEFINE K == {i \in Nat : i <= Len(p) => Walk(p)[i] \in Seq(S)}
  <1>0. Len(p) \in Nat /\ <<>> \in Seq(S)
    OBVIOUS
  <1>1. 0 \in K
    <2>1. Walk(p)[0] = <<>>
      BY <1>0, WalkDef
    <2> QED
      BY <1>0, <2>1
  <1>2. ASSUME NEW i \in Nat, i \in K
        PROVE  i + 1 \in K
    <2>1. CASE i + 1 <= Len(p)
      <3>1. Walk(p)[i] \in Seq(S) /\ p[i + 1] \in S
        BY <1>2, <2>1
      <3>2. Walk(p)[i + 1] = Enter(Walk(p)[i], p[i + 1])
        BY <2>1, WalkDef
      <3>3. Walk(p)[i + 1] \in Seq(S)
        BY <3>1, <3>2, EnterType
      <3> QED
        BY <3>3
    <2> QED
      BY <2>1
  <1> HIDE DEF K
  <1>3. Nat \subseteq K
    BY <1>1, <1>2, SetInduction
  <1> QED
    BY <1>3 DEF K

\* Two paths lead to the same place as long as they agree.
LEMMA WalkAgrees ==
  ASSUME NEW S, NEW p \in Seq(S), NEW q \in Seq(S), Len(p) <= Len(q),
         \A i \in 1..Len(p) : q[i] = p[i]
  PROVE  \A i \in 0..Len(p) : Walk(q)[i] = Walk(p)[i]
  <1> DEFINE K == {i \in Nat : i <= Len(p) => Walk(q)[i] = Walk(p)[i]}
  <1>1. 0 \in K
    BY WalkDef
  <1>2. ASSUME NEW i \in Nat, i \in K
        PROVE  i + 1 \in K
    <2>1. CASE i + 1 <= Len(p)
      <3>1. Walk(q)[i] = Walk(p)[i] /\ q[i + 1] = p[i + 1]
        BY <1>2, <2>1
      <3>2. /\ Walk(p)[i + 1] = Enter(Walk(p)[i], p[i + 1])
            /\ Walk(q)[i + 1] = Enter(Walk(q)[i], q[i + 1])
        BY <2>1, WalkDef
      <3> QED
        BY <3>1, <3>2
    <2> QED
      BY <2>1
  <1> HIDE DEF K
  <1>3. Nat \subseteq K
    BY <1>1, <1>2, SetInduction
  <1> QED
    BY <1>3 DEF K

\* Prefixes, element by element.
LEMMA PrefixDef ==
  ASSUME NEW S, NEW s \in Seq(S), NEW t \in Seq(S)
  PROVE  IsPrefix(s, t) <=> Len(s) <= Len(t) /\ \A i \in 1..Len(s) : s[i] = t[i]
  <1>1. SubSeq(s, 1, Len(s)) = s
    OBVIOUS
  <1>2. CASE Len(s) <= Len(t)
    <2>1. /\ SubSeq(t, 1, Len(s)) \in Seq(S) /\ Len(SubSeq(t, 1, Len(s))) = Len(s)
          /\ \A i \in 1..Len(s) : SubSeq(t, 1, Len(s))[i] = t[i]
      BY <1>2
    <2>2. (\A i \in 1..Len(s) : s[i] = t[i]) => s = SubSeq(t, 1, Len(s))
      BY <2>1, SeqEqual
    <2> QED
      BY <1>1, <1>2, <2>1, <2>2 DEF IsPrefix
  <1>3. CASE ~(Len(s) <= Len(t))
    BY <1>3 DEF IsPrefix
  <1> QED
    BY <1>2, <1>3

\* From where a path ends, segments without ".." never lead out again.
LEMMA ResolveInside ==
  ASSUME NEW S, NEW p \in Seq(S), NEW t \in Seq(S), \A i \in 1..Len(t) : t[i] # DotDot
  PROVE  IsPrefix(Resolve(p), Resolve(p \o t))
  <1> DEFINE q == p \o t
             K == {k \in Nat : k <= Len(t) => IsPrefix(Resolve(p), Walk(q)[Len(p) + k])}
  <1>1. /\ q \in Seq(S) /\ Len(q) = Len(p) + Len(t)
        /\ \A i \in 1..Len(p) : q[i] = p[i]
        /\ \A i \in 1..Len(t) : q[Len(p) + i] = t[i]
    OBVIOUS
  <1> HIDE DEF q
  <1>2. Resolve(p) \in Seq(S) /\ Walk(q)[Len(p)] = Resolve(p)
    BY <1>1, WalkType, WalkAgrees DEF Resolve
  <1>3. 0 \in K
    BY <1>2, PrefixDef
  <1>4. ASSUME NEW k \in Nat, k \in K
        PROVE  k + 1 \in K
    <2>1. CASE k + 1 <= Len(t)
      <3> DEFINE at == Walk(q)[Len(p) + k]
                 s == q[Len(p) + k + 1]
                 next == Walk(q)[Len(p) + k + 1]
      <3>1. at \in Seq(S) /\ next \in Seq(S) /\ IsPrefix(Resolve(p), at)
        BY <1>1, <1>4, <2>1, WalkType
      <3>2. s \in S /\ s # DotDot /\ next = Enter(at, s)
        <4>1. Len(p) + k + 1 \in 1..Len(q) /\ (Len(p) + k + 1) - 1 = Len(p) + k
          BY <1>1, <2>1
        <4>2. s = t[k + 1]
          BY <1>1, <2>1
        <4>3. t[k + 1] \in S /\ t[k + 1] # DotDot
          BY <2>1
        <4>0. Len(q) \in Nat
          BY <1>1
        <4>4. \A i \in 1..Len(q) : Walk(q)[i] = Enter(Walk(q)[i - 1], q[i])
          BY <4>0, WalkDef, Zenon
        <4>5. next = Enter(Walk(q)[(Len(p) + k + 1) - 1], s)
          BY <4>1, <4>4
        <4> QED
          BY <4>1, <4>2, <4>3, <4>5
      <3> HIDE DEF at, s, next
      <3>3. next = at \/ next = Append(at, s)
        BY <3>2 DEF Enter
      <3>4. Len(Resolve(p)) <= Len(next) /\ \A i \in 1..Len(Resolve(p)) : Resolve(p)[i] = next[i]
        <4>1. Len(Resolve(p)) <= Len(at) /\ \A i \in 1..Len(Resolve(p)) : Resolve(p)[i] = at[i]
          BY <1>2, <3>1, PrefixDef
        <4>2. Len(at) <= Len(next) /\ \A i \in 1..Len(at) : at[i] = next[i]
          <5>1. CASE next = at
            BY <3>1, <5>1
          <5>2. CASE next = Append(at, s)
            BY <3>1, <3>2, <5>2
          <5> QED
            BY <3>3, <5>1, <5>2
        <4>3. Len(Resolve(p)) \in Nat /\ Len(at) \in Nat /\ Len(next) \in Nat
          BY <1>2, <3>1
        <4> QED
          BY <4>1, <4>2, <4>3
      <3>5. IsPrefix(Resolve(p), next)
        BY <1>2, <3>1, <3>4, PrefixDef
      <3> QED
        BY <3>5 DEF next
    <2> QED
      BY <2>1
  <1> HIDE DEF K
  <1>5. Nat \subseteq K
    BY <1>3, <1>4, SetInduction
  <1>6. Len(t) \in K
    BY <1>5
  <1>7. IsPrefix(Resolve(p), Walk(q)[Len(p) + Len(t)])
    BY <1>6 DEF K
  <1> QED
    BY <1>1, <1>7 DEF Resolve, q

\* Front drops the last element.
LEMMA FrontDef ==
  ASSUME NEW S, NEW s \in Seq(S), Len(s) > 0
  PROVE  /\ Front(s) \in Seq(S) /\ Len(Front(s)) = Len(s) - 1
         /\ \A i \in 1..Len(s) - 1 : Front(s)[i] = s[i]
  <1>1. PICK n \in Nat : Len(s) = n + 1
    <2>1. Len(s) - 1 \in Nat
      OBVIOUS
    <2> QED
      BY <2>1
  <1>2. \A i \in 1..n : s[i] \in S
    BY <1>1
  <1>3. /\ SubSeq(s, 1, n) \in Seq(S) /\ Len(SubSeq(s, 1, n)) = n
        /\ \A i \in 1..n : SubSeq(s, 1, n)[i] = s[i]
    BY <1>2, SubSeqProperties
  <1>4. Len(s) - 1 = n
    BY <1>1
  <1> QED
    BY <1>3, <1>4 DEF Front

\* Segments that the operators name.
LEMMA Segments ==
  /\ EmptySegment # DotDot /\ <<"index", "html">> # DotDot
  /\ 2 \in 2..Len(DotDot) - 1 /\ DotDot[2] = ""
  BY DEF DotDot, EmptySegment

\* A slash at the end of a path leads nowhere else.
LEMMA ResolveSlash ==
  ASSUME NEW p \in Path, Len(p) > 1, Last(p) = EmptySegment
  PROVE  Front(p) \in Path /\ Resolve(Front(p)) = Resolve(p)
  <1> DEFINE f == Front(p)
  <1>1. p \in Seq(Segment) /\ Len(p) \in Nat
    BY DEF Path
  <1>2. /\ f \in Seq(Segment) /\ Len(f) = Len(p) - 1
        /\ \A i \in 1..Len(f) : p[i] = f[i]
    BY <1>1 DEF Front
  <1> HIDE DEF f
  <1>3. f # <<>>
    BY <1>1, <1>2
  <1>4. Walk(p)[Len(f)] = Walk(f)[Len(f)]
    BY <1>1, <1>2, WalkAgrees
  <1>5. Walk(p)[Len(p)] = Enter(Walk(p)[Len(p) - 1], p[Len(p)])
    BY <1>1, WalkDef
  <1>6. p[Len(p)] = EmptySegment /\ EmptySegment # DotDot
    BY Segments DEF Last
  <1>7. Walk(p)[Len(p)] = Walk(p)[Len(p) - 1]
    BY <1>5, <1>6 DEF Enter
  <1>8. Resolve(f) = Resolve(p)
    BY <1>2, <1>4, <1>7 DEF Resolve
  <1> QED
    BY <1>2, <1>3, <1>8 DEF f, Path

\* What path_cat puts before the target.
Base(base) == IF Len(base) > 1 /\ Last(base) = EmptySegment THEN Front(base) ELSE base

\* path_cat puts the target behind the base, without a trailing slash of the base.
LEMMA PathCatDef ==
  ASSUME NEW base \in Path, NEW t
  PROVE  /\ path_cat(base, t) = Base(base) \o t
         /\ Base(base) \in Path
         /\ Resolve(Base(base)) = Resolve(base)
  BY ResolveSlash DEF path_cat, Base

\* Segments, with the ones that the code itself names (that a text is in
\* STRING is beyond the provers).
Index == <<"index", "html">>
Assets == <<"assets">>
AnySegment == Segment \cup {Index, Assets, <<"post", "html">>}

\* A path has at least one segment.
LEMMA PathType ==
  ASSUME NEW p \in Path
  PROVE  p \in Seq(AnySegment) /\ Len(p) \in Nat /\ Len(p) > 0
  <1>1. p \in Seq(Segment) /\ Len(p) \in Nat /\ Len(p) > 0
    BY DEF Path
  <1>2. Segment \subseteq AnySegment
    BY DEF AnySegment
  <1> QED
    BY <1>1, <1>2, SeqMonotonic

\* The target of the page that handle_get_template opens for a target.
Page(t) == IF Last(t) = EmptySegment THEN Append(Front(t), Index) ELSE t

\* The page of a target is the target, or index.html in its directory.
LEMMA PageType ==
  ASSUME NEW t \in Path
  PROVE  /\ Page(t) \in Seq(AnySegment) /\ Len(Page(t)) = Len(t)
         /\ \A i \in 1..Len(t) - 1 : Page(t)[i] = t[i]
         /\ Page(t) = t \/ Page(t)[Len(t)] = Index
  <1> DEFINE f == Front(t)
  <1>1. t \in Seq(AnySegment) /\ Len(t) \in Nat /\ Len(t) > 0
    BY PathType
  <1>2. CASE Last(t) = EmptySegment
    <2>1. /\ f \in Seq(AnySegment) /\ Len(f) = Len(t) - 1
          /\ \A i \in 1..Len(t) - 1 : f[i] = t[i]
      BY <1>1, FrontDef
    <2> HIDE DEF f
    <2>2. Index \in AnySegment
      BY DEF AnySegment
    <2>3. Page(t) = Append(f, Index)
      BY <1>2 DEF Page, f
    <2> QED
      BY <1>1, <2>1, <2>2, <2>3
  <1>3. CASE Last(t) # EmptySegment
    BY <1>1, <1>3 DEF Page
  <1> QED
    BY <1>2, <1>3

\* Front undoes Append.
LEMMA FrontAppend ==
  ASSUME NEW S, NEW s \in Seq(S), NEW x \in S
  PROVE  Front(Append(s, x)) = s
  <1>1. PICK t : t = Append(s, x)
    OBVIOUS
  <1>2. t \in Seq(S) /\ Len(t) = Len(s) + 1 /\ \A i \in 1..Len(s) : t[i] = s[i]
    BY <1>1, AppendProperties
  <1>3. PICK n \in Nat : n = Len(s)
    OBVIOUS
  <1>4. Len(t) - 1 = n /\ Len(t) > 0
    BY <1>2, <1>3
  <1>5. PICK f : f = Front(t)
    OBVIOUS
  <1>6. f \in Seq(S) /\ Len(f) = n /\ \A i \in 1..n : f[i] = t[i]
    BY <1>2, <1>4, <1>5, FrontDef
  <1>7. f = s
    BY <1>2, <1>3, <1>6, SeqEqual
  <1> QED
    BY <1>1, <1>5, <1>7

\* The last element of a concatenation is in its second part.
LEMMA FrontConcat ==
  ASSUME NEW S, NEW b \in Seq(S), NEW t \in Seq(S), t # <<>>
  PROVE  Front(b \o t) = b \o Front(t)
  <1>1. PICK f \in Seq(S), x \in S : t = Append(f, x)
    BY SequenceEmptyOrAppend
  <1>2. b \o f \in Seq(S) /\ <<x>> \in Seq(S)
    BY ConcatProperties
  <1>3. b \o Append(f, x) = Append(b \o f, x)
    BY <1>2, AppendIsConcat, ConcatAssociative
  <1>4. Front(Append(f, x)) = f /\ Front(Append(b \o f, x)) = b \o f
    BY <1>2, FrontAppend
  <1>5. Front(t) = f
    BY <1>1, <1>4, Zenon
  <1>6. Front(b \o t) = b \o f
    BY <1>1, <1>3, <1>4, Zenon
  <1> QED
    BY <1>5, <1>6, Zenon

\* path.append("index.html") after path_cat is path_cat of that page.
LEMMA WithIndexDef ==
  ASSUME NEW base \in Path, NEW t \in Path
  PROVE  with_index(path_cat(base, t), t) = Base(base) \o Page(t)
  <1>1. PICK b : b = Base(base)
    OBVIOUS
  <1>2. PICK f : f = Front(t)
    OBVIOUS
  <1>3. path_cat(base, t) = b \o t /\ b \in Seq(AnySegment)
    BY <1>1, PathCatDef, PathType
  <1>4. t \in Seq(AnySegment) /\ Len(t) > 0 /\ t # <<>>
    BY PathType DEF Path
  <1>5. CASE Last(t) = EmptySegment
    <2>1. f \in Seq(AnySegment) /\ Front(b \o t) = b \o f
      BY <1>2, <1>3, <1>4, FrontDef, FrontConcat
    <2>2. Index \in AnySegment
      BY DEF AnySegment
    <2>3. b \o f \in Seq(AnySegment) /\ <<Index>> \in Seq(AnySegment)
      BY <1>3, <2>1, <2>2
    <2>4. Append(b \o f, Index) = (b \o f) \o <<Index>> /\ Append(f, Index) = f \o <<Index>>
      BY <2>1, <2>2, <2>3, AppendIsConcat
    <2>5. Append(b \o f, Index) = b \o Append(f, Index)
      BY <1>3, <2>1, <2>3, <2>4, ConcatAssociative
    <2> QED
      BY <1>1, <1>2, <1>3, <1>5, <2>1, <2>5 DEF with_index, Page, Index
  <1>6. CASE Last(t) # EmptySegment
    BY <1>1, <1>3, <1>6 DEF with_index, Page
  <1> QED
    BY <1>5, <1>6

\* path_cat and the index page keep a target without ".." below the base.
LEMMA PathCatInside ==
  ASSUME NEW base \in Path, NEW t \in Path, \A i \in 1..Len(t) : t[i] # DotDot
  PROVE  /\ IsPrefix(Resolve(base), Resolve(path_cat(base, t)))
         /\ IsPrefix(Resolve(base), Resolve(with_index(path_cat(base, t), t)))
  <1> DEFINE b == Base(base)
             u == Page(t)
  <1>1. /\ path_cat(base, t) = b \o t /\ with_index(path_cat(base, t), t) = b \o u
        /\ b \in Seq(AnySegment) /\ Resolve(b) = Resolve(base)
    BY PathCatDef, PathType, WithIndexDef
  <1>2. t \in Seq(AnySegment) /\ Len(t) \in Nat /\ Len(t) > 0
    BY PathType
  <1>3. u \in Seq(AnySegment) /\ \A i \in 1..Len(u) : u[i] # DotDot
    <2>1. Index # DotDot
      BY Segments DEF Index
    <2> QED
      BY <1>2, <2>1, PageType
  <1> HIDE DEF b, u
  <1> QED
    BY <1>1, <1>2, <1>3, ResolveInside

\* A legal target has no ".." in it.
LEMMA LegalTarget ==
  ASSUME NEW t, ~illegal_target(t), t.path \in Path
  PROVE  \A i \in 1..Len(t.path) : t.path[i] # DotDot
  <1> SUFFICES ASSUME NEW i \in 1..Len(t.path), t.path[i] = DotDot
               PROVE  FALSE
    OBVIOUS
  <1>1. DotDot \in Range(t.path)
    BY DEF Range, Path
  <1> QED
    BY <1>1, Segments DEF illegal_target

----------------------------------------------------------------------------
(* Routes                                                                  *)

\* The table as conditions one after another.
LEMMA RouteDef ==
  ASSUME NEW path
  PROVE  /\ is_file(path) => route(path) = "handle_file"
         /\ ~is_file(path) /\ is_post(path) => route(path) = "handle_post"
         /\ ~is_file(path) /\ ~is_post(path) /\ is_template(path)
              => route(path) = "handle_get_template"
         /\ ~is_file(path) /\ ~is_post(path) /\ ~is_template(path) /\ is_token(path)
              => route(path) = "handle_get_url"
         /\ ~is_file(path) /\ ~is_post(path) /\ ~is_template(path) /\ ~is_token(path)
              => route(path) = "not_found"
  <1> DEFINE routes == << [match |-> is_file(path),     fn |-> "handle_file"],
                          [match |-> is_post(path),     fn |-> "handle_post"],
                          [match |-> is_root(path),     fn |-> "handle_get_template"],
                          [match |-> is_template(path), fn |-> "handle_get_template"],
                          [match |-> is_token(path),    fn |-> "handle_get_url"] >>
             I == {i \in 1..Len(routes) : routes[i].match}
  <1>1. /\ routes[1].match = is_file(path)     /\ routes[1].fn = "handle_file"
        /\ routes[2].match = is_post(path)     /\ routes[2].fn = "handle_post"
        /\ routes[3].match = is_root(path)     /\ routes[3].fn = "handle_get_template"
        /\ routes[4].match = is_template(path) /\ routes[4].fn = "handle_get_template"
        /\ routes[5].match = is_token(path)    /\ routes[5].fn = "handle_get_url"
        /\ Len(routes) = 5
    OBVIOUS
  <1>2. route(path) = IF (IF I # {} THEN Min(I) ELSE 0) = 0 THEN "not_found"
                      ELSE routes[IF I # {} THEN Min(I) ELSE 0].fn
    BY DEF route, FirstMatch, SelectInSeq
  <1> HIDE DEF routes
  <1>3. /\ I \subseteq 1..5
        /\ 1 \in I <=> is_file(path)
        /\ 2 \in I <=> is_post(path)
        /\ 3 \in I <=> is_root(path)
        /\ 4 \in I <=> is_template(path)
        /\ 5 \in I <=> is_token(path)
    BY <1>1
  <1>4. is_root(path) => is_template(path)
    BY DEF is_template
  <1> HIDE DEF I
  <1>5. I # {} => Min(I) \in I /\ \A i \in I : Min(I) <= i
    <2>1. I # {} => \E n \in I : \A m \in I : n <= m
      BY <1>3, LeastNumber
    <2> QED
      BY <2>1 DEF Min
  <1>6. ASSUME I # {}
        PROVE  Min(I) \in 1..5 /\ route(path) = routes[Min(I)].fn
    <2>1. Min(I) \in 1..5
      BY <1>3, <1>5, <1>6
    <2>2. Min(I) # 0
      BY <2>1
    <2> QED
      BY <1>2, <1>6, <2>1, <2>2, Zenon
  <1>7. I = {} => route(path) = "not_found"
    BY <1>2
  <1> QED
    BY <1>1, <1>3, <1>4, <1>5, <1>6, <1>7

\* One more segment leads one step further.
LEMMA ResolveAppend ==
  ASSUME NEW S, NEW p \in Seq(S), NEW s \in S
  PROVE  Resolve(p \o <<s>>) = Enter(Resolve(p), s)
  <1>1. PICK q : q = p \o <<s>>
    OBVIOUS
  <1>2. PICK n \in Nat : n = Len(p)
    OBVIOUS
  <1>3. /\ q \in Seq(S) /\ Len(q) = n + 1 /\ q[n + 1] = s
        /\ \A i \in 1..Len(p) : q[i] = p[i]
    BY <1>1, <1>2
  <1>4. Walk(q)[n] = Walk(p)[n]
    BY <1>2, <1>3, WalkAgrees
  <1>5. Walk(q)[n + 1] = Enter(Walk(q)[(n + 1) - 1], q[n + 1])
    BY <1>3, WalkDef
  <1>6. (n + 1) - 1 = n
    OBVIOUS
  <1> QED
    BY <1>1, <1>2, <1>3, <1>4, <1>5, <1>6 DEF Resolve

\* What handle_file opens is below assets/, favicon.ico or robots.txt.
LEMMA StaticPath ==
  ASSUME NEW base \in Path, NEW t \in Path, \A i \in 1..Len(t) : t[i] # DotDot,
         route(t) = "handle_file", NEW p, p = path_cat(base, t)
  PROVE  \/ IsPrefix(Append(Resolve(base), Assets), Resolve(p))
         \/ Resolve(p) \in { Append(Resolve(base), s) :
                               s \in {<<"favicon", "ico">>, <<"robots", "txt">>} }
  <1>1. PICK b : b = Base(base)
    OBVIOUS
  <1>2. p = b \o t /\ b \in Seq(AnySegment) /\ Resolve(b) = Resolve(base)
    BY <1>1, PathCatDef, PathType
  <1>3. t \in Seq(AnySegment) /\ Len(t) \in Nat /\ Len(t) > 0
    BY PathType
  <1>4. is_file(t)
    BY RouteDef
  <1>5. ASSUME NEW s \in AnySegment, s \notin {DotDot, Dot, EmptySegment}
        PROVE  Resolve(b \o <<s>>) = Append(Resolve(base), s)
    BY <1>2, <1>5, ResolveAppend DEF Enter
  <1>6. CASE Len(t) > 1 /\ t[1] = <<"assets">>
    <2>1. PICK r : r = Tail(t)
      OBVIOUS
    <2>2. /\ r \in Seq(AnySegment) /\ Len(r) = Len(t) - 1
          /\ \A i \in 1..Len(r) : r[i] = t[i + 1]
      BY <1>3, <2>1
    <2>3. t = <<Assets>> \o r /\ <<Assets>> \in Seq(AnySegment) /\ Assets \in AnySegment
      <3>1. Assets \in AnySegment /\ Assets = t[1]
        BY <1>6 DEF AnySegment, Assets
      <3>2. <<Assets>> \in Seq(AnySegment)
        BY <3>1
      <3>3. PICK q : q = <<Assets>> \o r
        OBVIOUS
      <3>4. /\ q \in Seq(AnySegment) /\ Len(q) = Len(t)
            /\ \A i \in 1..Len(t) : q[i] = t[i]
        BY <1>3, <2>2, <3>1, <3>2, <3>3
      <3>5. q = t
        BY <1>3, <3>4, SeqEqual
      <3> QED
        BY <3>1, <3>2, <3>3, <3>5
    <2>4. PICK a : a = b \o <<Assets>>
      OBVIOUS
    <2>5. a \in Seq(AnySegment) /\ p = a \o r
      BY <1>2, <2>2, <2>3, <2>4, ConcatAssociative, ConcatProperties
    <2>6. \A i \in 1..Len(r) : r[i] # DotDot
      BY <1>3, <2>2
    <2>7. IsPrefix(Resolve(a), Resolve(p))
      BY <2>2, <2>5, <2>6, ResolveInside
    <2>8. Assets \notin {DotDot, Dot, EmptySegment}
      BY DEF Assets, DotDot, Dot, EmptySegment
    <2> QED
      BY <1>5, <2>3, <2>4, <2>7, <2>8
  <1>7. ASSUME NEW s \in {<<"favicon", "ico">>, <<"robots", "txt">>}, t = <<s>>
        PROVE  Resolve(p) = Append(Resolve(base), s)
    <2>1. s \notin {DotDot, Dot, EmptySegment}
      <3>1. /\ <<"favicon", "ico">> # DotDot /\ <<"robots", "txt">> # DotDot
            /\ <<"favicon", "ico">> # Dot /\ <<"robots", "txt">> # Dot
            /\ <<"favicon", "ico">> # EmptySegment /\ <<"robots", "txt">> # EmptySegment
        BY DEF DotDot, Dot, EmptySegment
      <3> QED
        BY <3>1, Zenon
    <2>2. t[1] \in AnySegment /\ t[1] = s
      BY <1>3, <1>7
    <2> QED
      BY <1>2, <1>5, <1>7, <2>1, <2>2
  <1> QED
    BY <1>4, <1>6, <1>7 DEF is_file

\* What the template engine opens is an HTML file.
LEMMA HtmlPath ==
  ASSUME NEW base \in Path, NEW t \in Path,
         route(t) = "handle_get_template" \/ t = PostPage,
         NEW p, p = with_index(path_cat(base, t), t)
  PROVE  Last(Last(Resolve(p))) = "html"
  <1>1. PICK b, u : b = Base(base) /\ u = Page(t)
    OBVIOUS
  <1>2. p = b \o u /\ b \in Seq(AnySegment)
    BY <1>1, PathCatDef, PathType, WithIndexDef
  <1>3. PICK n \in Nat : n + 1 = Len(t)
    <2>1. Len(t) - 1 \in Nat
      BY PathType
    <2> QED
      BY <2>1
  <1>4. u \in Seq(AnySegment) /\ Len(u) = n + 1 /\ (u = t \/ u[n + 1] = Index)
    BY <1>1, <1>3, PageType
  <1>5. PICK s : s = u[n + 1]
    OBVIOUS
  <1>6. s \in AnySegment
    BY <1>4, <1>5
  <1>7. Len(s) > 1 /\ Last(s) = "html"
    <2>1. CASE u[n + 1] = Index
      BY <1>5, <2>1 DEF Index, Last
    <2>2. CASE u[n + 1] # Index
      <3>1. u = t /\ s = Last(t)
        BY <1>3, <1>4, <1>5, <2>2 DEF Last
      <3>2. CASE t = PostPage
        BY <3>1, <3>2 DEF PostPage, Last
      <3>3. CASE route(t) = "handle_get_template"
        <4>1. is_template(t)
          BY <3>3, RouteDef
        <4>2. t # <<EmptySegment>>
          <5>1. ASSUME t = <<EmptySegment>>
                PROVE  FALSE
            <6>1. Last(t) = EmptySegment /\ t[Len(t)] = Last(t)
              BY <5>1 DEF Last
            <6>2. u = Append(Front(t), Index) /\ Front(t) \in Seq(AnySegment)
                  /\ Len(Front(t)) = n
              BY <1>1, <1>3, <6>1, PathType, FrontDef DEF Page
            <6>3. Index \in AnySegment
              BY DEF AnySegment
            <6>4. u[n + 1] = Index
              BY <6>2, <6>3
            <6> QED
              BY <2>2, <6>4
          <5> QED
            BY <5>1
        <4> QED
          BY <3>1, <4>1, <4>2 DEF is_template, is_root
      <3> QED
        BY <3>2, <3>3
    <2> QED
      BY <2>1, <2>2
  <1>8. s \notin {DotDot, Dot, EmptySegment}
    <2>1. Last(DotDot) = "" /\ Last(Dot) = "" /\ Last(EmptySegment) = ""
      BY DEF DotDot, Dot, EmptySegment, Last
    <2> QED
      BY <1>7, <2>1
  <1>9. PICK q \in Seq(AnySegment) : p = q \o <<s>>
    <2>1. PICK f \in Seq(AnySegment), x \in AnySegment : u = Append(f, x)
      BY <1>4, SequenceEmptyOrAppend
    <2>2. Len(u) = Len(f) + 1 /\ u[Len(f) + 1] = x
      BY <2>1
    <2>3. x = s
      BY <1>4, <1>5, <2>1, <2>2
    <2>4. u = f \o <<s>> /\ <<s>> \in Seq(AnySegment)
      BY <1>6, <2>1, <2>3, AppendIsConcat
    <2>5. p = (b \o f) \o <<s>> /\ b \o f \in Seq(AnySegment)
      BY <1>2, <2>1, <2>4, ConcatAssociative, ConcatProperties
    <2> QED
      BY <2>5
  <1>10. Resolve(p) = Append(Resolve(q), s) /\ Resolve(q) \in Seq(AnySegment)
    <2>1. Resolve(p) = Enter(Resolve(q), s)
      BY <1>6, <1>9, ResolveAppend
    <2>2. Resolve(q) \in Seq(AnySegment)
      BY WalkType DEF Resolve
    <2> QED
      BY <1>8, <2>1, <2>2 DEF Enter
  <1>11. Last(Resolve(p)) = s
    <2>1. PICK at, r : at \in Seq(AnySegment) /\ at = Resolve(q) /\ r = Append(at, s)
      BY <1>10
    <2>2. Len(r) = Len(at) + 1 /\ r[Len(at) + 1] = s
      BY <1>6, <2>1
    <2> QED
      BY <1>10, <2>1, <2>2 DEF Last
  <1> QED
    BY <1>7, <1>11

\* What follows the last slash is the same in the file's path and the target.
LEMMA LastConcat ==
  ASSUME NEW base \in Path, NEW t \in Path
  PROVE  Last(path_cat(base, t)) = Last(t)
  <1>1. PICK b : b = Base(base)
    OBVIOUS
  <1>2. path_cat(base, t) = b \o t /\ b \in Seq(AnySegment)
    BY <1>1, PathCatDef, PathType
  <1>3. t \in Seq(AnySegment) /\ Len(t) \in Nat /\ Len(t) > 0
    BY PathType
  <1>4. Len(b \o t) = Len(b) + Len(t) /\ (b \o t)[Len(b) + Len(t)] = t[Len(t)]
    BY <1>2, <1>3
  <1> QED
    BY <1>2, <1>4 DEF Last

\* A new short URL is a legal target, and its route is handle_get_url.
LEMMA TokenRoute ==
  ASSUME NEW e, e # "html", e # "ico", NEW path, path = << <<"joined", e>> >>
  PROVE  /\ ~illegal_target([absolute |-> TRUE, path |-> path])
         /\ route(path) = "handle_get_url"
  <1> DEFINE s == <<"joined", e>>
  <1>1. Len(s) = 2 /\ s[1] = "joined" /\ s[2] = e
    OBVIOUS
  <1>2. s # EmptySegment
    BY DEF EmptySegment
  <1>3. s # <<"favicon", "ico">> /\ s # <<"robots", "txt">> /\ s # <<"post", "html">>
    OBVIOUS
  <1> HIDE DEF s
  <1>4. path = <<s>> /\ Len(path) = 1 /\ Last(path) = s /\ Range(path) = {s}
    BY DEF Last, Range, s
  <1>5. ~illegal_target([absolute |-> TRUE, path |-> path])
    <2>1. 2..Len(s) - 1 = {}
      BY <1>1
    <2> QED
      BY <1>4, <2>1 DEF illegal_target
  <1>6. ~is_file(path) /\ ~is_post(path) /\ ~is_root(path)
    BY <1>2, <1>3, <1>4 DEF is_file, is_post, is_root, PostPage
  <1>7. ~is_template(path) /\ is_token(path)
    <2>1. Last(s) = e
      BY <1>1 DEF Last
    <2> QED
      BY <1>2, <1>4, <1>6, <2>1 DEF is_template, is_token
  <1> QED
    BY <1>5, <1>6, <1>7, RouteDef

----------------------------------------------------------------------------
(* MIME types                                                              *)

\* The equation of the function in find_extension, for labels with n members,
\* of which the set K begins a known extension with the type m[i].
IsSearch(f, n, K, m, default) ==
  f = [i \in 2..n + 1 |-> IF i > n THEN default ELSE IF i \in K THEN m[i] ELSE f[i + 1]]

\* What is to be found from the label i on: the type of the longest extension.
Found(v, i, K, m, default) ==
  \/ (\A j \in K : j < i) /\ v = default
  \/ \E j \in K : j >= i /\ (\A k \in K : k >= i => j <= k) /\ v = m[j]

\* The search for an extension finds exactly one value.
LEMMA FoundOnce ==
  ASSUME NEW K \in SUBSET Nat, NEW m, NEW default, NEW i \in Nat
  PROVE  /\ \E v : Found(v, i, K, m, default)
         /\ \A v, w : Found(v, i, K, m, default) /\ Found(w, i, K, m, default) => v = w
  <1> DEFINE L == {j \in K : j >= i}
  <1>1. L \in SUBSET Nat
    OBVIOUS
  <1>2. CASE L = {}
    <2>1. \A j \in K : j < i
      BY <1>2
    <2> QED
      BY <2>1 DEF Found
  <1>3. CASE L # {}
    <2> HIDE DEF L
    <2>1. PICK j \in L : \A k \in L : j <= k
      BY <1>1, <1>3, LeastNumber
    <2>2. j \in K /\ j >= i /\ \A k \in K : k >= i => j <= k
      BY <2>1 DEF L
    <2>3. \A v : Found(v, i, K, m, default) => v = m[j]
      <3> SUFFICES ASSUME NEW v, Found(v, i, K, m, default)
                   PROVE  v = m[j]
        OBVIOUS
      <3>1. PICK k \in K : k >= i /\ (\A l \in K : l >= i => k <= l) /\ v = m[k]
        BY <2>2 DEF Found
      <3>2. j <= k /\ k <= j
        BY <2>2, <3>1
      <3>3. j \in Nat /\ k \in Nat
        BY <2>2
      <3>4. j = k
        BY <3>2, <3>3
      <3> QED
        BY <3>1, <3>4
    <2>4. Found(m[j], i, K, m, default)
      BY <2>2 DEF Found
    <2> QED
      BY <2>3, <2>4
  <1> QED
    BY <1>2, <1>3

\* The step of the search.
LEMMA FoundStep ==
  ASSUME NEW n \in Nat, NEW K \in SUBSET (2..n), NEW m, NEW default, NEW i \in 2..n + 1
  PROVE  /\ i > n => Found(default, i, K, m, default)
         /\ i \in K => Found(m[i], i, K, m, default)
         /\ \A v : i \notin K /\ Found(v, i + 1, K, m, default) => Found(v, i, K, m, default)
  BY DEF Found

\* The recursion of the search for an extension has a solution.
LEMMA SearchExists ==
  ASSUME NEW n \in Nat, NEW K \in SUBSET (2..n), NEW m, NEW default
  PROVE  \E f : IsSearch(f, n, K, m, default)
  <1>1. PICK f : f = [i \in 2..n + 1 |-> CHOOSE v : Found(v, i, K, m, default)]
    OBVIOUS
  <1>2. f = [i \in 2..n + 1 |-> f[i]]
    BY <1>1
  <1>3. K \in SUBSET Nat
    OBVIOUS
  <1>4. ASSUME NEW i \in 2..n + 1
        PROVE  /\ Found(f[i], i, K, m, default)
               /\ \A v : Found(v, i, K, m, default) => v = f[i]
    <2>1. i \in Nat
      OBVIOUS
    <2>2. f[i] = CHOOSE v : Found(v, i, K, m, default)
      BY <1>1
    <2>3. Found(f[i], i, K, m, default)
      BY <1>3, <2>1, <2>2, FoundOnce, Zenon
    <2> QED
      BY <1>3, <2>1, <2>3, FoundOnce, Zenon
  <1>5. ASSUME NEW i \in 2..n + 1
        PROVE  f[i] = IF i > n THEN default ELSE IF i \in K THEN m[i] ELSE f[i + 1]
    <2>1. CASE i > n
      <3>1. Found(default, i, K, m, default)
        BY <2>1, FoundStep
      <3> QED
        BY <1>4, <2>1, <3>1
    <2>2. CASE i \in K
      <3>1. Found(m[i], i, K, m, default)
        BY <2>2, FoundStep
      <3>2. ~(i > n)
        BY <2>2
      <3> QED
        BY <1>4, <2>2, <3>1, <3>2
    <2>3. CASE ~(i > n) /\ i \notin K
      <3>1. i + 1 \in 2..n + 1
        BY <2>3
      <3>2. Found(f[i + 1], i + 1, K, m, default)
        BY <1>4, <3>1
      <3>3. Found(f[i + 1], i, K, m, default)
        BY <2>3, <3>2, FoundStep
      <3> QED
        BY <1>4, <2>3, <3>3
    <2> QED
      BY <2>1, <2>2, <2>3
  <1>6. f = [i \in 2..n + 1 |-> IF i > n THEN default ELSE IF i \in K THEN m[i] ELSE f[i + 1]]
    BY <1>2, <1>5
  <1>7. IsSearch(f, n, K, m, default)
    BY <1>6 DEF IsSearch
  <1> QED
    BY <1>7

\* Every solution of the equation finds the type of the longest extension.
LEMMA SearchFinds ==
  ASSUME NEW n \in Nat, n > 0, NEW K \in SUBSET (2..n), NEW m, NEW default, NEW f,
         IsSearch(f, n, K, m, default)
  PROVE  Found(f[2], 2, K, m, default)
  <1> DEFINE S == {k \in Nat : k < n => Found(f[n + 1 - k], n + 1 - k, K, m, default)}
  <1>1. \A i \in 2..n + 1 : f[i] = IF i > n THEN default ELSE IF i \in K THEN m[i] ELSE f[i + 1]
    BY DEF IsSearch
  <1>2. 0 \in S
    <2>1. n + 1 \in 2..n + 1 /\ n + 1 > n /\ n + 1 - 0 = n + 1
      OBVIOUS
    <2>2. f[n + 1] = default /\ Found(default, n + 1, K, m, default)
      BY <1>1, <2>1, FoundStep
    <2> QED
      BY <2>1, <2>2
  <1>3. ASSUME NEW k \in Nat, k \in S
        PROVE  k + 1 \in S
    <2>1. CASE k + 1 < n
      <3>1. PICK i \in 2..n : i = n + 1 - (k + 1)
        <4>1. n + 1 - (k + 1) \in 2..n
          BY <2>1
        <4> QED
          BY <4>1
      <3>2. i + 1 = n + 1 - k /\ k < n /\ i \in 2..n + 1 /\ ~(i > n)
        BY <2>1, <3>1
      <3>3. Found(f[i + 1], i + 1, K, m, default)
        BY <1>3, <3>2
      <3>4. f[i] = IF i \in K THEN m[i] ELSE f[i + 1]
        BY <1>1, <3>2
      <3>5. Found(f[i], i, K, m, default)
        BY <3>2, <3>3, <3>4, FoundStep
      <3> QED
        BY <3>1, <3>5
    <2> QED
      BY <2>1
  <1> HIDE DEF S
  <1>4. n - 1 \in S
    BY <1>2, <1>3, SetInduction
  <1>5. n - 1 < n /\ n + 1 - (n - 1) = 2
    OBVIOUS
  <1> QED
    BY <1>4, <1>5 DEF S

\* The places where a known extension of a file name begins.
Known(labels, mimetypes) ==
  {i \in 2..Len(labels) : SubSeq(labels, i, Len(labels)) \in DOMAIN mimetypes}

IsExtensionSearch(f, labels, mimetypes, default) ==
  f = [i \in 2..Len(labels) + 1 |->
         IF i > Len(labels) THEN default
         ELSE IF SubSeq(labels, i, Len(labels)) \in DOMAIN mimetypes
              THEN mimetypes[SubSeq(labels, i, Len(labels))]
              ELSE f[i + 1]]

\* The search of find_extension is a search among the known extensions.
LEMMA SearchForms ==
  ASSUME NEW labels, Len(labels) \in Nat, NEW mimetypes, NEW default, NEW f
  PROVE  IsExtensionSearch(f, labels, mimetypes, default)
           <=> IsSearch(f, Len(labels), Known(labels, mimetypes),
                        [i \in 2..Len(labels) |-> mimetypes[SubSeq(labels, i, Len(labels))]],
                        default)
  <1>1. PICK n \in Nat : n = Len(labels)
    OBVIOUS
  <1>2. PICK m : m = [i \in 2..n |-> mimetypes[SubSeq(labels, i, n)]]
    OBVIOUS
  <1>3. PICK K : K = Known(labels, mimetypes)
    OBVIOUS
  <1>4. \A i \in 2..n : /\ m[i] = mimetypes[SubSeq(labels, i, n)]
                        /\ i \in K <=> SubSeq(labels, i, n) \in DOMAIN mimetypes
    BY <1>1, <1>2, <1>3 DEF Known
  <1> DEFINE a(i) == IF i > n THEN default
                     ELSE IF SubSeq(labels, i, n) \in DOMAIN mimetypes
                          THEN mimetypes[SubSeq(labels, i, n)]
                          ELSE f[i + 1]
             b(i) == IF i > n THEN default ELSE IF i \in K THEN m[i] ELSE f[i + 1]
  <1>5. ASSUME NEW i \in 2..n + 1
        PROVE  a(i) = b(i)
    BY <1>4
  <1> HIDE DEF a, b
  <1>6. [i \in 2..n + 1 |-> a(i)] = [i \in 2..n + 1 |-> b(i)]
    BY <1>5
  <1> USE DEF a, b
  <1>7. IsExtensionSearch(f, labels, mimetypes, default) <=> f = [i \in 2..n + 1 |-> a(i)]
    BY <1>1 DEF IsExtensionSearch
  <1>8. IsSearch(f, n, K, m, default) <=> f = [i \in 2..n + 1 |-> b(i)]
    BY DEF IsSearch
  <1> HIDE DEF a, b
  <1> QED
    BY <1>1, <1>2, <1>3, <1>6, <1>7, <1>8

\* The type of a file is the one of the longest known extension of its name.
LEMMA MimeType ==
  ASSUME NEW labels, Len(labels) \in Nat \ {0}, NEW mimetypes, NEW default
  PROVE  LET known == Known(labels, mimetypes)
             v == find_filename(labels, mimetypes, default)
         IN  \/ known = {} /\ v = default
             \/ \E i \in known : /\ \A j \in known : i <= j
                                 /\ v = mimetypes[SubSeq(labels, i, Len(labels))]
  <1> DEFINE n == Len(labels)
             K == Known(labels, mimetypes)
             m == [i \in 2..n |-> mimetypes[SubSeq(labels, i, n)]]
             v == find_filename(labels, mimetypes, default)
  <1>1. n \in Nat /\ n > 0 /\ K \in SUBSET (2..n)
    BY DEF Known
  <1>2. CASE n = 1
    <2>1. K = {} /\ v = default
      BY <1>2 DEF Known, find_filename
    <2> QED
      BY <2>1
  <1>3. CASE n # 1
    <2>1. find_extension(labels, mimetypes, default)
            = (CHOOSE f : IsExtensionSearch(f, labels, mimetypes, default))[2]
      BY DEF find_extension, IsExtensionSearch
    <2>2. \A f : IsExtensionSearch(f, labels, mimetypes, default)
                   <=> IsSearch(f, n, K, m, default)
      BY <1>1, SearchForms
    <2>3. PICK f : f = (CHOOSE g : IsExtensionSearch(g, labels, mimetypes, default))
      OBVIOUS
    <2>4. \E g : IsExtensionSearch(g, labels, mimetypes, default)
      BY <1>1, <2>2, SearchExists
    <2>5. IsSearch(f, n, K, m, default)
      BY <2>2, <2>3, <2>4
    <2>6. Found(f[2], 2, K, m, default)
      BY <1>1, <2>5, SearchFinds
    <2>7. v = f[2]
      BY <1>3, <2>1, <2>3 DEF find_filename
    <2> HIDE DEF K
    <2>8. \A j \in K : j >= 2 /\ m[j] = mimetypes[SubSeq(labels, j, n)]
      BY <1>1
    <2> HIDE DEF m, v
    <2>9. \/ K = {} /\ v = default
          \/ \E i \in K : (\A j \in K : i <= j) /\ v = mimetypes[SubSeq(labels, i, n)]
      <3>1. CASE (\A j \in K : j < 2) /\ f[2] = default
        BY <1>1, <2>7, <3>1
      <3>2. CASE \E j \in K : j >= 2 /\ (\A k \in K : k >= 2 => j <= k) /\ f[2] = m[j]
        BY <2>7, <2>8, <3>2
      <3> QED
        BY <2>6, <3>1, <3>2 DEF Found
    <2> QED
      BY <2>9 DEF K, v
  <1> QED
    BY <1>2, <1>3
=============================================================================
