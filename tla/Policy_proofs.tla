--------------------------- MODULE Policy_proofs ---------------------------
(* What the resolver of policy.rs computes, for all lists of scopes, and   *)
(* that a call of a tool carries no more than its three policies allow     *)
(* while a task that is accepted gets what they have in common.            *)
EXTENDS Policy, FoldLemmas, SequenceTheorems

(* IsPrefix, component by component. *)
LEMMA PrefixByComponents ==
  ASSUME NEW S, NEW s \in Seq(S), NEW t \in Seq(S)
  PROVE  IsPrefix(s, t) <=> Len(s) <= Len(t) /\ \A i \in 1 .. Len(s) : s[i] = t[i]
<1>1. SubSeq(s, 1, Len(s)) = s
  BY SubSeqFull
<1>2. ASSUME Len(s) <= Len(t)
      PROVE  (s = SubSeq(t, 1, Len(s))) <=> \A i \in 1 .. Len(s) : s[i] = t[i]
  <2> DEFINE u == SubSeq(t, 1, Len(s))
  <2>1. Len(s) \in Nat /\ \A i \in 1 .. Len(s) : t[i] \in S
    BY <1>2
  <2>2. u \in Seq(S) /\ Len(u) = Len(s) /\ \A i \in 1 .. Len(s) : u[i] = t[i]
    BY <2>1, SubSeqProperties, Z3
  <2> HIDE DEF u
  <2>3. QED
    BY <2>2
<1>3. QED
  BY <1>1, <1>2 DEF IsPrefix

LEMMA PrefixOfPrefix ==
  ASSUME NEW S, NEW s \in Seq(S), NEW t \in Seq(S), NEW u \in Seq(S),
         IsPrefix(s, t), IsPrefix(t, u)
  PROVE  IsPrefix(s, u)
<1>1. Len(s) <= Len(t) /\ \A i \in 1 .. Len(s) : s[i] = t[i]
  BY PrefixByComponents
<1>2. Len(t) <= Len(u) /\ \A i \in 1 .. Len(t) : t[i] = u[i]
  BY PrefixByComponents
<1>3. Len(s) <= Len(u) /\ \A i \in 1 .. Len(s) : s[i] = u[i]
  BY <1>1, <1>2
<1>4. QED
  BY <1>3, PrefixByComponents

LEMMA PrefixesCompare ==
  ASSUME NEW S, NEW s \in Seq(S), NEW t \in Seq(S), NEW u \in Seq(S),
         IsPrefix(s, u), IsPrefix(t, u)
  PROVE  IsPrefix(s, t) \/ IsPrefix(t, s)
<1>1. Len(s) <= Len(u) /\ \A i \in 1 .. Len(s) : s[i] = u[i]
  BY PrefixByComponents
<1>2. Len(t) <= Len(u) /\ \A i \in 1 .. Len(t) : t[i] = u[i]
  BY PrefixByComponents
<1>3. CASE Len(s) <= Len(t)
  <2>1. \A i \in 1 .. Len(s) : s[i] = t[i]
    BY <1>1, <1>2, <1>3
  <2>2. QED
    BY <1>3, <2>1, PrefixByComponents
<1>4. CASE ~ (Len(s) <= Len(t))
  <2>1. Len(t) <= Len(s) /\ \A i \in 1 .. Len(t) : t[i] = s[i]
    BY <1>1, <1>2, <1>4
  <2>2. QED
    BY <2>1, PrefixByComponents
<1>5. QED
  BY <1>3, <1>4

-----------------------------------------------------------------------------
(* normalize_path, intersect_set and InWorkDir as functions on 0 .. Len.   *)

PathStep(parts, c) ==
  IF c # ".." THEN Append(parts, c) ELSE SubSeq(parts, 1, Len(parts) - 1)

LEMMA PathStepType ==
  ASSUME NEW parts \in Seq(STRING), NEW c \in STRING
  PROVE  PathStep(parts, c) \in Seq(STRING)
<1>1. \A i \in 1 .. Len(parts) - 1 : parts[i] \in STRING
  OBVIOUS
<1>2. SubSeq(parts, 1, Len(parts) - 1) \in Seq(STRING)
  BY <1>1, SubSeqProperties
<1>3. Append(parts, c) \in Seq(STRING)
  BY AppendProperties
<1>4. QED
  BY <1>2, <1>3, Zenon DEF PathStep

(* What normalize_path computes, component by component. *)
LEMMA NormalizeByComponents ==
  ASSUME NEW path \in Seq(STRING)
  PROVE  \E f \in [0 .. Len(path) -> Seq(STRING)] :
            /\ normalize_path(path) = f[Len(path)] /\ f[0] = <<>>
            /\ \A i \in 1 .. Len(path) : f[i] = PathStep(f[i - 1], path[i])
<1> DEFINE X == Seq(STRING)
           G == [c \in Nat \X X |-> IF c[1] \in 1 .. Len(path)
                                    THEN PathStep(c[2], path[c[1]]) ELSE <<>>]
           body(p) == [i \in 0 .. Len(path) |->
                         IF i = 0 THEN <<>>
                         ELSE IF path[i] # ".." THEN Append(p[i - 1], path[i])
                         ELSE SubSeq(p[i - 1], 1, Len(p[i - 1]) - 1)]
           parts == CHOOSE p : p = body(p)
<1>1. Len(path) \in Nat /\ \A i \in 1 .. Len(path) : path[i] \in STRING
  OBVIOUS
<1>2. <<>> \in X
  OBVIOUS
<1>3. G \in [Nat \X X -> X]
  <2>1. \A p \in X : \A i \in 1 .. Len(path) : PathStep(p, path[i]) \in X
    BY <1>1, PathStepType
  <2> HIDE DEF X
  <2>2. QED
    BY <1>2, <2>1
<1>4. \A i \in 1 .. Len(path) : \A x \in X : G[<<i, x>>] = PathStep(x, path[i])
  OBVIOUS
<1> HIDE DEF G, X
<1>5. PICK f : Recursive(f, X, <<>>, G, Len(path))
  BY <1>1, <1>3, <1>2, RecursionExists
<1>6. f \in [0 .. Len(path) -> X] /\ f[0] = <<>>
  BY <1>5 DEF Recursive
<1>7. \A i \in 1 .. Len(path) : f[i] = PathStep(f[i - 1], path[i])
  <2>1. TAKE i \in 1 .. Len(path)
  <2>2. f[i - 1] \in X
    BY <1>1, <1>6
  <2>3. f[i] = G[<<i, f[i - 1]>>]
    BY <1>5 DEF Recursive
  <2>4. QED
    BY <1>4, <2>2, <2>3
<1>8. \A p : \A i \in 0 .. Len(path) :
        body(p)[i] = IF i = 0 THEN <<>> ELSE PathStep(p[i - 1], path[i])
  BY Zenon DEF PathStep
<1>9. f = body(f)
  <2>1. \A i \in 0 .. Len(path) : f[i] = body(f)[i]
    <3> HIDE DEF body
    <3>1. QED
      BY <1>6, <1>7, <1>8
  <2>2. QED
    BY <1>6, <2>1
<1>10. parts = body(parts)
  <2> HIDE DEF body
  <2>1. QED
    BY <1>9
<1>11. normalize_path(path) = parts[Len(path)]
  BY DEF normalize_path
<1> HIDE DEF parts
<1>12. parts[0] = f[0] /\ \A i \in 1 .. Len(path) : parts[i] = PathStep(parts[i - 1], path[i])
  <2> HIDE DEF body
  <2>1. QED
    BY <1>1, <1>6, <1>10, <1>8
<1>13. \A i \in 1 .. Len(path) : parts[i - 1] = f[i - 1] => parts[i] = f[i]
  BY <1>7, <1>12
<1>14. SameUpTo(parts, f, Len(path))
  BY <1>1, <1>12, <1>13, RecursionUnique DEF SameRecursion
<1>15. parts[Len(path)] = f[Len(path)]
  BY <1>1, <1>14 DEF SameUpTo
<1>16. QED
  BY <1>6, <1>7, <1>11, <1>15 DEF X

LEMMA NormalizeType ==
  ASSUME NEW path \in Seq(STRING)
  PROVE  normalize_path(path) \in Seq(STRING)
<1>1. Len(path) \in 0 .. Len(path)
  OBVIOUS
<1>2. QED
  BY <1>1, NormalizeByComponents

-----------------------------------------------------------------------------
(* path_within.                                                            *)

(* What is within a scope that is within another one is within that one. *)
LEMMA WithinWithin ==
  ASSUME NEW path \in Seq(STRING), NEW s \in Scopes, NEW u \in Scopes,
         path_within(path, s), path_within(s.path, u)
  PROVE  path_within(path, u)
<1> DEFINE n(p) == normalize_path(p)
<1>1. n(path) \in Seq(STRING) /\ n(s.path) \in Seq(STRING) /\ n(u.path) \in Seq(STRING)
  BY NormalizeType DEF Scopes
<1>2. IsPrefix(n(s.path), n(path)) /\ IsPrefix(n(u.path), n(s.path))
  BY DEF path_within
<1> HIDE DEF n
<1>3. IsPrefix(n(u.path), n(path))
  BY <1>1, <1>2, PrefixOfPrefix
<1>4. QED
  BY <1>3 DEF path_within, n

(* Two scopes that a path is within overlap. *)
LEMMA WithinBoth ==
  ASSUME NEW path \in Seq(STRING), NEW s \in Scopes, NEW u \in Scopes,
         path_within(path, s), path_within(path, u)
  PROVE  Overlap(s, u)
<1> DEFINE n(p) == normalize_path(p)
<1>1. n(path) \in Seq(STRING) /\ n(s.path) \in Seq(STRING) /\ n(u.path) \in Seq(STRING)
  BY NormalizeType DEF Scopes
<1>2. IsPrefix(n(s.path), n(path)) /\ IsPrefix(n(u.path), n(path))
  BY DEF path_within
<1> HIDE DEF n
<1>3. IsPrefix(n(u.path), n(s.path)) \/ IsPrefix(n(s.path), n(u.path))
  BY <1>1, <1>2, PrefixesCompare
<1>4. QED
  BY <1>3 DEF path_within, Overlap, n

(* A scope is within itself. *)
LEMMA WithinItself ==
  ASSUME NEW s \in Scopes
  PROVE  path_within(s.path, s)
<1>1. normalize_path(s.path) \in Seq(STRING)
  BY NormalizeType DEF Scopes
<1>2. QED
  BY <1>1, PrefixByComponents DEF path_within

-----------------------------------------------------------------------------
(* intersect_set.                                                          *)

Hits(s, b) == {i \in 1 .. Len(b) : Overlap(s, b[i])}

Hit(s, b) == SelectInSeq(b, LAMBDA u : Overlap(s, u))

(* find: none, or the first. *)
LEMMA HitIsAHit ==
  ASSUME NEW s, NEW b \in Seq(Scopes)
  PROVE  IF Hits(s, b) = {} THEN Hit(s, b) = 0 ELSE Hit(s, b) \in Hits(s, b)
<1>1. CASE Hits(s, b) = {}
  <2>1. Hit(s, b) = 0
    BY <1>1, Zenon DEF Hit, Hits, SelectInSeq
  <2>2. QED
    BY <1>1, <2>1
<1>2. CASE Hits(s, b) # {}
  <2> DEFINE S == Hits(s, b)
  <2>1. Hit(s, b) = Min(S)
    BY <1>2, Zenon DEF Hit, Hits, SelectInSeq
  <2>2. Len(b) \in Nat /\ S \in SUBSET (1 .. Len(b))
    BY DEF Hits
  <2> HIDE DEF S
  <2>3. \E x \in S : \A y \in S : x <= y
    BY <1>2, <2>2, LeastElement DEF S
  <2>4. Min(S) \in S
    BY <2>3, Zenon DEF Min
  <2>5. QED
    BY <1>2, <2>1, <2>4 DEF S
<1>3. QED
  BY <1>1, <1>2

(* The step for one scope. *)
LEMMA MetCases ==
  ASSUME NEW s, NEW b \in Seq(Scopes), NEW out
  PROVE  /\ Hits(s, b) = {} => Met(s, out, b) = out
         /\ Hits(s, b) # {} => /\ Hit(s, b) \in Hits(s, b)
                               /\ Met(s, out, b) = push_if_new(out, TighterOf(s, b[Hit(s, b)]))
<1>1. Met(s, out, b) = IF Hit(s, b) = 0 THEN out
                       ELSE push_if_new(out, TighterOf(s, b[Hit(s, b)]))
  BY Zenon DEF Met, Hit
<1>2. 0 \notin Hits(s, b)
  BY DEF Hits
<1>3. QED
  BY <1>1, <1>2, HitIsAHit

(* The tighter of two scopes that overlap is one of them, and within both. *)
LEMMA TighterIsWithin ==
  ASSUME NEW s \in Scopes, NEW u \in Scopes, Overlap(s, u)
  PROVE  /\ TighterOf(s, u) \in {s, u}
         /\ path_within(TighterOf(s, u).path, s)
         /\ path_within(TighterOf(s, u).path, u)
BY WithinItself DEF TighterOf, Overlap

LEMMA PushType ==
  ASSUME NEW out \in Seq(Scopes), NEW s \in Scopes
  PROVE  push_if_new(out, s) \in Seq(Scopes)
<1>1. Append(out, s) \in Seq(Scopes)
  BY AppendProperties
<1>2. QED
  BY <1>1 DEF push_if_new

LEMMA MetType ==
  ASSUME NEW s \in Scopes, NEW b \in Seq(Scopes), NEW out \in Seq(Scopes)
  PROVE  Met(s, out, b) \in Seq(Scopes)
<1>1. CASE Hits(s, b) = {}
  BY <1>1, MetCases
<1>2. CASE Hits(s, b) # {}
  <2> DEFINE k == Hit(s, b)
  <2>1. k \in 1 .. Len(b) /\ Overlap(s, b[k]) /\ Met(s, out, b) = push_if_new(out, TighterOf(s, b[k]))
    BY <1>2, MetCases DEF Hits
  <2> HIDE DEF k
  <2>2. b[k] \in Scopes
    BY <2>1
  <2>3. TighterOf(s, b[k]) \in Scopes
    BY <2>1, <2>2, TighterIsWithin
  <2>4. QED
    BY <2>1, <2>3, PushType
<1>3. QED
  BY <1>1, <1>2

(* The result so far, scope by scope of a. *)
Steps(f, a, b) ==
  /\ f \in [0 .. Len(a) -> Seq(Scopes)] /\ f[0] = <<>>
  /\ \A i \in 1 .. Len(a) : f[i] = Met(a[i], f[i - 1], b)

LEMMA IntersectByScopes ==
  ASSUME NEW a \in Seq(Scopes), NEW b \in Seq(Scopes)
  PROVE  \E f : Steps(f, a, b) /\ intersect_set(a, b) = f[Len(a)]
<1> DEFINE X == Seq(Scopes)
           G == [c \in Nat \X X |-> IF c[1] \in 1 .. Len(a)
                                    THEN Met(a[c[1]], c[2], b) ELSE <<>>]
           body(p) == [i \in 0 .. Len(a) |->
                         IF i = 0 THEN <<>> ELSE Met(a[i], p[i - 1], b)]
           out == CHOOSE p : p = body(p)
<1>1. Len(a) \in Nat /\ \A i \in 1 .. Len(a) : a[i] \in Scopes
  OBVIOUS
<1>2. <<>> \in X
  OBVIOUS
<1>3. G \in [Nat \X X -> X]
  <2>1. \A p \in X : \A i \in 1 .. Len(a) : Met(a[i], p, b) \in X
    BY <1>1, MetType
  <2> HIDE DEF X
  <2>2. QED
    BY <1>2, <2>1
<1>4. \A i \in 1 .. Len(a) : \A x \in X : G[<<i, x>>] = Met(a[i], x, b)
  OBVIOUS
<1>5. \A p : \A i \in 0 .. Len(a) : body(p)[i] = IF i = 0 THEN <<>> ELSE Met(a[i], p[i - 1], b)
  OBVIOUS
<1> HIDE DEF G, X
<1>6. PICK f : Recursive(f, X, <<>>, G, Len(a))
  BY <1>1, <1>2, <1>3, RecursionExists
<1>7. f \in [0 .. Len(a) -> X] /\ f[0] = <<>>
  BY <1>6 DEF Recursive
<1>8. \A i \in 1 .. Len(a) : f[i] = Met(a[i], f[i - 1], b)
  <2>1. TAKE i \in 1 .. Len(a)
  <2>2. f[i - 1] \in X
    BY <1>1, <1>7
  <2>3. f[i] = G[<<i, f[i - 1]>>]
    BY <1>6 DEF Recursive
  <2>4. QED
    BY <1>4, <2>2, <2>3
<1>9. f = body(f)
  <2>1. \A i \in 0 .. Len(a) : f[i] = body(f)[i]
    <3> HIDE DEF body
    <3>1. QED
      BY <1>5, <1>7, <1>8, SMTT(30)
  <2>2. QED
    BY <1>7, <2>1
<1>10. out = body(out)
  <2> HIDE DEF body
  <2>1. QED
    BY <1>9
<1>11. intersect_set(a, b) = out[Len(a)]
  BY DEF intersect_set
<1> HIDE DEF out
<1>12. out[0] = f[0] /\ \A i \in 1 .. Len(a) : out[i] = Met(a[i], out[i - 1], b)
  <2> HIDE DEF body
  <2>1. QED
    BY <1>1, <1>5, <1>7, <1>10
<1>13. \A i \in 1 .. Len(a) : out[i - 1] = f[i - 1] => out[i] = f[i]
  BY <1>8, <1>12
<1>14. SameUpTo(out, f, Len(a))
  BY <1>1, <1>12, <1>13, RecursionUnique DEF SameRecursion
<1>15. out[Len(a)] = f[Len(a)]
  BY <1>1, <1>14 DEF SameUpTo
<1>16. Steps(f, a, b)
  BY <1>7, <1>8 DEF Steps, X
<1>17. QED
  BY <1>11, <1>15, <1>16

-----------------------------------------------------------------------------
(* What the result of intersect_set covers.                                *)

(* A scope that x covers may be pushed. *)
LEMMA PushCovered ==
  ASSUME NEW out \in Seq(Scopes), NEW s \in Scopes, NEW x \in Seq(Scopes),
         Covered(out, x), \E j \in DOMAIN x : path_within(s.path, x[j])
  PROVE  Covered(push_if_new(out, s), x)
<1>1. CASE \E i \in DOMAIN out : out[i].path = s.path
  BY <1>1 DEF push_if_new
<1>2. CASE ~ (\E i \in DOMAIN out : out[i].path = s.path)
  <2> DEFINE r == Append(out, s)
  <2>1. push_if_new(out, s) = r
    BY <1>2 DEF push_if_new
  <2>2. \A i \in DOMAIN r : (i \in DOMAIN out /\ r[i] = out[i]) \/ r[i] = s
    BY AppendProperties
  <2> HIDE DEF r
  <2>3. QED
    BY <2>1, <2>2 DEF Covered
<1>3. QED
  BY <1>1, <1>2

LEMMA MetCovered ==
  ASSUME NEW a \in Seq(Scopes), NEW b \in Seq(Scopes), NEW i \in 1 .. Len(a),
         NEW out \in Seq(Scopes), Covered(out, a), Covered(out, b)
  PROVE  Covered(Met(a[i], out, b), a) /\ Covered(Met(a[i], out, b), b)
<1> DEFINE s == a[i]
<1>1. s \in Scopes /\ i \in DOMAIN a
  OBVIOUS
<1> HIDE DEF s
<1>2. CASE Hits(s, b) = {}
  BY <1>1, <1>2, MetCases DEF s
<1>3. CASE Hits(s, b) # {}
  <2> DEFINE k == Hit(s, b)
  <2>1. /\ k \in 1 .. Len(b) /\ Overlap(s, b[k])
        /\ Met(s, out, b) = push_if_new(out, TighterOf(s, b[k]))
    BY <1>3, MetCases DEF Hits
  <2> HIDE DEF k
  <2>2. b[k] \in Scopes /\ k \in DOMAIN b
    BY <2>1
  <2> DEFINE u == TighterOf(s, b[k])
  <2>3. u \in Scopes /\ path_within(u.path, a[i]) /\ path_within(u.path, b[k])
    BY <1>1, <2>1, <2>2, TighterIsWithin DEF s
  <2> HIDE DEF u
  <2>4. Covered(push_if_new(out, u), a)
    BY <1>1, <2>3, PushCovered
  <2>5. Covered(push_if_new(out, u), b)
    BY <2>2, <2>3, PushCovered
  <2>6. QED
    BY <2>1, <2>4, <2>5 DEF s, u
<1>4. QED
  BY <1>2, <1>3

LEMMA IntersectCovered ==
  ASSUME NEW a \in Seq(Scopes), NEW b \in Seq(Scopes)
  PROVE  /\ intersect_set(a, b) \in Seq(Scopes)
         /\ Covered(intersect_set(a, b), a) /\ Covered(intersect_set(a, b), b)
<1>1. PICK f : Steps(f, a, b) /\ intersect_set(a, b) = f[Len(a)]
  BY IntersectByScopes
<1>2. Len(a) \in Nat /\ \A i \in 0 .. Len(a) : f[i] \in Seq(Scopes)
  <2>1. f \in [0 .. Len(a) -> Seq(Scopes)]
    BY <1>1 DEF Steps
  <2>2. QED
    BY <2>1
<1> DEFINE S == {i \in 0 .. Len(a) : Covered(f[i], a) /\ Covered(f[i], b)}
<1>3. 0 \in S
  BY <1>1, <1>2 DEF Steps, Covered
<1>4. \A i \in 0 .. Len(a) - 1 : i \in S => i + 1 \in S
  <2>1. SUFFICES ASSUME NEW i \in 0 .. Len(a) - 1, i \in S PROVE i + 1 \in S
    OBVIOUS
  <2>2. i + 1 \in 1 .. Len(a) /\ (i + 1) - 1 = i /\ i + 1 \in 0 .. Len(a) /\ i \in 0 .. Len(a)
    BY <1>2, <2>1
  <2>3. f[i + 1] = Met(a[i + 1], f[i], b)
    BY <1>1, <2>2 DEF Steps
  <2>4. f[i] \in Seq(Scopes) /\ Covered(f[i], a) /\ Covered(f[i], b)
    BY <1>2, <2>1, <2>2
  <2>5. Covered(f[i + 1], a) /\ Covered(f[i + 1], b)
    BY <2>2, <2>3, <2>4, MetCovered
  <2>6. QED
    BY <2>2, <2>5
<1> HIDE DEF S
<1>5. 0 .. Len(a) \subseteq S
  BY <1>2, <1>3, <1>4, BoundedInduction
<1>6. Len(a) \in S
  BY <1>2, <1>5
<1>7. QED
  BY <1>1, <1>2, <1>6 DEF S

(* A path that a pushed scope allows, or that was allowed before, is. *)
LEMMA PushAllows ==
  ASSUME NEW out \in Seq(Scopes), NEW s \in Scopes, NEW path \in Seq(STRING),
         Allows(out, path) \/ path_within(path, s)
  PROVE  Allows(push_if_new(out, s), path)
<1>1. CASE \E i \in DOMAIN out : out[i].path = s.path
  BY <1>1 DEF push_if_new, Allows, path_within
<1>2. CASE ~ (\E i \in DOMAIN out : out[i].path = s.path)
  <2> DEFINE r == Append(out, s)
  <2>1. push_if_new(out, s) = r
    BY <1>2 DEF push_if_new
  <2>2. /\ \A i \in DOMAIN out : i \in DOMAIN r /\ r[i] = out[i]
        /\ Len(out) + 1 \in DOMAIN r /\ r[Len(out) + 1] = s
    BY AppendProperties
  <2> HIDE DEF r
  <2>3. QED
    BY <2>1, <2>2 DEF Allows
<1>3. QED
  BY <1>1, <1>2

LEMMA MetAllows ==
  ASSUME NEW s \in Scopes, NEW b \in Seq(Scopes), NEW out \in Seq(Scopes),
         NEW path \in Seq(STRING), Allows(out, path)
  PROVE  Allows(Met(s, out, b), path)
<1>1. CASE Hits(s, b) = {}
  BY <1>1, MetCases
<1>2. CASE Hits(s, b) # {}
  <2> DEFINE k == Hit(s, b)
  <2>1. /\ k \in 1 .. Len(b) /\ Overlap(s, b[k])
        /\ Met(s, out, b) = push_if_new(out, TighterOf(s, b[k]))
    BY <1>2, MetCases DEF Hits
  <2> HIDE DEF k
  <2>2. b[k] \in Scopes
    BY <2>1
  <2>3. TighterOf(s, b[k]) \in Scopes
    BY <2>1, <2>2, TighterIsWithin
  <2>4. QED
    BY <2>1, <2>3, PushAllows
<1>3. QED
  BY <1>1, <1>2

(* A scope that is alone in overlapping another one is the first to do so. *)
LEMMA AloneIsFirst ==
  ASSUME NEW a \in Seq(Scopes), NEW b \in Seq(Scopes), ~ Crowded(a, b),
         NEW i \in DOMAIN a, NEW j \in DOMAIN b, Overlap(a[i], b[j])
  PROVE  Hit(a[i], b) = j
<1> DEFINE H == Hits(a[i], b)
           k == Hit(a[i], b)
<1>1. H = {m \in DOMAIN b : Overlap(a[i], b[m])} /\ H \subseteq 1 .. Len(b)
  BY DEF Hits
<1>2. ~ (Cardinality(H) > 1)
  BY <1>1 DEF Crowded
<1>3. j \in H
  BY <1>1
<1>4. k \in H
  BY <1>3, MetCases
<1> HIDE DEF H, k
<1>5. IsFiniteSet(H)
  BY <1>1, FS_Interval, FS_Subset
<1>6. ASSUME j # k PROVE FALSE
  <2>1. IsFiniteSet({j}) /\ Cardinality({j}) = 1
    BY FS_Singleton
  <2>2. k \notin {j}
    BY <1>6
  <2>3. Cardinality({j} \cup {k}) = Cardinality({j}) + 1
    BY <2>1, <2>2, FS_AddElement, Zenon
  <2> DEFINE one == Cardinality({j})
             two == Cardinality({j} \cup {k})
             all == Cardinality(H)
  <2>4. one = 1 /\ two = one + 1
    BY <2>1, <2>3
  <2>5. {j} \cup {k} \in SUBSET H
    BY <1>3, <1>4
  <2>6. two <= all /\ all \in Nat
    BY <1>5, <2>5, FS_Subset, FS_CardinalityType
  <2>7. ~ (all > 1)
    BY <1>2
  <2> HIDE DEF one, two, all
  <2>8. QED
    BY <2>4, <2>6, <2>7
<1>7. QED
  BY <1>6 DEF k

(* A path that both lists allow is in the intersection, unless a scope of  *)
(* the first overlaps several of the second.                               *)
LEMMA IntersectKeeps ==
  ASSUME NEW a \in Seq(Scopes), NEW b \in Seq(Scopes), ~ Crowded(a, b),
         NEW path \in Seq(STRING), Allows(a, path), Allows(b, path)
  PROVE  Allows(intersect_set(a, b), path)
<1>1. PICK f : Steps(f, a, b) /\ intersect_set(a, b) = f[Len(a)]
  BY IntersectByScopes
<1>2. Len(a) \in Nat /\ \A i \in 0 .. Len(a) : f[i] \in Seq(Scopes)
  <2>1. f \in [0 .. Len(a) -> Seq(Scopes)]
    BY <1>1 DEF Steps
  <2>2. QED
    BY <2>1
<1>3. PICK i \in DOMAIN a : path_within(path, a[i])
  BY DEF Allows
<1>4. PICK j \in DOMAIN b : path_within(path, b[j])
  BY DEF Allows
<1>5. a[i] \in Scopes /\ b[j] \in Scopes /\ i \in 1 .. Len(a) /\ i - 1 \in 0 .. Len(a)
  OBVIOUS
<1>6. Overlap(a[i], b[j])
  BY <1>3, <1>4, <1>5, WithinBoth
<1>7. Hit(a[i], b) = j
  BY <1>6, AloneIsFirst
<1>8. Allows(f[i], path)
  <2>1. j \in Hits(a[i], b)
    BY <1>6 DEF Hits
  <2>2. f[i] = Met(a[i], f[i - 1], b)
    BY <1>1, <1>5 DEF Steps
  <2>3. Met(a[i], f[i - 1], b) = push_if_new(f[i - 1], TighterOf(a[i], b[j]))
    BY <1>7, <2>1, MetCases
  <2>4. TighterOf(a[i], b[j]) \in Scopes /\ path_within(path, TighterOf(a[i], b[j]))
    BY <1>3, <1>4, <1>5 DEF TighterOf
  <2>5. f[i - 1] \in Seq(Scopes)
    BY <1>2, <1>5
  <2>6. QED
    BY <2>2, <2>3, <2>4, <2>5, PushAllows
<1> DEFINE S == {m \in 0 .. Len(a) : m >= i => Allows(f[m], path)}
<1>9. 0 \in S
  BY <1>2, <1>5
<1>10. \A m \in 0 .. Len(a) - 1 : m \in S => m + 1 \in S
  <2>1. SUFFICES ASSUME NEW m \in 0 .. Len(a) - 1, m \in S, m + 1 >= i
                 PROVE  Allows(f[m + 1], path)
    BY <1>2
  <2>2. m + 1 \in 1 .. Len(a) /\ (m + 1) - 1 = m /\ m \in 0 .. Len(a)
    BY <1>2, <2>1
  <2>3. f[m + 1] = Met(a[m + 1], f[m], b) /\ a[m + 1] \in Scopes /\ f[m] \in Seq(Scopes)
    BY <1>1, <1>2, <2>2 DEF Steps
  <2>4. CASE m + 1 = i
    BY <1>8, <2>4
  <2>5. CASE m >= i
    <3>1. Allows(f[m], path)
      BY <2>1, <2>5
    <3>2. QED
      BY <2>3, <3>1, MetAllows
  <2>6. QED
    BY <1>5, <2>1, <2>4, <2>5
<1> HIDE DEF S
<1>11. 0 .. Len(a) \subseteq S
  BY <1>2, <1>9, <1>10, BoundedInduction
<1>12. Len(a) \in S /\ Len(a) >= i
  BY <1>2, <1>5, <1>11
<1>13. QED
  BY <1>1, <1>12 DEF S

-----------------------------------------------------------------------------
(* retain.                                                                 *)

KeepStep(out, s) == IF s.trust = "work_dir" THEN Append(out, s) ELSE out

(* The result so far, scope by scope. *)
Kept(f, x) ==
  /\ f \in [0 .. Len(x) -> Seq(Scopes)] /\ f[0] = <<>>
  /\ \A i \in 1 .. Len(x) : f[i] = KeepStep(f[i - 1], x[i])

LEMMA InWorkDirByScopes ==
  ASSUME NEW x \in Seq(Scopes)
  PROVE  \E f : Kept(f, x) /\ InWorkDir(x) = f[Len(x)]
<1> DEFINE X == Seq(Scopes)
           G == [c \in Nat \X X |-> IF c[1] \in 1 .. Len(x)
                                    THEN KeepStep(c[2], x[c[1]]) ELSE <<>>]
           body(p) == [i \in 0 .. Len(x) |->
                         IF i = 0 THEN <<>>
                         ELSE IF x[i].trust = "work_dir" THEN Append(p[i - 1], x[i])
                         ELSE p[i - 1]]
           kept == CHOOSE p : p = body(p)
<1>1. Len(x) \in Nat /\ \A i \in 1 .. Len(x) : x[i] \in Scopes
  OBVIOUS
<1>2. <<>> \in X
  OBVIOUS
<1>3. G \in [Nat \X X -> X]
  <2>1. \A p \in X : \A i \in 1 .. Len(x) : KeepStep(p, x[i]) \in X
    <3>1. SUFFICES ASSUME NEW p \in X, NEW i \in 1 .. Len(x) PROVE KeepStep(p, x[i]) \in X
      OBVIOUS
    <3>2. Append(p, x[i]) \in X
      BY <1>1, AppendProperties
    <3>3. QED
      BY <3>2 DEF KeepStep
  <2> HIDE DEF X
  <2>2. QED
    BY <1>2, <2>1
<1>4. \A i \in 1 .. Len(x) : \A p \in X : G[<<i, p>>] = KeepStep(p, x[i])
  OBVIOUS
<1>5. \A p : \A i \in 0 .. Len(x) :
        body(p)[i] = IF i = 0 THEN <<>> ELSE KeepStep(p[i - 1], x[i])
  BY Zenon DEF KeepStep
<1> HIDE DEF G, X
<1>6. PICK f : Recursive(f, X, <<>>, G, Len(x))
  BY <1>1, <1>2, <1>3, RecursionExists
<1>7. f \in [0 .. Len(x) -> X] /\ f[0] = <<>>
  BY <1>6 DEF Recursive
<1>8. \A i \in 1 .. Len(x) : f[i] = KeepStep(f[i - 1], x[i])
  <2>1. TAKE i \in 1 .. Len(x)
  <2>2. f[i - 1] \in X
    BY <1>1, <1>7
  <2>3. f[i] = G[<<i, f[i - 1]>>]
    BY <1>6 DEF Recursive
  <2>4. QED
    BY <1>4, <2>2, <2>3
<1>9. f = body(f)
  <2>1. \A i \in 0 .. Len(x) : f[i] = body(f)[i]
    <3> HIDE DEF body
    <3>1. QED
      BY <1>5, <1>7, <1>8, SMTT(30)
  <2>2. QED
    BY <1>7, <2>1
<1>10. kept = body(kept)
  <2> HIDE DEF body
  <2>1. QED
    BY <1>9
<1>11. InWorkDir(x) = kept[Len(x)]
  BY DEF InWorkDir
<1> HIDE DEF kept
<1>12. kept[0] = f[0] /\ \A i \in 1 .. Len(x) : kept[i] = KeepStep(kept[i - 1], x[i])
  <2> HIDE DEF body
  <2>1. QED
    BY <1>1, <1>5, <1>7, <1>10
<1>13. \A i \in 1 .. Len(x) : kept[i - 1] = f[i - 1] => kept[i] = f[i]
  BY <1>8, <1>12
<1>14. SameUpTo(kept, f, Len(x))
  BY <1>1, <1>12, <1>13, RecursionUnique DEF SameRecursion
<1>15. kept[Len(x)] = f[Len(x)]
  BY <1>1, <1>14 DEF SameUpTo
<1>16. Kept(f, x)
  BY <1>7, <1>8 DEF Kept, X
<1>17. QED
  BY <1>11, <1>15, <1>16

AllInWorkDir(x) == \A i \in DOMAIN x : x[i].trust = "work_dir"

LEMMA KeepStepCovered ==
  ASSUME NEW x \in Seq(Scopes), NEW i \in 1 .. Len(x),
         NEW out \in Seq(Scopes), Covered(out, x), AllInWorkDir(out)
  PROVE  Covered(KeepStep(out, x[i]), x) /\ AllInWorkDir(KeepStep(out, x[i]))
<1>1. CASE x[i].trust # "work_dir"
  BY <1>1 DEF KeepStep
<1>2. CASE x[i].trust = "work_dir"
  <2> DEFINE r == Append(out, x[i])
             s == x[i]
  <2>1. KeepStep(out, x[i]) = r
    BY <1>2 DEF KeepStep
  <2>2. s \in Scopes /\ i \in DOMAIN x
    OBVIOUS
  <2>3. path_within(s.path, x[i])
    BY <2>2, WithinItself
  <2>4. \A j \in DOMAIN r : (j \in DOMAIN out /\ r[j] = out[j]) \/ r[j] = s
    BY <2>2, AppendProperties
  <2>5. s.trust = "work_dir"
    BY <1>2
  <2> HIDE DEF r, s
  <2>6. Covered(r, x)
    BY <2>2, <2>3, <2>4 DEF Covered
  <2>7. AllInWorkDir(r)
    BY <2>4, <2>5 DEF AllInWorkDir
  <2>8. QED
    BY <2>1, <2>6, <2>7
<1>3. QED
  BY <1>1, <1>2

LEMMA InWorkDirCovered ==
  ASSUME NEW x \in Seq(Scopes)
  PROVE  /\ InWorkDir(x) \in Seq(Scopes) /\ Covered(InWorkDir(x), x)
         /\ AllInWorkDir(InWorkDir(x))
<1>1. PICK f : Kept(f, x) /\ InWorkDir(x) = f[Len(x)]
  BY InWorkDirByScopes
<1>2. Len(x) \in Nat /\ \A i \in 0 .. Len(x) : f[i] \in Seq(Scopes)
  <2>1. f \in [0 .. Len(x) -> Seq(Scopes)]
    BY <1>1 DEF Kept
  <2>2. QED
    BY <2>1
<1> DEFINE S == {i \in 0 .. Len(x) : Covered(f[i], x) /\ AllInWorkDir(f[i])}
<1>3. 0 \in S
  BY <1>1, <1>2 DEF Kept, Covered, AllInWorkDir
<1>4. \A i \in 0 .. Len(x) - 1 : i \in S => i + 1 \in S
  <2>1. SUFFICES ASSUME NEW i \in 0 .. Len(x) - 1, i \in S PROVE i + 1 \in S
    OBVIOUS
  <2>2. i + 1 \in 1 .. Len(x) /\ (i + 1) - 1 = i /\ i + 1 \in 0 .. Len(x) /\ i \in 0 .. Len(x)
    BY <1>2, <2>1
  <2>3. f[i + 1] = KeepStep(f[i], x[i + 1])
    BY <1>1, <2>2 DEF Kept
  <2>4. f[i] \in Seq(Scopes) /\ Covered(f[i], x) /\ AllInWorkDir(f[i])
    BY <1>2, <2>1, <2>2
  <2>5. Covered(f[i + 1], x) /\ AllInWorkDir(f[i + 1])
    BY <2>2, <2>3, <2>4, KeepStepCovered
  <2>6. QED
    BY <2>2, <2>5
<1> HIDE DEF S
<1>5. 0 .. Len(x) \subseteq S
  BY <1>2, <1>3, <1>4, BoundedInduction
<1>6. Len(x) \in S
  BY <1>2, <1>5
<1>7. QED
  BY <1>1, <1>2, <1>6 DEF S

-----------------------------------------------------------------------------
(* The order of policies that validate_subset decides.                     *)

LEMMA CoveredTransitive ==
  ASSUME NEW x \in Seq(Scopes), NEW y \in Seq(Scopes), NEW z \in Seq(Scopes),
         Covered(x, y), Covered(y, z)
  PROVE  Covered(x, z)
<1>1. SUFFICES ASSUME NEW i \in DOMAIN x
               PROVE  \E k \in DOMAIN z : path_within(x[i].path, z[k])
  BY DEF Covered
<1>2. PICK j \in DOMAIN y : path_within(x[i].path, y[j])
  BY DEF Covered
<1>3. PICK k \in DOMAIN z : path_within(y[j].path, z[k])
  BY DEF Covered
<1>4. x[i] \in Scopes /\ y[j] \in Scopes /\ z[k] \in Scopes
  OBVIOUS
<1>5. x[i].path \in Seq(STRING)
  BY <1>4 DEF Scopes
<1>6. path_within(x[i].path, z[k])
  BY <1>2, <1>3, <1>4, <1>5, WithinWithin
<1>7. QED
  BY <1>6

LEMMA CoveredAllows ==
  ASSUME NEW x \in Seq(Scopes), NEW y \in Seq(Scopes), Covered(x, y),
         NEW path \in Seq(STRING), Allows(x, path)
  PROVE  Allows(y, path)
<1>1. PICK i \in DOMAIN x : path_within(path, x[i])
  BY DEF Allows
<1>2. PICK j \in DOMAIN y : path_within(x[i].path, y[j])
  BY DEF Covered
<1>3. x[i] \in Scopes /\ y[j] \in Scopes
  OBVIOUS
<1>4. path_within(path, y[j])
  BY <1>1, <1>2, <1>3, WithinWithin
<1>5. QED
  BY <1>4 DEF Allows

LEMMA SubsetTransitive ==
  ASSUME NEW p \in Policies, NEW q \in Policies, NEW r \in Policies,
         validate_subset(p, q), validate_subset(q, r)
  PROVE  validate_subset(p, r)
<1>1. /\ p.read \in Seq(Scopes) /\ q.read \in Seq(Scopes) /\ r.read \in Seq(Scopes)
      /\ p.write \in Seq(Scopes) /\ q.write \in Seq(Scopes) /\ r.write \in Seq(Scopes)
  BY DEF Policies
<1>2. Covered(p.read, r.read)
  BY <1>1, CoveredTransitive DEF validate_subset
<1>3. Covered(p.write, r.write)
  BY <1>1, CoveredTransitive DEF validate_subset
<1>4. p.net \subseteq r.net
  BY DEF validate_subset
<1>5. QED
  BY <1>2, <1>3, <1>4 DEF validate_subset

(* What validate_subset lets through allows nothing more. *)
LEMMA SubsetIsNoMore ==
  ASSUME NEW p \in Policies, NEW q \in Policies, validate_subset(p, q)
  PROVE  NoMoreThan(p, q)
<1>1. /\ p.read \in Seq(Scopes) /\ q.read \in Seq(Scopes)
      /\ p.write \in Seq(Scopes) /\ q.write \in Seq(Scopes)
  BY DEF Policies
<1>2. Covered(p.read, q.read) /\ Covered(p.write, q.write) /\ p.net \subseteq q.net
  BY DEF validate_subset
<1>3. ASSUME NEW path \in Paths
      PROVE  /\ Allows(p.read, path) => Allows(q.read, path)
             /\ Allows(p.write, path) => Allows(q.write, path)
  <2>1. path \in Seq(STRING)
    BY <1>3, PolicyAssumption
  <2>2. QED
    BY <1>1, <1>2, <2>1, CoveredAllows
<1>4. QED
  BY <1>2, <1>3 DEF NoMoreThan

LEMMA IntersectNarrows ==
  ASSUME NEW p \in Policies, NEW q \in Policies
  PROVE  /\ Intersect(p, q) \in Policies
         /\ validate_subset(Intersect(p, q), p) /\ validate_subset(Intersect(p, q), q)
<1>1. /\ p.read \in Seq(Scopes) /\ q.read \in Seq(Scopes)
      /\ p.write \in Seq(Scopes) /\ q.write \in Seq(Scopes)
      /\ p.net \in SUBSET STRING /\ q.net \in SUBSET STRING
  BY DEF Policies
<1> DEFINE read == intersect_set(p.read, q.read)
           write == intersect_set(p.write, q.write)
<1>2. read \in Seq(Scopes) /\ Covered(read, p.read) /\ Covered(read, q.read)
  BY <1>1, IntersectCovered
<1>3. write \in Seq(Scopes) /\ Covered(write, p.write) /\ Covered(write, q.write)
  BY <1>1, IntersectCovered
<1> HIDE DEF read, write
<1>4. Intersect(p, q) = [read |-> read, write |-> write, net |-> p.net \cap q.net]
  BY DEF Intersect, read, write
<1>5. QED
  BY <1>1, <1>2, <1>3, <1>4 DEF Policies, validate_subset

LEMMA SubsetOfItself ==
  ASSUME NEW p \in Policies
  PROVE  validate_subset(p, p)
<1>1. ASSUME NEW x \in Seq(Scopes) PROVE Covered(x, x)
  <2>1. \A i \in DOMAIN x : x[i] \in Scopes
    OBVIOUS
  <2>2. QED
    BY <2>1, WithinItself DEF Covered
<1>2. p.read \in Seq(Scopes) /\ p.write \in Seq(Scopes)
  BY DEF Policies
<1>3. QED
  BY <1>1, <1>2 DEF validate_subset

LEMMA RoleNarrows ==
  ASSUME NEW p \in Policies, NEW r \in Roles
  PROVE  /\ role_narrow(p, r) \in Policies
         /\ validate_subset(role_narrow(p, r), p)
         /\ role_narrow(p, r).read = p.read
         /\ r = "operator" => role_narrow(p, r) = p
         /\ r = "reader" => /\ role_narrow(p, r).net = {}
                            /\ AllInWorkDir(role_narrow(p, r).write)
<1>1. CASE r = "operator"
  BY <1>1, SubsetOfItself DEF role_narrow
<1>2. CASE r = "reader"
  <2> DEFINE w == InWorkDir(p.write)
  <2>1. p.write \in Seq(Scopes) /\ p.read \in Seq(Scopes) /\ p.net \in SUBSET STRING
    BY DEF Policies
  <2>2. w \in Seq(Scopes) /\ Covered(w, p.write) /\ AllInWorkDir(w)
    BY <2>1, InWorkDirCovered
  <2>3. role_narrow(p, r) = [p EXCEPT !.net = {}, !.write = w]
    BY <1>2 DEF role_narrow
  <2> HIDE DEF w
  <2>4. /\ role_narrow(p, r) \in Policies
        /\ role_narrow(p, r).read = p.read /\ role_narrow(p, r).write = w
        /\ role_narrow(p, r).net = {}
    BY <2>1, <2>2, <2>3 DEF Policies
  <2>5. Covered(p.read, p.read)
    BY SubsetOfItself DEF validate_subset
  <2>6. QED
    BY <1>2, <2>2, <2>4, <2>5 DEF validate_subset
<1>3. QED
  BY <1>1, <1>2 DEF Roles

(* The comment of resolve_effective, "always safe (it only narrows)": the  *)
(* policy it returns passes validate_subset under each of the three        *)
(* policies it is computed from, and a reader gets no egress and only      *)
(* write scopes that are labelled work_dir (the label of the narrower      *)
(* scope, which may be the task's own; the path is not looked at).         *)
THEOREM ResolverOnlyNarrows ==
  ASSUME NEW op \in Policies, NEW ten \in Policies, NEW ask \in Policies, NEW r \in Roles
  PROVE  LET eff == resolve_effective(op, ten, ask, r)
         IN  /\ eff \in Policies
             /\ validate_subset(eff, op) /\ validate_subset(eff, ten)
             /\ validate_subset(eff, ask)
             /\ r = "reader" => eff.net = {} /\ AllInWorkDir(eff.write)
<1> DEFINE p == Intersect(op, ten)
           q == Intersect(p, ask)
           eff == role_narrow(q, r)
<1>1. p \in Policies /\ validate_subset(p, op) /\ validate_subset(p, ten)
  BY IntersectNarrows
<1> HIDE DEF p
<1>2. q \in Policies /\ validate_subset(q, p) /\ validate_subset(q, ask)
  BY <1>1, IntersectNarrows
<1> HIDE DEF q
<1>3. /\ eff \in Policies /\ validate_subset(eff, q)
      /\ r = "reader" => eff.net = {} /\ AllInWorkDir(eff.write)
  BY <1>2, RoleNarrows
<1> HIDE DEF eff
<1>4. validate_subset(eff, ask) /\ validate_subset(eff, p)
  BY <1>1, <1>2, <1>3, SubsetTransitive
<1>5. validate_subset(eff, op) /\ validate_subset(eff, ten)
  BY <1>1, <1>3, <1>4, SubsetTransitive
<1>6. eff = resolve_effective(op, ten, ask, r)
  BY DEF resolve_effective, p, q, eff
<1>7. QED
  BY <1>3, <1>4, <1>5, <1>6

(* NothingLost for the two intersections that the resolver makes. *)
LEMMA TwiceKeeps ==
  ASSUME NEW a \in Seq(Scopes), NEW b \in Seq(Scopes), NEW c \in Seq(Scopes)
  PROVE  NothingLost(intersect_set(intersect_set(a, b), c), a, b, c)
<1> DEFINE ab == intersect_set(a, b)
<1>1. ab \in Seq(Scopes)
  BY IntersectCovered
<1>2. ASSUME ~ Crowded(a, b), ~ Crowded(ab, c), NEW path \in Paths,
             Allows(a, path), Allows(b, path), Allows(c, path)
      PROVE  Allows(intersect_set(ab, c), path)
  <2>1. path \in Seq(STRING)
    BY PolicyAssumption
  <2>2. Allows(ab, path)
    BY <1>2, <2>1, IntersectKeeps
  <2> HIDE DEF ab
  <2>3. QED
    BY <1>1, <1>2, <2>1, <2>2, IntersectKeeps
<1>3. QED
  BY <1>2 DEF NothingLost

LEMMA ResolverKeeps ==
  ASSUME NEW op \in Policies, NEW ten \in Policies, NEW ask \in Policies, NEW r \in Roles
  PROVE  LET eff == resolve_effective(op, ten, ask, r)
         IN  /\ NothingLost(eff.read, op.read, ten.read, ask.read)
             /\ r = "operator" => NothingLost(eff.write, op.write, ten.write, ask.write)
<1> DEFINE p == Intersect(op, ten)
           q == Intersect(p, ask)
           eff == role_narrow(q, r)
<1>1. p \in Policies
  BY IntersectNarrows
<1>2. q \in Policies
  BY <1>1, IntersectNarrows
<1>3. /\ q.read = intersect_set(intersect_set(op.read, ten.read), ask.read)
      /\ q.write = intersect_set(intersect_set(op.write, ten.write), ask.write)
  BY DEF Intersect
<1> HIDE DEF p, q
<1>4. eff.read = q.read /\ (r = "operator" => eff.write = q.write)
  BY <1>2, RoleNarrows
<1> HIDE DEF eff
<1>5. /\ op.read \in Seq(Scopes) /\ ten.read \in Seq(Scopes) /\ ask.read \in Seq(Scopes)
      /\ op.write \in Seq(Scopes) /\ ten.write \in Seq(Scopes) /\ ask.write \in Seq(Scopes)
  BY DEF Policies
<1>6. NothingLost(eff.read, op.read, ten.read, ask.read)
  BY <1>3, <1>4, <1>5, TwiceKeeps
<1>7. r = "operator" => NothingLost(eff.write, op.write, ten.write, ask.write)
  BY <1>3, <1>4, <1>5, TwiceKeeps
<1>8. eff = resolve_effective(op, ten, ask, r)
  BY DEF resolve_effective, p, q, eff
<1>9. QED
  BY <1>6, <1>7, <1>8

LEMMA LoadedType ==
  ASSUME NEW p \in Policies
  PROVE  Loaded(p) \in Policies
<1>1. ASSUME NEW x \in Seq(Scopes) PROVE Normalized(x) \in Seq(Scopes)
  <2>1. \A i \in 1 .. Len(x) : x[i] \in Scopes
    OBVIOUS
  <2>2. \A i \in 1 .. Len(x) : [x[i] EXCEPT !.path = normalize_path(@)] \in Scopes
    BY <2>1, NormalizeType DEF Scopes
  <2> DEFINE v(i) == [x[i] EXCEPT !.path = normalize_path(@)]
  <2>3. Len(x) \in Nat /\ DOMAIN x = 1 .. Len(x)
    OBVIOUS
  <2>4. Normalized(x) = [i \in DOMAIN x |-> v(i)]
    BY DEF Normalized
  <2>5. \A i \in 1 .. Len(x) : v(i) \in Scopes
    BY <2>2
  <2> HIDE DEF v
  <2>6. Normalized(x) = [i \in 1 .. Len(x) |-> v(i)]
    BY <2>3, <2>4
  <2>7. QED
    BY <2>3, <2>5, <2>6, IsASeq
<1>2. p.read \in Seq(Scopes) /\ p.write \in Seq(Scopes) /\ p.net \in SUBSET STRING
  BY DEF Policies
<1>3. Normalized(p.read) \in Seq(Scopes) /\ Normalized(p.write) \in Seq(Scopes)
  BY <1>1, <1>2
<1>4. QED
  BY <1>2, <1>3 DEF Loaded, Policies

LEMMA StrictType == Strict \in Policies
<1>1. <<>> \in Seq(Scopes)
  OBVIOUS
<1>2. QED
  BY <1>1 DEF Strict, Policies

-----------------------------------------------------------------------------
(* The invariant of the state.                                             *)

PolicyTypeOK ==
  /\ operator \in Policies /\ tenantLog \in Seq(Policies)
  /\ place \in [Tasks -> {"absent", "read", "created", "refused"}]
  /\ asked \in [Tasks -> Policies] /\ role \in [Tasks -> Roles]
  /\ tenantRead \in [Tasks -> Policies] /\ under \in [Tasks -> Policies]
  /\ effective \in [Tasks -> Policies \cup {None}]

(* A policy that a creation read is the default, or one the tenant had. *)
ReadFromLog ==
  \A t \in Tasks : \/ tenantRead[t] = Strict
                   \/ \E n \in DOMAIN tenantLog : tenantRead[t] = tenantLog[n]

(* The policy of a task that was created is what the resolver makes of the *)
(* three policies; no other task has one.                                  *)
EffectiveIsResolved ==
  \A t \in Tasks :
    IF place[t] = "created"
    THEN effective[t] = resolve_effective(under[t], tenantRead[t], asked[t], role[t])
    ELSE effective[t] = None

(* What is under way belongs to a task that was created, and carries its   *)
(* policy or none.                                                         *)
TransitOfCreated ==
  /\ \A m \in turns : /\ m.task \in Tasks /\ place[m.task] = "created"
                      /\ m.policy \in {effective[m.task], Null}
  /\ \A s \in sessions : /\ s.task \in Tasks /\ place[s.task] = "created"
                         /\ s.header \in {effective[s.task], Null}
  /\ \A c \in calls : /\ c.task \in Tasks /\ place[c.task] = "created"
                      /\ c.policy \in {effective[c.task], Null, None}

PolicyInv == PolicyTypeOK /\ ReadFromLog /\ EffectiveIsResolved /\ TransitOfCreated

LEMMA PolicyInitially == Init => PolicyInv
<1>1. SUFFICES ASSUME Init PROVE PolicyInv
  OBVIOUS
<1>2. operator \in Policies
  BY <1>1, LoadedType, PolicyAssumption DEF Init
<1>3. PolicyTypeOK
  BY <1>1, <1>2, StrictType DEF Init, PolicyTypeOK, Roles
<1>4. ReadFromLog /\ EffectiveIsResolved /\ TransitOfCreated
  BY <1>1 DEF Init, ReadFromLog, EffectiveIsResolved, TransitOfCreated
<1>5. QED
  BY <1>3, <1>4 DEF PolicyInv

(* A step that only adds a policy to the log of the tenant. *)
LEMMA StepSetTenantPolicy ==
  ASSUME PolicyInv, SetTenantPolicy
  PROVE  PolicyInv'
<1>1. PICK p \in TenantPolicies : tenantLog' = Append(tenantLog, p)
  BY DEF SetTenantPolicy, TenantPolicyPut
<1>2. p \in Policies /\ tenantLog \in Seq(Policies)
  BY PolicyAssumption DEF PolicyInv, PolicyTypeOK
<1>3. /\ tenantLog' \in Seq(Policies)
      /\ \A n \in DOMAIN tenantLog : n \in DOMAIN tenantLog' /\ tenantLog'[n] = tenantLog[n]
  BY <1>1, <1>2, AppendProperties
<1>4. UNCHANGED <<operator, place, asked, role, tenantRead, effective, under,
                  turns, sessions, calls>>
  BY DEF SetTenantPolicy, creation, transit
<1>5. PolicyTypeOK'
  BY <1>3, <1>4 DEF PolicyInv, PolicyTypeOK
<1>6. ReadFromLog'
  BY <1>3, <1>4 DEF PolicyInv, ReadFromLog
<1>7. EffectiveIsResolved' /\ TransitOfCreated'
  BY <1>4 DEF PolicyInv, EffectiveIsResolved, TransitOfCreated
<1>8. QED
  BY <1>5, <1>6, <1>7 DEF PolicyInv

LEMMA StepRead ==
  ASSUME PolicyInv, NEW t \in Tasks, ReadTenantPolicy(t)
  PROVE  PolicyInv'
<1>1. PICK content \in LatestContents :
        tenantRead' = [tenantRead EXCEPT ![t] = IF content = None THEN Strict ELSE content]
  BY DEF ReadTenantPolicy
<1>2. PICK p \in TaskPolicies, r \in Roles :
        asked' = [asked EXCEPT ![t] = p] /\ role' = [role EXCEPT ![t] = r]
  BY DEF ReadTenantPolicy
<1>3. /\ place[t] = "absent" /\ place' = [place EXCEPT ![t] = "read"]
      /\ UNCHANGED <<operator, tenantLog, effective, under, turns, sessions, calls>>
  BY DEF ReadTenantPolicy, transit
<1> DEFINE v == IF content = None THEN Strict ELSE content
<1>4. v = Strict \/ \E n \in DOMAIN tenantLog : v = tenantLog[n]
  BY <1>1 DEF LatestContents
<1>5. v \in Policies /\ p \in Policies
  BY <1>2, <1>4, StrictType, PolicyAssumption DEF PolicyInv, PolicyTypeOK
<1>6. tenantRead' = [tenantRead EXCEPT ![t] = v]
  BY <1>1
<1> HIDE DEF v
<1>7. PolicyTypeOK'
  BY <1>2, <1>3, <1>5, <1>6 DEF PolicyInv, PolicyTypeOK
<1>8. \A u \in Tasks : /\ u # t => /\ tenantRead'[u] = tenantRead[u] /\ asked'[u] = asked[u]
                                   /\ role'[u] = role[u] /\ place'[u] = place[u]
                       /\ u = t => tenantRead'[u] = v /\ place'[u] = "read"
  BY <1>2, <1>3, <1>6 DEF PolicyInv, PolicyTypeOK
<1>9. ReadFromLog'
  BY <1>3, <1>4, <1>8 DEF PolicyInv, ReadFromLog
<1>10. EffectiveIsResolved'
  <2>1. SUFFICES ASSUME NEW u \in Tasks
                 PROVE  IF place'[u] = "created"
                        THEN effective'[u] = resolve_effective(under'[u], tenantRead'[u],
                                                               asked'[u], role'[u])
                        ELSE effective'[u] = None
    BY DEF EffectiveIsResolved
  <2>2. CASE u = t
    BY <1>3, <1>8, <2>2 DEF PolicyInv, EffectiveIsResolved
  <2>3. CASE u # t
    BY <1>3, <1>8, <2>3 DEF PolicyInv, EffectiveIsResolved
  <2>4. QED
    BY <2>2, <2>3
<1>11. \A u \in Tasks : place[u] = "created" => place'[u] = "created"
  BY <1>3, <1>8
<1>12. TransitOfCreated'
  BY <1>3, <1>11 DEF PolicyInv, TransitOfCreated
<1>13. QED
  BY <1>7, <1>9, <1>10, <1>12 DEF PolicyInv

LEMMA StepCreate ==
  ASSUME PolicyInv, NEW t \in Tasks, CreateTask(t)
  PROVE  PolicyInv'
<1> DEFINE eff == resolve_and_validate(operator, tenantRead[t], asked[t], role[t])
<1>1. /\ place[t] = "read"
      /\ UNCHANGED <<operator, tenantLog, asked, role, tenantRead, turns, sessions, calls>>
      /\ eff # None => Created(t, eff)
      /\ eff = None => place' = [place EXCEPT ![t] = "refused"] /\ UNCHANGED <<effective, under>>
  BY DEF CreateTask, transit
<1>2. eff # None => eff = resolve_effective(operator, tenantRead[t], asked[t], role[t])
  BY DEF resolve_and_validate
<1>3. resolve_effective(operator, tenantRead[t], asked[t], role[t]) \in Policies
  BY ResolverOnlyNarrows DEF PolicyInv, PolicyTypeOK
<1> HIDE DEF eff
<1>4. ReadFromLog'
  BY <1>1 DEF PolicyInv, ReadFromLog
<1>5. CASE eff = None
  <2>1. place' = [place EXCEPT ![t] = "refused"] /\ UNCHANGED <<effective, under>>
    BY <1>1, <1>5
  <2>2. PolicyTypeOK'
    BY <1>1, <2>1 DEF PolicyInv, PolicyTypeOK
  <2>3. \A u \in Tasks : place'[u] = IF u = t THEN "refused" ELSE place[u]
    BY <2>1 DEF PolicyInv, PolicyTypeOK
  <2>4. EffectiveIsResolved' /\ TransitOfCreated'
    BY <1>1, <2>1, <2>3 DEF PolicyInv, EffectiveIsResolved, TransitOfCreated
  <2>5. QED
    BY <1>4, <2>2, <2>4 DEF PolicyInv
<1>6. CASE eff # None
  <2>1. /\ place' = [place EXCEPT ![t] = "created"]
        /\ effective' = [effective EXCEPT ![t] = eff] /\ under' = [under EXCEPT ![t] = operator]
    BY <1>1, <1>6 DEF Created
  <2>2. PolicyTypeOK'
    BY <1>1, <1>2, <1>3, <1>6, <2>1 DEF PolicyInv, PolicyTypeOK
  <2>3. \A u \in Tasks : /\ place'[u] = IF u = t THEN "created" ELSE place[u]
                         /\ effective'[u] = IF u = t THEN eff ELSE effective[u]
                         /\ under'[u] = IF u = t THEN operator ELSE under[u]
    BY <2>1 DEF PolicyInv, PolicyTypeOK
  <2>4. EffectiveIsResolved'
    <3>1. SUFFICES ASSUME NEW u \in Tasks
                   PROVE  IF place'[u] = "created"
                          THEN effective'[u] = resolve_effective(under'[u], tenantRead'[u],
                                                                 asked'[u], role'[u])
                          ELSE effective'[u] = None
      BY DEF EffectiveIsResolved
    <3>2. CASE u = t
      BY <1>1, <1>2, <1>6, <2>3, <3>2
    <3>3. CASE u # t
      BY <1>1, <2>3, <3>3 DEF PolicyInv, EffectiveIsResolved
    <3>4. QED
      BY <3>2, <3>3
  <2>5. TransitOfCreated'
    BY <1>1, <2>3 DEF PolicyInv, TransitOfCreated
  <2>6. QED
    BY <1>4, <2>2, <2>4, <2>5 DEF PolicyInv
<1>7. QED
  BY <1>5, <1>6

LEMMA StepTransit ==
  ASSUME PolicyInv,
         \/ \E t \in Tasks : BeginTurn(t)
         \/ \E m \in turns : OpenSession(m)
         \/ \E s \in sessions : CallTool(s)
  PROVE  PolicyInv'
<1>1. UNCHANGED <<operator, tenantLog, place, asked, role, tenantRead, effective, under>>
  BY DEF BeginTurn, OpenSession, CallTool, creation
<1>2. PolicyTypeOK' /\ ReadFromLog' /\ EffectiveIsResolved'
  BY <1>1 DEF PolicyInv, PolicyTypeOK, ReadFromLog, EffectiveIsResolved
<1>3. CASE \E t \in Tasks : BeginTurn(t)
  <2>1. PICK t \in Tasks : BeginTurn(t)
    BY <1>3
  <2>2. PICK p \in PolicyOf(t) : turns' = turns \cup {BeginPayload(t, p)}
    BY <2>1 DEF BeginTurn
  <2>3. /\ BeginPayload(t, p).task = t
        /\ BeginPayload(t, p).policy \in {effective[t], Null}
    BY <2>2 DEF BeginPayload, PolicyOf
  <2>4. place[t] = "created" /\ UNCHANGED <<sessions, calls>>
    BY <2>1 DEF BeginTurn
  <2>5. TransitOfCreated'
    BY <1>1, <2>2, <2>3, <2>4 DEF PolicyInv, TransitOfCreated
  <2>6. QED
    BY <1>2, <2>5 DEF PolicyInv
<1>4. CASE \E m \in turns : OpenSession(m)
  <2>1. PICK m \in turns : OpenSession(m)
    BY <1>4
  <2>2. /\ sessions' = sessions \cup {SessionParams(m, ParsedPolicy(m))}
        /\ UNCHANGED <<turns, calls>>
    BY <2>1 DEF OpenSession
  <2>3. /\ SessionParams(m, ParsedPolicy(m)).task = m.task
        /\ SessionParams(m, ParsedPolicy(m)).header = m.policy
    BY DEF SessionParams, ParsedPolicy
  <2>4. TransitOfCreated'
    BY <1>1, <2>2, <2>3 DEF PolicyInv, TransitOfCreated
  <2>5. QED
    BY <1>2, <2>4 DEF PolicyInv
<1>5. CASE \E s \in sessions : CallTool(s)
  <2>1. PICK s \in sessions : CallTool(s)
    BY <1>5
  <2>2. PICK p \in HeaderPolicy(s) : calls' = calls \cup {InvokeMeta(s, p)}
    BY <2>1 DEF CallTool
  <2>3. /\ InvokeMeta(s, p).task = s.task
        /\ InvokeMeta(s, p).policy \in {s.header, None} /\ UNCHANGED <<turns, sessions>>
    BY <2>1, <2>2 DEF InvokeMeta, HeaderPolicy, CallTool
  <2>4. TransitOfCreated'
    BY <1>1, <2>2, <2>3 DEF PolicyInv, TransitOfCreated
  <2>5. QED
    BY <1>2, <2>4 DEF PolicyInv
<1>6. QED
  BY <1>3, <1>4, <1>5

LEMMA StepRestart ==
  ASSUME PolicyInv, Restart
  PROVE  PolicyInv'
<1>1. /\ operator' \in Policies
      /\ place' = [t \in Tasks |-> IF place[t] = "read" THEN "absent" ELSE place[t]]
      /\ UNCHANGED <<tenantLog, asked, role, tenantRead, effective, under,
                     turns, sessions, calls>>
  BY LoadedType, PolicyAssumption DEF Restart, transit
<1>2. PolicyTypeOK'
  BY <1>1 DEF PolicyInv, PolicyTypeOK
<1>3. \A t \in Tasks : place'[t] = "created" <=> place[t] = "created"
  BY <1>1
<1>4. ReadFromLog' /\ EffectiveIsResolved' /\ TransitOfCreated'
  BY <1>1, <1>3 DEF PolicyInv, ReadFromLog, EffectiveIsResolved, TransitOfCreated
<1>5. QED
  BY <1>2, <1>4 DEF PolicyInv

LEMMA PolicyInvariant == Spec => []PolicyInv
<1>1. PolicyInv /\ [Next]_policyVars => PolicyInv'
  <2>1. SUFFICES ASSUME PolicyInv, [Next]_policyVars PROVE PolicyInv'
    OBVIOUS
  <2>2. CASE Next
    BY <2>1, <2>2, StepSetTenantPolicy, StepRead, StepCreate, StepTransit, StepRestart DEF Next
  <2>3. CASE UNCHANGED policyVars
    BY <2>1, <2>3 DEF policyVars, creation, transit, PolicyInv, PolicyTypeOK, ReadFromLog,
                      EffectiveIsResolved, TransitOfCreated
  <2>4. QED
    BY <2>1, <2>2, <2>3
<1>2. QED
  BY <1>1, PolicyInitially, PTL DEF Spec

-----------------------------------------------------------------------------
(* resolve_effective and the way of its result to the sandbox: whatever    *)
(* becomes of the operator's file and of the tenant's policy afterwards, a *)
(* call of a tool carries no more than the task asked for, a policy the    *)
(* tenant had and the operator's policy at the creation of the task allow; *)
(* of a reader's write scopes those stay that are labelled work_dir.       *)
THEOREM CallsCarryNoMore == Spec => []CallsWithin
<1>1. ASSUME PolicyInv PROVE CallsWithin
  <2>1. SUFFICES ASSUME NEW c \in calls, c.policy \notin {None, Null}
                 PROVE  /\ NoMoreThan(c.policy, asked[c.task])
                        /\ NoMoreThan(c.policy, under[c.task])
                        /\ \/ NoMoreThan(c.policy, Strict)
                           \/ \E n \in DOMAIN tenantLog : NoMoreThan(c.policy, tenantLog[n])
                        /\ role[c.task] = "reader" =>
                             /\ c.policy.net = {}
                             /\ \A i \in DOMAIN c.policy.write :
                                  c.policy.write[i].trust = "work_dir"
    BY DEF CallsWithin
  <2> DEFINE t == c.task
             eff == resolve_effective(under[t], tenantRead[t], asked[t], role[t])
  <2>2. t \in Tasks /\ place[t] = "created" /\ c.policy = effective[t]
    BY <1>1, <2>1 DEF PolicyInv, TransitOfCreated
  <2>3. c.policy = eff
    BY <1>1, <2>2 DEF PolicyInv, EffectiveIsResolved
  <2>4. /\ under[t] \in Policies /\ tenantRead[t] \in Policies /\ asked[t] \in Policies
        /\ role[t] \in Roles
    BY <1>1, <2>2 DEF PolicyInv, PolicyTypeOK
  <2>5. /\ eff \in Policies /\ validate_subset(eff, under[t])
        /\ validate_subset(eff, tenantRead[t]) /\ validate_subset(eff, asked[t])
        /\ role[t] = "reader" => eff.net = {} /\ AllInWorkDir(eff.write)
    BY <2>4, ResolverOnlyNarrows
  <2> HIDE DEF eff
  <2>6. /\ NoMoreThan(eff, under[t]) /\ NoMoreThan(eff, tenantRead[t])
        /\ NoMoreThan(eff, asked[t])
    BY <2>4, <2>5, SubsetIsNoMore
  <2>7. \/ NoMoreThan(eff, Strict)
        \/ \E n \in DOMAIN tenantLog : NoMoreThan(eff, tenantLog[n])
    BY <1>1, <2>2, <2>6 DEF PolicyInv, ReadFromLog
  <2>8. QED
    BY <2>3, <2>5, <2>6, <2>7 DEF AllInWorkDir
<1>2. QED
  BY <1>1, PolicyInvariant, PTL

(* resolve_and_validate: a task that is not refused with 400 gets all that *)
(* the operator, the tenant and its request have in common, as far as no   *)
(* scope overlaps several of the next policy, where find takes the first.  *)
THEOREM AcceptedGetAll == Spec => []AcceptedIsGranted
<1>1. ASSUME PolicyInv PROVE AcceptedIsGranted
  <2>1. SUFFICES ASSUME NEW t \in Tasks, place[t] = "created"
                 PROVE  /\ NothingLost(effective[t].read, under[t].read,
                                       tenantRead[t].read, asked[t].read)
                        /\ role[t] = "operator" =>
                             NothingLost(effective[t].write, under[t].write,
                                         tenantRead[t].write, asked[t].write)
    BY DEF AcceptedIsGranted
  <2>2. effective[t] = resolve_effective(under[t], tenantRead[t], asked[t], role[t])
    BY <1>1, <2>1 DEF PolicyInv, EffectiveIsResolved
  <2>3. /\ under[t] \in Policies /\ tenantRead[t] \in Policies /\ asked[t] \in Policies
        /\ role[t] \in Roles
    BY <1>1 DEF PolicyInv, PolicyTypeOK
  <2>4. QED
    BY <2>2, <2>3, ResolverKeeps
<1>2. QED
  BY <1>1, PolicyInvariant, PTL
=============================================================================
