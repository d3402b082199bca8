-------------------------- MODULE EndpointsProofs --------------------------
(***************************************************************************)
(* Proofs about Endpoints, for any URLs, keys, documents and answers.      *)
(*                                                                         *)
(* The lists are selections by rank, and the ranks of n indices are 1..n:  *)
(* an injection of a set into an interval of its size is onto.  From that  *)
(* follows what Unique, Only, Ordered and Reconciled return.  The stored   *)
(* order then fits the endpoints in use because it fits the document they  *)
(* came with, or the cached one they are restored from (LearnedOK), and a  *)
(* loop stops for good reason because a pass counts an endpoint only after *)
(* a final answer (PassOK).                                                *)
(***************************************************************************)
EXTENDS Endpoints, FiniteSetTheorems, TLAPS

-----------------------------------------------------------------------------
(* The elements of a sequence at some indices *)

\* The indices in I up to i, and the k-th index in I.
UpTo(I, i) == {j \in I : j <= i}
At(I, k) == CHOOSE i \in I : Cardinality(UpTo(I, i)) = k

\* The ranks of the elements of a set of n indices are 1..n.
LEMMA Ranks ==
    ASSUME NEW n \in Nat, NEW I \in SUBSET (1..n)
    PROVE  /\ IsFiniteSet(I) /\ Cardinality(I) \in Nat
           /\ \A i \in I : Cardinality(UpTo(I, i)) \in 1..Cardinality(I)
           /\ \A i, j \in I : i < j => Cardinality(UpTo(I, i)) < Cardinality(UpTo(I, j))
           /\ \A k \in 1..Cardinality(I) : \E i \in I : Cardinality(UpTo(I, i)) = k
<1>1. IsFiniteSet(I) /\ Cardinality(I) \in Nat
  <2>1. IsFiniteSet(1..n)
    BY FS_Interval
  <2>2. IsFiniteSet(I)
    BY <2>1, FS_Subset
  <2> QED
    BY <2>2, FS_CardinalityType
<1>2. \A i \in I : IsFiniteSet(UpTo(I, i)) /\ Cardinality(UpTo(I, i)) \in Nat
  <2>. TAKE i \in I
  <2>1. UpTo(I, i) \in SUBSET I
    BY DEF UpTo
  <2> QED
    BY <2>1, <1>1, FS_Subset, FS_CardinalityType
<1>3. \A i \in I : Cardinality(UpTo(I, i)) \in 1..Cardinality(I)
  <2>. TAKE i \in I
  <2>1. UpTo(I, i) \in SUBSET I /\ i \in UpTo(I, i)
    BY DEF UpTo
  <2>2. Cardinality(UpTo(I, i)) <= Cardinality(I)
    BY <2>1, <1>1, FS_Subset
  <2>3. Cardinality(UpTo(I, i)) # 0
    BY <2>1, <1>2, FS_EmptySet
  <2> QED
    BY <1>1, <1>2, <2>2, <2>3
<1>4. \A i, j \in I : i < j => Cardinality(UpTo(I, i)) < Cardinality(UpTo(I, j))
  <2>. SUFFICES ASSUME NEW i \in I, NEW j \in I, i < j
                PROVE  Cardinality(UpTo(I, i)) < Cardinality(UpTo(I, j))
    OBVIOUS
  <2>1. UpTo(I, i) \in SUBSET UpTo(I, j)
    <3>1. \A m \in I : m <= i => m <= j
      OBVIOUS
    <3> QED
      BY <3>1 DEF UpTo
  <2>2. j \in UpTo(I, j) /\ j \notin UpTo(I, i)
    BY DEF UpTo
  <2>3. /\ Cardinality(UpTo(I, i)) <= Cardinality(UpTo(I, j))
        /\ Cardinality(UpTo(I, i)) # Cardinality(UpTo(I, j))
    BY <2>1, <2>2, <1>2, FS_Subset
  <2> QED
    BY <2>3, <1>2
<1>5. \A k \in 1..Cardinality(I) : \E i \in I : Cardinality(UpTo(I, i)) = k
  <2>. DEFINE rank == [i \in I |-> Cardinality(UpTo(I, i))]
              N == 1..Cardinality(I)
  <2>1. rank \in [I -> N]
    BY <1>3
  <2>2. \A i, j \in I : rank[i] = rank[j] => i = j
    <3>. SUFFICES ASSUME NEW i \in I, NEW j \in I, i # j
                  PROVE  rank[i] # rank[j]
      OBVIOUS
    <3>1. i < j \/ j < i
      OBVIOUS
    <3> QED
      BY <3>1, <1>2, <1>4
  <2>3. rank \in Injection(I, N)
    BY <2>1, <2>2 DEF Injection, IsInjective
  <2>4. IsFiniteSet(N) /\ Cardinality(N) = Cardinality(I)
    BY <1>1, FS_Interval
  <2>5. rank \in Surjection(I, N)
    BY <2>3, <2>4, FS_Injection
  <2> QED
    BY <2>5 DEF Surjection
<1> QED
  BY <1>1, <1>3, <1>4, <1>5

\* A set of indices that is not empty has a least element.
LEMMA Least ==
    ASSUME NEW n \in Nat, NEW I \in SUBSET (1..n), I # {}
    PROVE  \E i \in I : \A j \in I : i <= j
<1>1. IsFiniteSet(I) /\ Cardinality(I) \in Nat
  BY Ranks
<1>2. Cardinality(I) # 0
  BY <1>1, FS_EmptySet
<1>3. PICK i \in I : Cardinality(UpTo(I, i)) = 1
  BY <1>1, <1>2, Ranks
<1>4. \A j \in I : Cardinality(UpTo(I, j)) \in 1..Cardinality(I)
  BY Ranks
<1>5. \A j \in I : j < i => Cardinality(UpTo(I, j)) < Cardinality(UpTo(I, i))
  BY Ranks
<1> QED
  BY <1>1, <1>3, <1>4, <1>5

\* What is picked: one element of the sequence for each index, in their order.
LEMMA PickedFacts ==
    ASSUME NEW S \in SUBSET Items, NEW s \in Seq(S), NEW I \in SUBSET (DOMAIN s)
    PROVE  /\ Picked[s][I] \in Seq(S)
           /\ Len(Picked[s][I]) = Cardinality(I) /\ Cardinality(I) \in Nat
           /\ \A k \in 1..Cardinality(I) :
                At(I, k) \in I /\ Picked[s][I][k] = s[At(I, k)]
           /\ \A k, l \in 1..Cardinality(I) : k < l => At(I, k) < At(I, l)
           /\ \A i \in I : \E k \in 1..Cardinality(I) : At(I, k) = i
<1>. DEFINE n == Cardinality(I)
<1>1. Len(s) \in Nat /\ DOMAIN s = 1..Len(s) /\ s \in Seq(Items) /\ I \in SUBSET Nat
  OBVIOUS
<1>2. /\ IsFiniteSet(I) /\ n \in Nat
      /\ \A i \in I : Cardinality(UpTo(I, i)) \in 1..n
      /\ \A i, j \in I : i < j => Cardinality(UpTo(I, i)) < Cardinality(UpTo(I, j))
      /\ \A k \in 1..n : \E i \in I : Cardinality(UpTo(I, i)) = k
  BY <1>1, Ranks
<1>3. Picked[s][I] = [k \in 1..n |-> s[At(I, k)]]
  BY <1>1 DEF Picked, At, UpTo
<1>4. \A k \in 1..n : At(I, k) \in I /\ Cardinality(UpTo(I, At(I, k))) = k
  BY <1>2 DEF At
<1>5. \A i \in I : At(I, Cardinality(UpTo(I, i))) = i
  <2>. SUFFICES ASSUME NEW i \in I, NEW j \in I, i # j,
                       Cardinality(UpTo(I, i)) = Cardinality(UpTo(I, j))
                PROVE  FALSE
    BY <1>2, <1>4
  <2>1. i < j \/ j < i
    BY <1>1
  <2> QED
    BY <2>1, <1>2
<1>6. \A k, l \in 1..n : k < l => At(I, k) < At(I, l)
  <2>. SUFFICES ASSUME NEW k \in 1..n, NEW l \in 1..n, k < l, ~(At(I, k) < At(I, l))
                PROVE  FALSE
    OBVIOUS
  <2>1. At(I, k) \in I /\ At(I, l) \in I /\ At(I, k) \in Nat /\ At(I, l) \in Nat
    BY <1>1, <1>4
  <2>2. At(I, l) < At(I, k) \/ At(I, l) = At(I, k)
    BY <2>1
  <2>3. Cardinality(UpTo(I, At(I, l))) = l /\ Cardinality(UpTo(I, At(I, k))) = k
    BY <1>4
  <2> QED
    BY <2>1, <2>2, <2>3, <1>2
<1>7. Picked[s][I] \in Seq(S) /\ Len(Picked[s][I]) = n
  <2>1. \A k \in 1..n : s[At(I, k)] \in S
    BY <1>1, <1>4
  <2> QED
    BY <1>2, <1>3, <2>1
<1> QED
  BY <1>2, <1>3, <1>4, <1>5, <1>6, <1>7

NoRepetition(s) == \A i, j \in DOMAIN s : s[i] = s[j] => i = j

\* The elements picked, the first of them and their number.
LEMMA PickedElements ==
    ASSUME NEW S \in SUBSET Items, NEW s \in Seq(S), NEW I \in SUBSET (DOMAIN s)
    PROVE  /\ ToSet(Picked[s][I]) = {s[i] : i \in I}
           /\ 1 \in I => Picked[s][I] # <<>> /\ Picked[s][I][1] = s[1]
           /\ I = DOMAIN s => Len(Picked[s][I]) = Len(s)
<1>. DEFINE n == Cardinality(I)
            p == Picked[s][I]
<1>1. /\ p \in Seq(S) /\ Len(p) = n /\ n \in Nat
      /\ \A k \in 1..n : At(I, k) \in I /\ p[k] = s[At(I, k)]
      /\ \A k, l \in 1..n : k < l => At(I, k) < At(I, l)
      /\ \A i \in I : \E k \in 1..n : At(I, k) = i
  BY PickedFacts
<1>. HIDE DEF n, p
<1>2. ToSet(p) = {s[i] : i \in I}
  <2>1. DOMAIN p = 1..n
    BY <1>1
  <2>2. \A i \in I : \E k \in 1..n : p[k] = s[i]
    BY <1>1
  <2>3. \A k \in 1..n : \E i \in I : p[k] = s[i]
    BY <1>1
  <2>4. ToSet(p) = {p[k] : k \in 1..n}
    BY <2>1 DEF ToSet
  <2>5. {p[k] : k \in 1..n} \subseteq {s[i] : i \in I}
    BY <2>3
  <2>6. {s[i] : i \in I} \subseteq {p[k] : k \in 1..n}
    BY <2>2
  <2> QED
    BY <2>4, <2>5, <2>6
<1>3. ASSUME 1 \in I
      PROVE  p # <<>> /\ p[1] = s[1]
  <2>1. PICK k \in 1..n : At(I, k) = 1
    BY <1>1, <1>3
  <2>2. At(I, 1) \in DOMAIN s
    BY <1>1, <2>1
  <2>3. k = 1
    BY <1>1, <2>1, <2>2
  <2> QED
    BY <1>1, <2>1, <2>3
<1>4. ASSUME I = DOMAIN s
      PROVE  Len(p) = Len(s)
  <2>1. Len(s) \in Nat /\ I = 1..Len(s)
    BY <1>4
  <2>2. \A m \in Nat : Cardinality(1..m) = m
    BY FS_Interval
  <2> QED
    BY <2>1, <2>2, <1>1 DEF n
<1> QED
  BY <1>2, <1>3, <1>4 DEF p

\* Unique drops nothing but repetitions, and drops them all (normalizeEndpoints).
LEMMA UniqueFacts ==
    ASSUME NEW S \in SUBSET Items, NEW s \in Seq(S)
    PROVE  /\ Unique[s] \in Seq(S)
           /\ ToSet(Unique[s]) = ToSet(s) /\ NoRepetition(Unique[s])
           /\ s # <<>> => Unique[s] # <<>> /\ Unique[s][1] = s[1]
           /\ NoRepetition(s) => Len(Unique[s]) = Len(s)
<1>. DEFINE I == {i \in DOMAIN s : \A j \in 1..(i - 1) : s[j] # s[i]}
            u == Unique[s]
<1>1. Unique[s] = Picked[s][I] /\ I \in SUBSET (DOMAIN s)
  BY DEF Unique
<1>2. s \in Seq(S) /\ Len(s) \in Nat /\ DOMAIN s = 1..Len(s)
  OBVIOUS
<1>3. \A i \in DOMAIN s : \E j \in I : s[j] = s[i]
  <2>. TAKE i \in DOMAIN s
  <2>. DEFINE J == {j \in DOMAIN s : s[j] = s[i]}
  <2>1. J \in SUBSET (1..Len(s)) /\ i \in J
    OBVIOUS
  <2>2. PICK j \in J : \A l \in J : j <= l
    BY <2>1, <1>2, Least
  <2>3. j \in DOMAIN s /\ s[j] = s[i]
    OBVIOUS
  <2>4. \A l \in 1..(j - 1) : s[l] # s[j]
    <3>. SUFFICES ASSUME NEW l \in 1..(j - 1), s[l] = s[j]
                  PROVE  FALSE
      OBVIOUS
    <3>1. l \in J /\ l < j
      BY <1>2, <2>3
    <3> QED
      BY <3>1, <2>2, <1>2
  <2> QED
    BY <2>3, <2>4
<1>4. \A i, j \in I : s[i] = s[j] => i = j
  <2>. SUFFICES ASSUME NEW i \in I, NEW j \in I, i < j
                PROVE  s[i] # s[j]
    BY <1>2
  <2>1. i \in 1..(j - 1)
    BY <1>2
  <2> QED
    BY <2>1
<1>5. 1 \in DOMAIN s => 1 \in I
  OBVIOUS
<1>6. NoRepetition(s) => I = DOMAIN s
  <2>. SUFFICES ASSUME NoRepetition(s), NEW i \in DOMAIN s, NEW j \in 1..(i - 1)
                PROVE  s[j] # s[i]
    OBVIOUS
  <2>1. j \in DOMAIN s /\ j # i
    BY <1>2
  <2> QED
    BY <2>1 DEF NoRepetition
<1>. HIDE DEF I
<1>7. /\ u \in Seq(S) /\ Len(u) = Cardinality(I) /\ Cardinality(I) \in Nat
      /\ \A k \in 1..Cardinality(I) : At(I, k) \in I /\ u[k] = s[At(I, k)]
      /\ \A k, l \in 1..Cardinality(I) : k < l => At(I, k) < At(I, l)
  BY <1>1, PickedFacts
<1>8. /\ ToSet(u) = {s[i] : i \in I}
      /\ 1 \in I => u # <<>> /\ u[1] = s[1]
      /\ I = DOMAIN s => Len(u) = Len(s)
  BY <1>1, PickedElements
<1>. HIDE DEF u
<1>9. ToSet(u) = ToSet(s)
  BY <1>1, <1>8, <1>3 DEF ToSet
<1>10. NoRepetition(u)
  <2>. SUFFICES ASSUME NEW k \in DOMAIN u, NEW l \in DOMAIN u, k < l
                PROVE  u[k] # u[l]
    BY <1>7 DEF NoRepetition
  <2>1. k \in 1..Cardinality(I) /\ l \in 1..Cardinality(I)
    BY <1>7
  <2>2. At(I, k) < At(I, l) /\ At(I, k) \in DOMAIN s
    BY <1>1, <1>7, <2>1
  <2>3. At(I, k) # At(I, l)
    BY <1>1, <1>2, <1>7, <2>1, <2>2
  <2> QED
    BY <1>7, <1>4, <2>1, <2>3
<1>11. s # <<>> => u # <<>> /\ u[1] = s[1]
  BY <1>2, <1>8, <1>5
<1> QED
  BY <1>7, <1>8, <1>6, <1>9, <1>10, <1>11 DEF u

\* Only keeps the elements of T.
LEMMA OnlyFacts ==
    ASSUME NEW S \in SUBSET Items, NEW s \in Seq(S), NEW T \in SUBSET Items
    PROVE  /\ Only[s][T] \in Seq(S) /\ ToSet(Only[s][T]) = ToSet(s) \cap T
           /\ s # <<>> /\ s[1] \in T => Only[s][T] # <<>> /\ Only[s][T][1] = s[1]
<1>. DEFINE I == {i \in DOMAIN s : s[i] \in T}
<1>1. Only[s][T] = Picked[s][I] /\ I \in SUBSET (DOMAIN s)
  BY DEF Only
<1>2. {s[i] : i \in I} = ToSet(s) \cap T
  BY DEF ToSet
<1>3. s # <<>> /\ s[1] \in T => 1 \in I
  OBVIOUS
<1>. HIDE DEF I
<1>4. Only[s][T] \in Seq(S)
  BY <1>1, PickedFacts
<1>5. /\ ToSet(Picked[s][I]) = {s[i] : i \in I}
      /\ 1 \in I => Picked[s][I] # <<>> /\ Picked[s][I][1] = s[1]
  BY <1>1, PickedElements
<1> QED
  BY <1>1, <1>2, <1>3, <1>4, <1>5

\* The elements of a concatenation.
LEMMA ConcatFacts ==
    ASSUME NEW S, NEW s \in Seq(S), NEW t \in Seq(S)
    PROVE  /\ s \o t \in Seq(S) /\ ToSet(s \o t) = ToSet(s) \cup ToSet(t)
           /\ s # <<>> => s \o t # <<>> /\ (s \o t)[1] = s[1]
<1>1. \A i \in DOMAIN t : Len(s) + i \in DOMAIN (s \o t) /\ (s \o t)[Len(s) + i] = t[i]
  OBVIOUS
<1>2. \A i \in DOMAIN s : i \in DOMAIN (s \o t) /\ (s \o t)[i] = s[i]
  OBVIOUS
<1>3. \A i \in DOMAIN (s \o t) :
         i \in DOMAIN s \/ (i - Len(s) \in DOMAIN t /\ (s \o t)[i] = t[i - Len(s)])
  OBVIOUS
<1>4. ToSet(s \o t) = ToSet(s) \cup ToSet(t)
  <2>1. ToSet(s) \cup ToSet(t) \subseteq ToSet(s \o t)
    BY <1>1, <1>2 DEF ToSet
  <2>2. ToSet(s \o t) \subseteq ToSet(s) \cup ToSet(t)
    BY <1>2, <1>3 DEF ToSet
  <2> QED
    BY <2>1, <2>2
<1> QED
  BY <1>2, <1>4

-----------------------------------------------------------------------------
(* The stored order *)

\* The keys of a list of endpoints.
LEMMA KeysFacts ==
    ASSUME NEW es \in Seq(URLs)
    PROVE  /\ KeySeq(es) \in Seq(Keys) /\ ToSet(KeySeq(es)) = KeysOf(es)
           /\ KeysOf(es) = {Key[e] : e \in ToSet(es)}
           /\ KeysOf(es) \in SUBSET Keys /\ KeysOf(es) \in SUBSET Items
           /\ ToSet(es) \in SUBSET URLs
<1>1. KeySeq(es) \in Seq(Keys) /\ DOMAIN KeySeq(es) = DOMAIN es
  BY EndpointsAssumption DEF KeySeq
<1>2. \A i \in DOMAIN es : KeySeq(es)[i] = Key[es[i]] /\ es[i] \in URLs
  BY DEF KeySeq
<1>3. \A e \in URLs : Key[e] \in Keys
  BY EndpointsAssumption
<1>4. KeysOf(es) = {Key[e] : e \in ToSet(es)}
  BY <1>1, <1>2 DEF KeysOf, ToSet
<1>5. ToSet(es) \in SUBSET URLs
  BY <1>2 DEF ToSet
<1>6. KeysOf(es) \in SUBSET Keys
  BY <1>3, <1>4, <1>5
<1> QED
  BY <1>1, <1>4, <1>5, <1>6 DEF KeysOf, Items

\* orderEndpointsByHashes returns the endpoints it is given, and begins with one of
\* the key that is preferred most, if there is one.
THEOREM OrderedFacts ==
    ASSUME NEW preferred \in Seq(Keys), NEW es \in Seq(URLs)
    PROVE  /\ Ordered(preferred, es) \in Seq(URLs)
           /\ ToSet(Ordered(preferred, es)) = ToSet(es)
           /\ preferred # <<>> /\ preferred[1] \in KeysOf(es) =>
                /\ Ordered(preferred, es) # <<>>
                /\ Key[Ordered(preferred, es)[1]] = preferred[1]
<1>. DEFINE Has(k, i) == Key[es[i]] = k /\ \A j \in 1..(i - 1) : Key[es[j]] # k
            FirstWith(k) == es[CHOOSE i \in DOMAIN es :
                                 Key[es[i]] = k /\ \A j \in 1..(i - 1) : Key[es[j]] # k]
            found == Only[preferred][KeysOf(es)]
            first == [i \in DOMAIN found |-> FirstWith(found[i])]
            front == Unique[first]
            rest == Only[es][URLs \ ToSet(front)]
<1>1. Ordered(preferred, es) = front \o rest
  BY DEF Ordered
<1>2. ASSUME NEW k \in KeysOf(es)
      PROVE  FirstWith(k) \in ToSet(es) /\ Key[FirstWith(k)] = k
  <2>. DEFINE I == {i \in DOMAIN es : Key[es[i]] = k}
  <2>1. I \in SUBSET (1..Len(es)) /\ Len(es) \in Nat /\ I # {}
    BY KeysFacts DEF ToSet
  <2>2. PICK i \in I : \A j \in I : i <= j
    BY <2>1, Least
  <2>3. \A j \in 1..(i - 1) : Key[es[j]] # k
    <3>. SUFFICES ASSUME NEW j \in 1..(i - 1), Key[es[j]] = k
                  PROVE  FALSE
      OBVIOUS
    <3>1. j \in I /\ j < i
      BY <2>1
    <3> QED
      BY <2>1, <2>2, <3>1
  <2>4. \E l \in DOMAIN es : Key[es[l]] = k /\ \A j \in 1..(l - 1) : Key[es[j]] # k
    BY <2>3
  <2> QED
    BY <2>4 DEF ToSet
<1>. HIDE DEF FirstWith
<1>3. /\ found \in Seq(Keys) /\ ToSet(found) = ToSet(preferred) \cap KeysOf(es)
      /\ preferred # <<>> /\ preferred[1] \in KeysOf(es) =>
           found # <<>> /\ found[1] = preferred[1]
  BY KeysFacts, OnlyFacts DEF Items
<1>. HIDE DEF found
<1>4. \A i \in DOMAIN found : found[i] \in KeysOf(es)
  BY <1>3 DEF ToSet
<1>5. first \in Seq(URLs) /\ DOMAIN first = DOMAIN found
  BY <1>2, <1>3, <1>4, KeysFacts
<1>6. ToSet(first) \in SUBSET ToSet(es)
  BY <1>2, <1>4 DEF ToSet
<1>7. found # <<>> => first # <<>> /\ Key[first[1]] = found[1]
  BY <1>2, <1>3, <1>4
<1>. HIDE DEF first
<1>8. /\ front \in Seq(URLs) /\ ToSet(front) = ToSet(first)
      /\ first # <<>> => front # <<>> /\ front[1] = first[1]
  BY <1>5, UniqueFacts DEF Items
<1>. HIDE DEF front
<1>9. rest \in Seq(URLs) /\ ToSet(rest) = ToSet(es) \cap (URLs \ ToSet(front))
  BY OnlyFacts DEF Items
<1>. HIDE DEF rest
<1>10. /\ front \o rest \in Seq(URLs) /\ ToSet(front \o rest) = ToSet(front) \cup ToSet(rest)
       /\ front # <<>> => front \o rest # <<>> /\ (front \o rest)[1] = front[1]
  BY <1>8, <1>9, ConcatFacts
<1>11. ToSet(front) \cup ToSet(rest) = ToSet(es)
  BY <1>6, <1>8, <1>9, KeysFacts
<1> QED
  BY <1>1, <1>3, <1>7, <1>8, <1>10, <1>11

\* reconcileEndpointOrderHashes returns each key of the document once, the promoted
\* one first if it is one of them.
THEOREM ReconciledFacts ==
    ASSUME NEW existing \in Seq(Keys), NEW es \in Seq(URLs), NEW promoted \in URLs
    PROVE  /\ Reconciled(existing, es, promoted) \in Seq(Keys)
           /\ ToSet(Reconciled(existing, es, promoted)) = KeysOf(es)
           /\ NoRepetition(Reconciled(existing, es, promoted))
           /\ Key[promoted] \in KeysOf(es) =>
                /\ Reconciled(existing, es, promoted) # <<>>
                /\ Reconciled(existing, es, promoted)[1] = Key[promoted]
<1>. DEFINE one == <<Key[promoted]>>
            head == Only[one][KeysOf(es)]
            old == Only[existing][KeysOf(es)]
            front == head \o old
            all == front \o KeySeq(es)
<1>1. one \in Seq(Keys) /\ one # <<>> /\ one[1] = Key[promoted]
  BY EndpointsAssumption
<1>2. /\ KeySeq(es) \in Seq(Keys) /\ ToSet(KeySeq(es)) = KeysOf(es)
      /\ KeysOf(es) \in SUBSET Items /\ Keys \in SUBSET Items
  BY KeysFacts DEF Items
<1>. HIDE DEF one
<1>3. /\ head \in Seq(Keys) /\ ToSet(head) = ToSet(one) \cap KeysOf(es)
      /\ one # <<>> /\ one[1] \in KeysOf(es) => head # <<>> /\ head[1] = one[1]
  BY <1>1, <1>2, OnlyFacts
<1>4. old \in Seq(Keys) /\ ToSet(old) = ToSet(existing) \cap KeysOf(es)
  BY <1>2, OnlyFacts
<1>. HIDE DEF head, old
<1>5. /\ front \in Seq(Keys) /\ ToSet(front) = ToSet(head) \cup ToSet(old)
      /\ head # <<>> => front # <<>> /\ front[1] = head[1]
  BY <1>3, <1>4, ConcatFacts
<1>. HIDE DEF front
<1>6. /\ all \in Seq(Keys) /\ ToSet(all) = ToSet(front) \cup ToSet(KeySeq(es))
      /\ front # <<>> => all # <<>> /\ all[1] = front[1]
  BY <1>2, <1>5, ConcatFacts
<1>. HIDE DEF all
<1>7. /\ Unique[all] \in Seq(Keys) /\ ToSet(Unique[all]) = ToSet(all)
      /\ NoRepetition(Unique[all])
      /\ all # <<>> => Unique[all] # <<>> /\ Unique[all][1] = all[1]
  BY <1>2, <1>6, UniqueFacts
<1>8. Reconciled(existing, es, promoted) = Unique[all]
  BY DEF Reconciled, all, front, head, old, one
<1>9. ToSet(all) = KeysOf(es)
  BY <1>2, <1>3, <1>4, <1>5, <1>6
<1> QED
  BY <1>1, <1>3, <1>5, <1>6, <1>7, <1>8, <1>9

-----------------------------------------------------------------------------
(* The inductive invariant *)

\* The stored order has the keys of the endpoints in use and of those in the cache,
\* each once, and begins with the URL that delivered last if it is one of them.
LearnedOK ==
    /\ cache # <<>> => ToSet(order) = KeysOf(cache)
    /\ endpoints # <<>> => ToSet(order) = KeysOf(endpoints)
    /\ NoRepetition(order)
    /\ order # <<>> => last \in URLs
    /\ order # <<>> /\ Key[last] \in ToSet(order) => order[1] = Key[last]

\* The URLs of the pass that had their turn.
Asked == {pass.list[j] : j \in 1..(pass.i - 1)}

\* A pass stands at one of its URLs or behind the last, has counted at most the URLs
\* asked, and if it counted them all then the answers of all were final.
PassOK ==
    /\ pass.open => pass.kind = "stream" /\ pass.i \in 1..Len(pass.list)
    /\ pass.kind # "none" =>
         /\ pass.i \in 1..(Len(pass.list) + 1)
         /\ refused \subseteq Asked
         /\ pass.terminals < pass.i
         /\ pass.terminals = pass.i - 1 => refused = Asked

EndpointsInv == TypeOK /\ LearnedOK /\ PassOK /\ RecentFirst

\* Lists of endpoints are lists of URLs.
LEMMA ListTypes ==
    ASSUME TypeOK
    PROVE  /\ \A d \in Docs : d \in Seq(URLs) /\ d # <<>>
           /\ doc \in Seq(URLs) /\ doc # <<>> /\ cache \in Seq(URLs) /\ pass.list \in Seq(URLs)
<1>1. \A d \in Docs : d \in Seq(URLs) /\ d # <<>>
  BY EndpointsAssumption
<1>2. <<>> \in Seq(URLs)
  OBVIOUS
<1> QED
  BY <1>1, <1>2 DEF TypeOK, Pass

\* The URL in turn has a key, and the endpoint of that key an answer.
LEMMA InTurn ==
    ASSUME TypeOK, pass.i \in 1..Len(pass.list)
    PROVE  Tried \in URLs /\ Reply \in Response
<1>1. Tried \in URLs
  BY ListTypes DEF Tried
<1>2. Key[Tried] \in Keys
  BY <1>1, EndpointsAssumption
<1>3. answer[Key[Tried]] \in Answer
  BY <1>2, EndpointsAssumption DEF TypeOK
<1> QED
  BY <1>1, <1>3 DEF Reply, Answer

\* A pass begins before the first of its URLs.
LEMMA BeginInv ==
    ASSUME NEW es \in Seq(URLs), NEW kind \in {"boot", "stream", "fallback", "poll"},
           Begin(kind, es)
    PROVE  /\ pass' \in Pass /\ pass'.kind = kind /\ pass'.list = Unique[es]
           /\ refused' = {} /\ PassOK'
<1>. DEFINE u == Unique[es]
<1>1. u \in Seq(URLs)
  BY UniqueFacts DEF Items
<1>2. /\ pass' = [kind |-> kind, list |-> u, i |-> 1, open |-> FALSE, terminals |-> 0]
      /\ refused' = {}
  BY DEF Begin, NoPass
<1>. HIDE DEF u
<1>3. /\ pass'.kind = kind /\ pass'.list = u /\ pass'.i = 1
      /\ pass'.open = FALSE /\ pass'.terminals = 0 /\ pass' \in Pass
  BY <1>1, <1>2 DEF Pass
<1>4. Asked' = {}
  BY <1>3 DEF Asked
<1>5. 1 \in 1..(Len(u) + 1)
  BY <1>1
<1>6. PassOK'
  BY <1>2, <1>3, <1>4, <1>5 DEF PassOK
<1> QED
  BY <1>2, <1>3, <1>6 DEF u

\* What arrives is learned: the order fits the document, with its URL first.
LEMMA UpdateInv ==
    ASSUME TypeOK, Tried \in URLs, Update
    PROVE  /\ order' \in Seq(Keys) /\ endpoints' \in Seq(URLs)
           /\ cache' \in Docs \cup {<<>>} /\ known' \in Docs \cup {<<>>} /\ last' \in URLs
           /\ LearnedOK'
<1>1. order \in Seq(Keys) /\ doc \in Seq(URLs) /\ doc \in Docs
  BY ListTypes DEF TypeOK
<1>2. /\ order' \in Seq(Keys) /\ ToSet(order') = KeysOf(doc) /\ NoRepetition(order')
      /\ Key[Tried] \in KeysOf(doc) => order' # <<>> /\ order'[1] = Key[Tried]
  BY <1>1, ReconciledFacts DEF Update
<1>3. endpoints' = doc /\ known' = doc /\ last' = Tried /\ cache' \in {doc, <<>>}
  BY DEF Update
<1>4. LearnedOK'
  BY <1>2, <1>3 DEF LearnedOK
<1> QED
  BY <1>1, <1>2, <1>3, <1>4

\* An answer the client takes for the last word is one the draft calls final.
LEMMA TerminalFinal ==
    ASSUME NEW r \in Response,
           \/ Fetch(r) = "terminal" \/ Open(r) = "terminal"
           \/ Open(r) = "stream" /\ Received(r) = "terminal"
    PROVE  Final(r)
<1>1. r.status \in {"none", "200", "304", "other"}
  BY DEF Response
<1>2. ASSUME Refusal(r) = "terminal", r.status \notin {"none", "200"}
      PROVE  Final(r)
  BY <1>2 DEF Refusal, Final
<1>3. ASSUME Received(r) = "terminal", r.status = "200"
      PROVE  Final(r)
  BY <1>3 DEF Received, Opened, Final
<1>4. CASE r.status = "200"
  BY <1>3, <1>4 DEF Fetch, Open
<1>5. Refusal(r) # "stream"
  BY DEF Refusal
<1>6. CASE r.status = "304"
  BY <1>2, <1>6, <1>5 DEF Fetch, Open
<1>7. CASE r.status = "other"
  BY <1>2, <1>7, <1>5 DEF Fetch, Open
<1>8. CASE r.status = "none"
  BY <1>8 DEF Fetch, Open
<1> QED
  BY <1>1, <1>4, <1>6, <1>7, <1>8

\* One endpoint fails; it is counted only if its answer is final.
LEMMA FailsInv ==
    ASSUME EndpointsInv, pass.kind # "none", pass.i \in 1..Len(pass.list),
           NEW terminal \in BOOLEAN, terminal => Final(Reply), Fails(terminal)
    PROVE  EndpointsInv'
<1>. DEFINE more == IF terminal THEN pass.terminals + 1 ELSE pass.terminals
<1>1. /\ pass' = [pass EXCEPT !.i = pass.i + 1, !.open = FALSE, !.terminals = more]
      /\ refused' = IF Final(Reply) THEN refused \cup {Tried} ELSE refused
      /\ UNCHANGED <<published, learned, mode, changes>>
  BY DEF Fails
<1>2. TypeOK /\ pass \in Pass /\ pass.terminals \in Nat /\ pass.i \in Nat /\ Len(pass.list) \in Nat
  BY ListTypes DEF EndpointsInv, TypeOK, Pass
<1>3. /\ pass' \in Pass /\ pass'.kind = pass.kind /\ pass'.list = pass.list
      /\ pass'.i = pass.i + 1 /\ pass'.open = FALSE /\ pass'.terminals = more
  <2>1. pass.i + 1 \in Nat /\ more \in Nat
    BY <1>2
  <2>. HIDE DEF more
  <2> QED
    BY <2>1, <1>1, <1>2 DEF Pass
<1>4. Asked' = Asked \cup {Tried}
  <2>1. 1..(pass'.i - 1) = 1..(pass.i - 1) \cup {pass.i}
    BY <1>2, <1>3
  <2> QED
    BY <2>1, <1>3 DEF Asked, Tried
<1>5. Tried \in URLs
  BY <1>2, InTurn
<1>6. PassOK'
  <2>1. /\ refused \subseteq Asked /\ pass.terminals < pass.i
        /\ pass.terminals = pass.i - 1 => refused = Asked
    BY DEF EndpointsInv, PassOK
  <2>2. pass'.i \in 1..(Len(pass'.list) + 1) /\ pass'.terminals < pass'.i
    BY <2>1, <1>2, <1>3
  <2>3. refused' \subseteq Asked'
    BY <2>1, <1>1, <1>4
  <2>4. pass'.terminals = pass'.i - 1 => refused' = Asked'
    <3>. SUFFICES ASSUME pass'.terminals = pass'.i - 1
                  PROVE  refused' = Asked'
      OBVIOUS
    <3>1. terminal /\ pass.terminals = pass.i - 1
      BY <2>1, <1>2, <1>3
    <3> QED
      BY <3>1, <2>1, <1>1, <1>4
  <2> QED
    BY <2>2, <2>3, <2>4, <1>3 DEF PassOK
<1>7. TypeOK'
  BY <1>1, <1>2, <1>3, <1>5 DEF TypeOK, published, learned
<1>8. LearnedOK' /\ RecentFirst'
  BY <1>1, <1>3 DEF EndpointsInv, LearnedOK, RecentFirst, KeysOf, KeySeq, learned
<1> QED
  BY <1>6, <1>7, <1>8 DEF EndpointsInv

\* A step that begins a pass, ends one or starts the loop anew keeps what was learned
\* as long as the endpoints in use remain those of the stored order.
LEMMA LearnedStays ==
    ASSUME TypeOK, LearnedOK, UNCHANGED <<order, cache, last>>,
           endpoints' # <<>> => ToSet(order) = KeysOf(endpoints')
    PROVE  LearnedOK'
  BY DEF LearnedOK

\* Without a pass there is nothing to say of one.
LEMMA NoPassInv == pass' = NoPass => pass' \in Pass /\ PassOK' /\ RecentFirst'
<1>1. <<>> \in Seq(URLs)
  OBVIOUS
<1> QED
  BY <1>1 DEF NoPass, Pass, PassOK, RecentFirst

\* Ordering keeps the keys.
LEMMA OrderedKeys ==
    ASSUME NEW preferred \in Seq(Keys), NEW es \in Seq(URLs)
    PROVE  /\ KeysOf(Ordered(preferred, es)) = KeysOf(es)
           /\ Ordered(preferred, es) # <<>> => es # <<>>
<1>1. /\ Ordered(preferred, es) \in Seq(URLs)
      /\ ToSet(Ordered(preferred, es)) = ToSet(es)
  BY OrderedFacts
<1>2. ASSUME Ordered(preferred, es) # <<>>
      PROVE  es # <<>>
  <2>1. Ordered(preferred, es)[1] \in ToSet(es)
    BY <1>1, <1>2 DEF ToSet
  <2> QED
    BY <2>1 DEF ToSet
<1> QED
  BY <1>1, <1>2, KeysFacts

\* A poll begins with the URL that delivered last, if it is one of those ordered.
LEMMA BeginPollInv ==
    ASSUME EndpointsInv, BeginPoll
    PROVE  EndpointsInv'
<1>. DEFINE es == Ordered(order, endpoints)
            list == Unique[es]
<1>1. /\ endpoints' = es /\ Begin("poll", es)
      /\ UNCHANGED <<published, order, cache, known, last, mode, changes>>
  BY DEF BeginPoll
<1>2. TypeOK /\ order \in Seq(Keys) /\ endpoints \in Seq(URLs)
  BY DEF EndpointsInv, TypeOK
<1>3. /\ es \in Seq(URLs) /\ KeysOf(es) = KeysOf(endpoints) /\ (es # <<>> => endpoints # <<>>)
      /\ order # <<>> /\ order[1] \in KeysOf(endpoints) => es # <<>> /\ Key[es[1]] = order[1]
  BY <1>2, OrderedFacts, OrderedKeys
<1>. HIDE DEF es
<1>4. /\ pass' \in Pass /\ pass'.kind = "poll" /\ pass'.list = list
      /\ refused' = {} /\ PassOK'
  BY <1>1, <1>3, BeginInv
<1>5. /\ list \in Seq(URLs) /\ ToSet(list) = ToSet(es)
      /\ es # <<>> => list # <<>> /\ list[1] = es[1]
  BY <1>3, UniqueFacts DEF Items
<1>6. LearnedOK'
  BY <1>1, <1>3, LearnedStays DEF EndpointsInv, LearnedOK
<1>7. TypeOK'
  BY <1>1, <1>2, <1>3, <1>4 DEF TypeOK, published
<1>8. RecentFirst'
  <2>. HIDE DEF list
  <2>1. last' = last
    BY <1>1
  <2>2. KeysOf(list) = KeysOf(endpoints)
    BY <1>3, <1>5, KeysFacts
  <2>3. ASSUME Key[last] \in KeysOf(endpoints)
        PROVE  Key[list[1]] = Key[last]
    <3>1. endpoints # <<>>
      BY <2>3 DEF KeysOf, KeySeq, ToSet
    <3>2. ToSet(order) = KeysOf(endpoints)
      BY <3>1 DEF EndpointsInv, LearnedOK
    <3>3. order # <<>>
      BY <3>2, <2>3 DEF ToSet
    <3>4. order[1] = Key[last]
      BY <3>2, <3>3, <2>3 DEF EndpointsInv, LearnedOK
    <3> QED
      BY <3>3, <3>4, <2>3, <1>3, <1>5
  <2>4. KeysOf(pass'.list) = KeysOf(list)
    BY <1>4
  <2> QED
    BY <2>1, <2>2, <2>3, <2>4, <1>4 DEF RecentFirst
<1> QED
  BY <1>4, <1>6, <1>7, <1>8 DEF EndpointsInv

\* A restart brings the endpoints of the cache back in the stored order.
LEMMA CrashInv ==
    ASSUME EndpointsInv, Crash
    PROVE  EndpointsInv'
<1>1. /\ endpoints' = Ordered(order, cache) /\ known' = <<>> /\ mode' = "stream"
      /\ pass' = NoPass /\ refused' = {} /\ changes < MaxChanges /\ changes' = changes + 1
      /\ UNCHANGED <<published, order, cache, last>>
  BY DEF Crash, Change
<1>2. TypeOK /\ order \in Seq(Keys) /\ cache \in Seq(URLs)
  BY ListTypes DEF EndpointsInv, TypeOK
<1>3. /\ endpoints' \in Seq(URLs) /\ KeysOf(endpoints') = KeysOf(cache)
      /\ endpoints' # <<>> => cache # <<>>
  BY <1>1, <1>2, OrderedFacts, OrderedKeys
<1>4. LearnedOK'
  BY <1>1, <1>3, LearnedStays DEF EndpointsInv, LearnedOK
<1>5. pass' \in Pass /\ PassOK' /\ RecentFirst'
  BY <1>1, NoPassInv
<1>6. changes' \in 0..MaxChanges
  BY <1>1, EndpointsAssumption DEF EndpointsInv, TypeOK
<1>7. TypeOK'
  BY <1>1, <1>2, <1>3, <1>5, <1>6 DEF TypeOK, published
<1> QED
  BY <1>4, <1>5, <1>7 DEF EndpointsInv

\* What arrives over a fetch or a stream.
LEMMA DeliveredInv ==
    ASSUME EndpointsInv, Fetched \/ Streamed
    PROVE  EndpointsInv'
<1>1. Update /\ UNCHANGED <<published, mode, refused, changes>>
  BY DEF Fetched, Streamed
<1>2. pass.kind # "none" /\ pass.i \in 1..Len(pass.list)
  BY DEF Fetched, Streamed, Gets, Brings, Trying, EndpointsInv, PassOK
<1>3. TypeOK /\ Tried \in URLs
  BY <1>2, InTurn DEF EndpointsInv
<1>4. /\ order' \in Seq(Keys) /\ endpoints' \in Seq(URLs)
      /\ cache' \in Docs \cup {<<>>} /\ known' \in Docs \cup {<<>>} /\ last' \in URLs
      /\ LearnedOK'
  BY <1>1, <1>3, UpdateInv
<1>5. pass' \in Pass /\ PassOK' /\ RecentFirst'
  <2>1. CASE Fetched
    BY <2>1, NoPassInv DEF Fetched
  <2>2. CASE Streamed
    <3>1. pass' = [pass EXCEPT !.open = TRUE] /\ pass.kind = "stream" /\ pass \in Pass
      BY <2>2, <1>3 DEF Streamed, Brings, TypeOK
    <3>2. /\ pass' \in Pass /\ pass'.kind = pass.kind /\ pass'.list = pass.list
          /\ pass'.i = pass.i /\ pass'.terminals = pass.terminals
      BY <3>1 DEF Pass
    <3>3. Asked' = Asked
      BY <3>2 DEF Asked
    <3> QED
      BY <1>1, <1>2, <3>1, <3>2, <3>3 DEF EndpointsInv, PassOK, RecentFirst
  <2> QED
    BY <2>1, <2>2
<1>6. TypeOK'
  BY <1>1, <1>3, <1>4, <1>5 DEF TypeOK, published
<1> QED
  BY <1>4, <1>5, <1>6 DEF EndpointsInv

\* A pass over the loop's endpoints, or over the setup URL, begins.
LEMMA BeginsInv ==
    ASSUME EndpointsInv, BeginBoot \/ BeginStream \/ NotStreamed
    PROVE  EndpointsInv'
<1>1. UNCHANGED <<published, learned, mode, changes>>
  BY DEF BeginBoot, BeginStream, NotStreamed
<1>2. PICK es \in Seq(URLs), kind \in {"boot", "stream", "fallback"} : Begin(kind, es)
  <2>1. <<Setup>> \in Seq(URLs) /\ endpoints \in Seq(URLs)
    BY EndpointsAssumption DEF EndpointsInv, TypeOK
  <2> QED
    BY <2>1 DEF BeginBoot, BeginStream, NotStreamed
<1>3. pass' \in Pass /\ pass'.kind = kind /\ refused' = {} /\ PassOK'
  BY <1>2, BeginInv
<1>4. LearnedOK' /\ RecentFirst'
  BY <1>1, <1>2, <1>3, LearnedStays DEF EndpointsInv, LearnedOK, RecentFirst, learned
<1>5. TypeOK'
  BY <1>1, <1>3 DEF EndpointsInv, TypeOK, published, learned
<1> QED
  BY <1>3, <1>4, <1>5 DEF EndpointsInv

\* A stream is open over an event that says nothing.
LEMMA IgnoredInv ==
    ASSUME EndpointsInv, EventIgnored
    PROVE  EndpointsInv'
<1>1. /\ pass' = [pass EXCEPT !.open = TRUE]
      /\ UNCHANGED <<published, learned, mode, refused, changes>>
      /\ pass.kind = "stream" /\ pass.i \in 1..Len(pass.list) /\ pass \in Pass
  BY DEF EventIgnored, Brings, Trying, EndpointsInv, TypeOK
<1>2. /\ pass' \in Pass /\ pass'.kind = pass.kind /\ pass'.list = pass.list
      /\ pass'.i = pass.i /\ pass'.terminals = pass.terminals
  BY <1>1 DEF Pass
<1>3. Asked' = Asked
  BY <1>2 DEF Asked
<1>4. PassOK' /\ RecentFirst' /\ LearnedOK'
  BY <1>1, <1>2, <1>3
  DEF EndpointsInv, PassOK, RecentFirst, LearnedOK, KeysOf, KeySeq, learned
<1>5. TypeOK'
  BY <1>1, <1>2 DEF EndpointsInv, TypeOK, published, learned
<1> QED
  BY <1>4, <1>5 DEF EndpointsInv

\* A pass ends without a document.
LEMMA EndsInv ==
    ASSUME EndpointsInv, NotModified \/ FallbackFetched \/ GiveUp
    PROVE  EndpointsInv'
<1>1. pass' = NoPass /\ UNCHANGED <<published, learned, refused, changes>>
  BY DEF NotModified, FallbackFetched, GiveUp
<1>2. mode' \in {"stream", "poll", "stopped"}
  <2>1. mode \in {"stream", "poll", "stopped"}
    BY DEF EndpointsInv, TypeOK
  <2>2. CASE NotModified
    BY <2>1, <2>2 DEF NotModified
  <2>3. CASE FallbackFetched
    BY <2>3 DEF FallbackFetched
  <2>4. CASE GiveUp
    BY <2>1, <2>4 DEF GiveUp
  <2> QED
    BY <2>2, <2>3, <2>4
<1>3. pass' \in Pass /\ PassOK' /\ RecentFirst'
  BY <1>1, NoPassInv
<1>4. LearnedOK'
  BY <1>1, LearnedStays DEF EndpointsInv, LearnedOK, learned
<1>5. TypeOK'
  BY <1>1, <1>2, <1>3 DEF EndpointsInv, TypeOK, published, learned
<1> QED
  BY <1>3, <1>4, <1>5 DEF EndpointsInv

\* Whatever endpoints answer and connections do, what is counted is final.
LEMMA FailingInv ==
    ASSUME EndpointsInv, AnswersBadly \/ StreamRefused \/ StreamEnds
    PROVE  EndpointsInv'
<1>1. TypeOK /\ PassOK
  BY DEF EndpointsInv
<1>2. CASE AnswersBadly
  <2>1. PICK outcome \in {"retriable", "terminal"} :
           /\ Gets({"boot", "stream", "fallback", "poll"}, outcome)
           /\ Fails(outcome = "terminal")
    BY <1>2 DEF AnswersBadly
  <2>2. pass.kind # "none" /\ pass.i \in 1..Len(pass.list)
    BY <2>1 DEF Gets, Trying
  <2>3. Reply \in Response
    BY <1>1, <2>2, InTurn
  <2>4. outcome = "terminal" => Fetch(Reply) = "terminal" \/ Open(Reply) = "terminal"
    BY <2>1 DEF Gets
  <2>5. outcome = "terminal" => Final(Reply)
    BY <2>3, <2>4, TerminalFinal
  <2> QED
    BY <2>1, <2>2, <2>5, FailsInv
<1>3. CASE StreamRefused
  <2>1. /\ pass.kind # "none" /\ pass.i \in 1..Len(pass.list)
        /\ Open(Reply) = "stream" /\ Received(Reply) = "terminal" /\ Fails(TRUE)
    BY <1>1, <1>3 DEF StreamRefused, Brings, Trying, PassOK
  <2>2. Final(Reply)
    BY <1>1, <2>1, InTurn, TerminalFinal
  <2> QED
    BY <2>1, <2>2, FailsInv
<1>4. CASE StreamEnds
  <2>1. pass.open /\ Fails(FALSE)
    BY <1>4 DEF StreamEnds
  <2>2. pass.kind # "none" /\ pass.i \in 1..Len(pass.list)
    BY <1>1, <2>1 DEF PassOK
  <2> QED
    BY <2>1, <2>2, FailsInv
<1> QED
  BY <1>2, <1>3, <1>4

\* EndpointsInv is inductive.
LEMMA EndpointsInvInit == Init => EndpointsInv
<1>. SUFFICES ASSUME Init
              PROVE  EndpointsInv
  OBVIOUS
<1>1. pass = NoPass /\ <<>> \in Seq(URLs) /\ <<>> \in Seq(Keys)
  BY DEF Init
<1>2. 0 \in 0..MaxChanges
  BY EndpointsAssumption
<1>3. TypeOK
  BY <1>1, <1>2 DEF Init, TypeOK, NoPass, Pass
<1>4. LearnedOK /\ PassOK /\ RecentFirst
  BY <1>1 DEF Init, LearnedOK, NoRepetition, PassOK, RecentFirst, NoPass
<1> QED
  BY <1>3, <1>4 DEF EndpointsInv

LEMMA EndpointsInvNext == EndpointsInv /\ [Next]_vars => EndpointsInv'
<1>. SUFFICES ASSUME EndpointsInv, [Next]_vars
              PROVE  EndpointsInv'
  OBVIOUS
<1>1. CASE BeginPoll
  BY <1>1, BeginPollInv
<1>2. CASE BeginBoot \/ BeginStream \/ NotStreamed
  BY <1>2, BeginsInv
<1>3. CASE Fetched \/ Streamed
  BY <1>3, DeliveredInv
<1>4. CASE NotModified \/ FallbackFetched \/ GiveUp
  BY <1>4, EndsInv
<1>5. CASE AnswersBadly \/ StreamRefused \/ StreamEnds
  BY <1>5, FailingInv
<1>6. CASE Crash
  BY <1>6, CrashInv
<1>7. ASSUME doc' \in Docs, answer' \in [Keys -> Answers], changes' \in 0..MaxChanges,
             UNCHANGED <<learned, mode, pass, refused>>
      PROVE  EndpointsInv'
  BY <1>7 DEF EndpointsInv, TypeOK, LearnedOK, PassOK, Asked, RecentFirst, KeysOf, KeySeq,
              learned
<1>8. Change => changes' \in 0..MaxChanges
  BY EndpointsAssumption DEF EndpointsInv, TypeOK, Change
<1>9. CASE Publish
  BY <1>7, <1>8, <1>9 DEF Publish, EndpointsInv, TypeOK
<1>10. ASSUME NEW k \in Keys, Turn(k)
       PROVE  EndpointsInv'
  <2>1. answer' \in [Keys -> Answers]
    BY <1>10 DEF Turn, EndpointsInv, TypeOK
  <2> QED
    BY <1>7, <1>8, <1>10, <2>1 DEF Turn, EndpointsInv, TypeOK
<1>11. CASE EventIgnored
  BY <1>11, IgnoredInv
<1>12. CASE UNCHANGED vars
  BY <1>7, <1>12 DEF vars, published, learned, EndpointsInv, TypeOK
<1> QED
  BY <1>1, <1>2, <1>3, <1>4, <1>5, <1>6, <1>9, <1>10, <1>11, <1>12 DEF Next, LoopStep

LEMMA EndpointsInvAlways == Spec => []EndpointsInv
<1> QED
  BY EndpointsInvInit, EndpointsInvNext, PTL DEF Spec

-----------------------------------------------------------------------------
(* Theorems *)

\* The variables have their types, whatever is published and answered.
THEOREM EndpointsTypeCorrect == Spec => []TypeOK
<1>1. EndpointsInv => TypeOK
  BY DEF EndpointsInv
<1> QED
  BY <1>1, EndpointsInvAlways, PTL

\* The stored order and the endpoints in use are the same set, each key once: ordering
\* loses no endpoint and brings back none, across documents, endpoints and restarts.
THEOREM OrderAlwaysFits == Spec => []OrderFitsEndpoints
<1>1. EndpointsInv => OrderFitsEndpoints
  <2>. SUFFICES ASSUME EndpointsInv
                PROVE  OrderFitsEndpoints
    OBVIOUS
  <2>1. order \in Seq(Keys) /\ NoRepetition(order)
    BY DEF EndpointsInv, TypeOK, LearnedOK
  <2>2. Len(Unique[order]) = Len(order)
    BY <2>1, UniqueFacts DEF Items
  <2> QED
    BY <2>2 DEF EndpointsInv, LearnedOK, OrderFitsEndpoints
<1> QED
  BY <1>1, EndpointsInvAlways, PTL

\* A poll begins with the URL that delivered the last document, if that URL is still
\* one of those listed.
THEOREM DeliveredFirst == Spec => []RecentFirst
<1>1. EndpointsInv => RecentFirst
  BY DEF EndpointsInv
<1> QED
  BY <1>1, EndpointsInvAlways, PTL

\* No loop stops as long as one URL of its list has not said its last word: a refusal
\* counts only for the URL that gave it, once, and only if it is final.
THEOREM StopsIfAllRefuse == Spec => StopsOnlyWhenAllRefuse
<1>1. ASSUME EndpointsInv, Next, mode' = "stopped", mode # "stopped"
      PROVE  refused = ToSet(pass.list)
  <2>1. GiveUp
    BY <1>1 DEF Next, LoopStep, BeginBoot, BeginStream, BeginPoll, Fetched, NotModified,
                Streamed, EventIgnored, NotStreamed, FallbackFetched, AnswersBadly, StreamRefused,
                StreamEnds, Fails, Crash, Publish, Turn
  <2>2. pass.kind # "none" /\ pass.i > Len(pass.list) /\ pass.terminals = Len(pass.list)
    BY <1>1, <2>1 DEF GiveUp
  <2>3. pass.list \in Seq(URLs) /\ Len(pass.list) \in Nat
    BY <1>1, ListTypes DEF EndpointsInv
  <2>4. pass.i = Len(pass.list) + 1 /\ refused = Asked
    BY <1>1, <2>2, <2>3 DEF EndpointsInv, PassOK
  <2>5. 1..(pass.i - 1) = DOMAIN pass.list
    BY <2>3, <2>4
  <2> QED
    BY <2>4, <2>5 DEF Asked, ToSet
<1>2. EndpointsInv /\ [Next]_vars =>
        [mode' = "stopped" /\ mode # "stopped" => refused = ToSet(pass.list)]_vars
  BY <1>1
<1> QED
  BY <1>2, EndpointsInvAlways, PTL DEF Spec, StopsOnlyWhenAllRefuse
=============================================================================
