---------------------------- MODULE SequenceFacts ----------------------------
(***************************************************************************)
(* Facts about the operations on sequences that the models are built from: *)
(* queues of waiters and lists of requests that something joins at the end *)
(* and leaves from anywhere.                                               *)
(***************************************************************************)
EXTENDS Integers, Sequences, SequencesExt, SequenceTheorems,
        WellFoundedInduction, TLAPS

\* What RemoveAt returns, for a waiter that leaves the queue of a lock or a
\* request that is over: a sequence of the same elements, one place shorter,
\* in which everything behind the one that left has moved up.
LEMMA RemoveAtProperties ==
  ASSUME NEW S, NEW s \in Seq(S), NEW i \in 1..Len(s)
  PROVE  /\ RemoveAt(s, i) \in Seq(S)
         /\ Len(RemoveAt(s, i)) = Len(s) - 1
         /\ \A j \in 1..(Len(s) - 1) :
              RemoveAt(s, i)[j] = IF j < i THEN s[j] ELSE s[j + 1]
<1> DEFINE front == SubSeq(s, 1, i - 1)
           back == SubSeq(s, i + 1, Len(s))
<1>1. /\ front \in Seq(S) /\ Len(front) = i - 1
      /\ \A j \in 1..(i - 1) : front[j] = s[j]
  OBVIOUS
<1>2. /\ back \in Seq(S) /\ Len(back) = Len(s) - i
      /\ \A j \in 1..(Len(s) - i) : back[j] = s[i + j]
  OBVIOUS
<1>3. RemoveAt(s, i) = front \o back
  BY DEF RemoveAt
<1> HIDE DEF front, back
<1>4. /\ front \o back \in Seq(S)
      /\ Len(front \o back) = Len(s) - 1
      /\ \A j \in 1..(Len(s) - 1) :
           (front \o back)[j] = IF j < i THEN front[j] ELSE back[j - i + 1]
  <2>1. /\ front \o back \in Seq(S)
        /\ Len(front \o back) = Len(front) + Len(back)
        /\ \A j \in 1..(Len(front) + Len(back)) :
             (front \o back)[j] =
                IF j <= Len(front) THEN front[j] ELSE back[j - Len(front)]
    BY <1>1, <1>2, ConcatProperties
  <2>2. /\ Len(front) = i - 1 /\ Len(front) + Len(back) = Len(s) - 1
        /\ i \in Int /\ Len(s) \in Nat
    BY <1>1, <1>2
  <2>3. ASSUME NEW j \in 1..(Len(s) - 1)
        PROVE  (front \o back)[j] = IF j < i THEN front[j] ELSE back[j - i + 1]
    <3>1. /\ j \in Int /\ (j <= Len(front) <=> j < i)
          /\ j - Len(front) = j - i + 1
      BY <2>2
    <3>2. (front \o back)[j] = IF j <= Len(front) THEN front[j] ELSE back[j - Len(front)]
      BY <2>1, <2>2
    <3>3. QED
      BY <3>1, <3>2
  <2>4. QED
    BY <2>1, <2>2, <2>3
<1>5. \A j \in 1..(Len(s) - 1) : j >= i => back[j - i + 1] = s[j + 1]
  <2> SUFFICES ASSUME NEW j \in 1..(Len(s) - 1), j >= i
               PROVE  back[j - i + 1] = s[j + 1]
    OBVIOUS
  <2>1. j - i + 1 \in 1..(Len(s) - i) /\ i + (j - i + 1) = j + 1
    OBVIOUS
  <2>2. QED
    BY <1>2, <2>1
<1>6. QED
  BY <1>1, <1>3, <1>4, <1>5

\* The elements of two sequences, one behind the other.
LEMMA ConcatElements ==
  ASSUME NEW S, NEW s \in Seq(S), NEW t \in Seq(S)
  PROVE  s \o t \in Seq(S) /\ ToSet(s \o t) = ToSet(s) \cup ToSet(t)
<1>1. /\ s \o t \in Seq(S) /\ Len(s \o t) = Len(s) + Len(t)
      /\ \A i \in 1..(Len(s) + Len(t)) :
           (s \o t)[i] = IF i <= Len(s) THEN s[i] ELSE t[i - Len(s)]
  BY ConcatProperties
<1>2. /\ DOMAIN s = 1..Len(s) /\ Len(s) \in Nat /\ DOMAIN t = 1..Len(t) /\ Len(t) \in Nat
      /\ DOMAIN (s \o t) = 1..(Len(s) + Len(t))
  BY <1>1, LenProperties
<1>3. \A x \in ToSet(s \o t) : x \in ToSet(s) \cup ToSet(t)
  <2> SUFFICES ASSUME NEW i \in 1..(Len(s) + Len(t)) PROVE (s \o t)[i] \in ToSet(s) \cup ToSet(t)
    BY <1>2 DEF ToSet
  <2>1. CASE i <= Len(s)
    <3>1. i \in 1..Len(s) /\ (s \o t)[i] = s[i]
      BY <2>1, <1>1, <1>2
    <3>2. QED
      BY <3>1, <1>2 DEF ToSet
  <2>2. CASE ~(i <= Len(s))
    <3>1. i - Len(s) \in 1..Len(t) /\ (s \o t)[i] = t[i - Len(s)]
      BY <2>2, <1>1, <1>2
    <3>2. QED
      BY <3>1, <1>2 DEF ToSet
  <2>3. QED
    BY <2>1, <2>2
<1>4. \A x \in ToSet(s) : x \in ToSet(s \o t)
  <2> SUFFICES ASSUME NEW i \in 1..Len(s) PROVE s[i] \in ToSet(s \o t)
    BY <1>2 DEF ToSet
  <2>1. i \in 1..(Len(s) + Len(t)) /\ (s \o t)[i] = s[i]
    BY <1>1, <1>2
  <2>2. QED
    BY <2>1, <1>2 DEF ToSet
<1>5. \A x \in ToSet(t) : x \in ToSet(s \o t)
  <2> SUFFICES ASSUME NEW i \in 1..Len(t) PROVE t[i] \in ToSet(s \o t)
    BY <1>2 DEF ToSet
  <2>1. Len(s) + i \in 1..(Len(s) + Len(t)) /\ ~(Len(s) + i <= Len(s)) /\ (Len(s) + i) - Len(s) = i
    BY <1>2
  <2>2. (s \o t)[Len(s) + i] = t[i]
    BY <1>1, <2>1
  <2>3. QED
    BY <2>1, <2>2, <1>2 DEF ToSet
<1>6. QED
  BY <1>1, <1>3, <1>4, <1>5

\* What stands where in two sequences, one behind the other, and in a part of one.
LEMMA JoinedPlaces ==
  ASSUME NEW S, NEW s \in Seq(S), NEW t \in Seq(S)
  PROVE  /\ s \o t \in Seq(S) /\ Len(s \o t) = Len(s) + Len(t)
         /\ \A i \in 1..Len(s) : (s \o t)[i] = s[i]
         /\ \A i \in 1..Len(t) : (s \o t)[Len(s) + i] = t[i]
<1>1. /\ s \o t \in Seq(S) /\ Len(s \o t) = Len(s) + Len(t)
      /\ \A i \in 1..(Len(s) + Len(t)) :
           (s \o t)[i] = IF i <= Len(s) THEN s[i] ELSE t[i - Len(s)]
  BY ConcatProperties
<1>2. Len(s) \in Nat /\ Len(t) \in Nat
  OBVIOUS
<1> DEFINE u == s \o t
<1> HIDE DEF u
<1>3. ASSUME NEW i \in 1..Len(s) PROVE u[i] = s[i]
  <2>1. i \in 1..(Len(s) + Len(t)) /\ i <= Len(s)
    BY <1>2
  <2>2. QED
    BY <1>1, <2>1 DEF u
<1>4. ASSUME NEW i \in 1..Len(t) PROVE u[Len(s) + i] = t[i]
  <2>1. Len(s) + i \in 1..(Len(s) + Len(t)) /\ ~(Len(s) + i <= Len(s)) /\ (Len(s) + i) - Len(s) = i
    BY <1>2
  <2>2. u[Len(s) + i] = t[(Len(s) + i) - Len(s)]
    BY <1>1, <2>1 DEF u
  <2>3. QED
    BY <2>1, <2>2
<1>5. QED
  BY <1>1, <1>3, <1>4 DEF u

LEMMA PartPlaces ==
  ASSUME NEW S, NEW s \in Seq(S), NEW m \in 1..(Len(s) + 1), NEW n \in (m - 1)..Len(s)
  PROVE  /\ SubSeq(s, m, n) \in Seq(S) /\ Len(SubSeq(s, m, n)) = n - m + 1
         /\ \A i \in 1..(n - m + 1) : SubSeq(s, m, n)[i] = s[m + i - 1]
<1>1. Len(s) \in Nat /\ m \in Int /\ n \in Int
  OBVIOUS
<1>2. \A i \in m..n : s[i] \in S
  BY <1>1
<1>3. (IF m <= n THEN n - m + 1 ELSE 0) = n - m + 1
  BY <1>1
<1>4. QED
  BY <1>1, <1>2, <1>3, SubSeqProperties

\* Nothing else comes in or goes when an element is taken out.
LEMMA RemovedElements ==
  ASSUME NEW S, NEW s \in Seq(S), NEW i \in DOMAIN s
  PROVE  /\ RemoveAt(s, i) \in Seq(S)
         /\ ToSet(RemoveAt(s, i)) \subseteq ToSet(s)
         /\ \A x \in ToSet(s) : x # s[i] => x \in ToSet(RemoveAt(s, i))
<1> DEFINE t == RemoveAt(s, i)
<1>1. DOMAIN s = 1..Len(s) /\ Len(s) \in Nat /\ i \in 1..Len(s)
  BY LenProperties
<1>2. /\ t \in Seq(S) /\ Len(t) = Len(s) - 1
      /\ \A j \in 1..(Len(s) - 1) : t[j] = IF j < i THEN s[j] ELSE s[j + 1]
  BY <1>1, RemoveAtProperties
<1> HIDE DEF t
<1>3. DOMAIN t = 1..(Len(s) - 1)
  BY <1>2, LenProperties
<1>4. ASSUME NEW j \in 1..(Len(s) - 1) PROVE t[j] \in ToSet(s)
  <2>1. j \in 1..Len(s) /\ j + 1 \in 1..Len(s)
    BY <1>1
  <2>2. s[j] \in ToSet(s) /\ s[j + 1] \in ToSet(s)
    BY <2>1, <1>1 DEF ToSet
  <2>3. QED
    BY <2>2, <1>2
<1>5. ASSUME NEW j \in 1..Len(s), j # i PROVE s[j] \in ToSet(t)
  <2>1. CASE j < i
    <3>1. j \in 1..(Len(s) - 1) /\ t[j] = s[j]
      BY <2>1, <1>1, <1>2
    <3>2. QED
      BY <3>1, <1>3 DEF ToSet
  <2>2. CASE ~(j < i)
    <3>1. j - 1 \in 1..(Len(s) - 1) /\ ~(j - 1 < i) /\ (j - 1) + 1 = j
      BY <2>2, <1>1, <1>5
    <3>2. t[j - 1] = s[j]
      BY <3>1, <1>2
    <3>3. QED
      BY <3>1, <3>2, <1>3 DEF ToSet
  <2>3. QED
    BY <2>1, <2>2
<1>6. ToSet(t) \subseteq ToSet(s)
  BY <1>3, <1>4 DEF ToSet
<1>7. ASSUME NEW x \in ToSet(s), x # s[i] PROVE x \in ToSet(t)
  <2>1. PICK j \in 1..Len(s) : x = s[j]
    BY <1>1 DEF ToSet
  <2>2. QED
    BY <2>1, <1>5, <1>7
<1>8. QED
  BY <1>2, <1>6, <1>7 DEF t

\* One element in the place of another.
LEMMA ReplacedElements ==
  ASSUME NEW S, NEW s \in Seq(S), NEW i \in DOMAIN s, NEW e \in S
  PROVE  /\ [s EXCEPT ![i] = e] \in Seq(S)
         /\ ToSet([s EXCEPT ![i] = e]) \subseteq ToSet(s) \cup {e}
         /\ \A x \in ToSet(s) : x # s[i] => x \in ToSet([s EXCEPT ![i] = e])
         /\ e \in ToSet([s EXCEPT ![i] = e])
<1>1. DOMAIN s = 1..Len(s) /\ i \in 1..Len(s)
  BY LenProperties
<1>2. [s EXCEPT ![i] = e] \in Seq(S)
  BY <1>1, ExceptSeq
<1>3. /\ DOMAIN [s EXCEPT ![i] = e] = DOMAIN s
      /\ \A j \in DOMAIN s : [s EXCEPT ![i] = e][j] = IF j = i THEN e ELSE s[j]
  OBVIOUS
<1>4. QED
  BY <1>2, <1>3 DEF ToSet
-----------------------------------------------------------------------------
(* Least elements, which induction over numbers is argued with.            *)

LEMMA LeastByRelation ==
  ASSUME NEW T, T \subseteq Nat, T # {}, NEW R, IsWellFoundedOn(R, Nat),
         \A x, y \in Nat : y < x => <<y, x>> \in R
  PROVE  \E m \in T : \A n \in T : m <= n
<1>1. PICK m \in T : \A n \in T : ~(<<n, m>> \in R)
  BY WFMin, Zenon
<1>2. m \in Nat /\ \A n \in T : n \in Nat /\ ~(n < m)
  BY <1>1
<1>3. QED
  BY <1>1, <1>2

LEMMA LeastElement ==
  ASSUME NEW T, T \subseteq Nat, T # {}
  PROVE  Min(T) \in T /\ \A n \in T : Min(T) <= n
<1>1. IsWellFoundedOn(OpToRel(<, Nat), Nat)
  BY NatLessThanWellFounded
<1>2. \A x, y \in Nat : y < x => <<y, x>> \in OpToRel(<, Nat)
  BY DEF OpToRel
<1>3. \E m \in T : \A n \in T : m <= n
  BY <1>1, <1>2, LeastByRelation, Zenon
<1>4. QED
  BY <1>3 DEF Min

LEMMA GreatestElement ==
  ASSUME NEW n \in Nat, NEW T, T \subseteq 1..n, T # {}
  PROVE  Max(T) \in T /\ \A k \in T : Max(T) >= k
<1> DEFINE U == {k \in 0..n : n - k \in T}
<1>1. U \subseteq Nat
  OBVIOUS
<1>2. U # {}
  <2>1. PICK k \in T : TRUE
    OBVIOUS
  <2>2. k \in 1..n
    BY <2>1
  <2>3. n - k \in 0..n /\ n - (n - k) = k
    BY <2>2
  <2>4. QED
    BY <2>1, <2>3
<1>3. PICK m \in U : \A k \in U : m <= k
  BY <1>1, <1>2, LeastElement
<1>4. n - m \in T
  BY <1>3
<1>5. ASSUME NEW k \in T PROVE n - m >= k
  <2>1. k \in 1..n
    OBVIOUS
  <2>2. n - k \in 0..n /\ n - (n - k) = k
    BY <2>1
  <2>3. n - k \in U
    BY <2>2
  <2>4. m <= n - k /\ m \in 0..n
    BY <2>3, <1>3
  <2>5. QED
    BY <2>1, <2>4
<1>6. QED
  BY <1>4, <1>5 DEF Max

\* A function that is given at the end of an interval, and at each place in
\* terms of the next place; and the same from the beginning on.
CountsDown(g, n, V, v, F) ==
  g \in [1..(n + 1) -> V] /\ g[n + 1] = v /\ \A s \in 1..n : g[s] = F[s][g[s + 1]]

CountsUp(g, n, V, v, F) ==
  g \in [1..n -> V] /\ \A i \in 1..n : g[i] = IF i = 1 THEN v ELSE F[i][g[i - 1]]

\* Such functions exist.
LEMMA Countdown ==
  ASSUME NEW n \in Nat, NEW V, NEW v \in V, NEW F \in [1..n -> [V -> V]]
  PROVE  \E g : CountsDown(g, n, V, v, F)
<1> DEFINE From(m) == \E g \in [m..(n + 1) -> V] :
                        g[n + 1] = v /\ \A s \in m..n : g[s] = F[s][g[s + 1]]
           T == {k \in 0..n : ~From(n + 1 - k)}
<1>1. From(n + 1)
  <2>1. [s \in (n + 1)..(n + 1) |-> v] \in [(n + 1)..(n + 1) -> V]
    OBVIOUS
  <2>2. (n + 1) \in (n + 1)..(n + 1) /\ (n + 1)..n = {}
    OBVIOUS
  <2>3. QED
    BY <2>1, <2>2
<1>2. ASSUME NEW m \in 1..n, From(m + 1) PROVE From(m)
  <2>1. PICK g \in [(m + 1)..(n + 1) -> V] :
             g[n + 1] = v /\ \A s \in (m + 1)..n : g[s] = F[s][g[s + 1]]
    BY <1>2
  <2> DEFINE f == [s \in m..(n + 1) |-> IF s = m THEN F[m][g[m + 1]] ELSE g[s]]
  <2>2. m + 1 \in (m + 1)..(n + 1) /\ g[m + 1] \in V
    BY <2>1
  <2>3. F[m][g[m + 1]] \in V
    BY <2>2
  <2>4. \A s \in m..(n + 1) : s # m => s \in (m + 1)..(n + 1)
    OBVIOUS
  <2>5. f \in [m..(n + 1) -> V]
    BY <2>1, <2>3, <2>4
  <2>6. f[n + 1] = v
    <3>1. n + 1 \in m..(n + 1) /\ n + 1 # m
      OBVIOUS
    <3>2. QED
      BY <3>1, <2>1
  <2>7. ASSUME NEW s \in m..n PROVE f[s] = F[s][f[s + 1]]
    <3>1. s \in m..(n + 1) /\ s + 1 \in m..(n + 1) /\ s + 1 # m
      OBVIOUS
    <3>2. f[s + 1] = g[s + 1]
      BY <3>1
    <3>3. CASE s = m
      BY <3>1, <3>2, <3>3
    <3>4. CASE s # m
      <4>1. s \in (m + 1)..n
        BY <3>4
      <4>2. f[s] = g[s]
        BY <3>1, <3>4
      <4>3. QED
        BY <4>1, <4>2, <3>2, <2>1
    <3>5. QED
      BY <3>3, <3>4
  <2> HIDE DEF f
  <2>8. QED
    BY <2>5, <2>6, <2>7
<1> HIDE DEF From
<1>3. T = {}
  <2> SUFFICES ASSUME T # {} PROVE FALSE
    OBVIOUS
  <2>1. T \subseteq Nat
    OBVIOUS
  <2>2. PICK k \in T : \A j \in T : k <= j
    BY <2>1, LeastElement
  <2>3. k \in 0..n /\ ~From(n + 1 - k)
    BY <2>2
  <2>4. k # 0
    BY <2>3, <1>1
  <2>5. k - 1 \in 0..n /\ n + 1 - k \in 1..n /\ (n + 1 - k) + 1 = n + 1 - (k - 1) /\ ~(k <= k - 1)
    BY <2>3, <2>4
  <2>6. From(n + 1 - (k - 1))
    BY <2>2, <2>5
  <2>7. QED
    BY <1>2, <2>3, <2>5, <2>6
<1>4. From(1)
  <2>1. n \in 0..n /\ n + 1 - n = 1
    OBVIOUS
  <2>2. QED
    BY <2>1, <1>3
<1>5. QED
  BY <1>4 DEF From, CountsDown

LEMMA Countup ==
  ASSUME NEW n \in Nat, NEW V, NEW v \in V, NEW F \in [2..n -> [V -> V]]
  PROVE  \E g : CountsUp(g, n, V, v, F)
<1>1. CASE n = 0
  <2>1. [i \in 1..n |-> v] \in [1..n -> V] /\ 1..n = {}
    BY <1>1
  <2>2. QED
    BY <2>1 DEF CountsUp
<1>2. CASE n # 0
  <2> DEFINE G == [s \in 1..(n - 1) |-> F[n + 1 - s]]
  <2>1. n - 1 \in Nat /\ (n - 1) + 1 = n
    BY <1>2
  <2>2. \A s \in 1..(n - 1) : n + 1 - s \in 2..n /\ G[s] = F[n + 1 - s]
    OBVIOUS
  <2>3. G \in [1..(n - 1) -> [V -> V]]
    BY <2>2
  <2> HIDE DEF G
  <2>4. PICK g \in [1..n -> V] : g[n] = v /\ \A s \in 1..(n - 1) : g[s] = G[s][g[s + 1]]
    <3>1. PICK g : CountsDown(g, n - 1, V, v, G)
      BY <2>1, <2>3, Countdown
    <3>2. QED
      BY <2>1, <3>1 DEF CountsDown
  <2> DEFINE f == [i \in 1..n |-> g[n + 1 - i]]
  <2>5. \A i \in 1..n : n + 1 - i \in 1..n
    OBVIOUS
  <2>6. f \in [1..n -> V]
    BY <2>4, <2>5
  <2>7. ASSUME NEW i \in 1..n PROVE f[i] = IF i = 1 THEN v ELSE F[i][f[i - 1]]
    <3>1. CASE i = 1
      BY <3>1, <2>4
    <3>2. CASE i # 1
      <4>1. /\ i - 1 \in 1..n /\ n + 1 - i \in 1..(n - 1) /\ (n + 1 - i) + 1 = n + 1 - (i - 1)
            /\ n + 1 - (n + 1 - i) = i
        BY <3>2
      <4>2. f[i] = G[n + 1 - i][g[(n + 1 - i) + 1]]
        BY <4>1, <2>4
      <4>3. f[i - 1] = g[(n + 1 - i) + 1]
        BY <4>1
      <4>4. (n + 1 - i) + 1 \in 1..n /\ f[i - 1] \in V
        BY <4>1, <2>5, <2>6
      <4>5. QED
        BY <4>1, <4>2, <4>3, <4>4, <2>2, <3>2
    <3>3. QED
      BY <3>1, <3>2
  <2> HIDE DEF f
  <2>8. QED
    BY <2>6, <2>7 DEF CountsUp
<1>3. QED
  BY <1>1, <1>2

\* Sequences are put one behind the other from the first to the last.
Unfolds(seqs, f) ==
  /\ FlattenSeq(seqs) = f[Len(seqs)]
  /\ \A i \in 1..Len(seqs) : f[i] = IF i = 1 THEN seqs[i] ELSE f[i - 1] \o seqs[i]

LEMMA FlattenUnfolds ==
  ASSUME NEW S, NEW seqs \in Seq(Seq(S)), Len(seqs) # 0
  PROVE  \E f : Unfolds(seqs, f)
<1> DEFINE n == Len(seqs)
           Body(f) == [i \in 1..n |-> IF i = 1 THEN seqs[i] ELSE f[i - 1] \o seqs[i]]
           F == [i \in 2..n |-> [x \in Seq(S) |-> x \o seqs[i]]]
<1>1. n \in Nat /\ \A i \in 1..n : seqs[i] \in Seq(S)
  BY ElementOfSeq, LenProperties
<1>2. n # 0 /\ 1 \in 1..n /\ n \in 1..n
  BY <1>1, EmptySeq
<1>3. \A i \in 2..n, x \in Seq(S) : F[i][x] = x \o seqs[i] /\ x \o seqs[i] \in Seq(S)
  <2> TAKE i \in 2..n, x \in Seq(S)
  <2>1. i \in 1..n
    BY <1>1
  <2>2. seqs[i] \in Seq(S)
    BY <2>1, <1>1
  <2>3. x \o seqs[i] \in Seq(S)
    BY <2>2, ConcatProperties
  <2>4. QED
    BY <2>3
<1>4. F \in [2..n -> [Seq(S) -> Seq(S)]]
  BY <1>3
<1> HIDE DEF F
<1>5. PICK g \in [1..n -> Seq(S)] :
           \A i \in 1..n : g[i] = IF i = 1 THEN seqs[1] ELSE F[i][g[i - 1]]
  <2>1. seqs[1] \in Seq(S)
    BY <1>1, <1>2
  <2>2. PICK g : CountsUp(g, n, Seq(S), seqs[1], F)
    BY <1>1, <1>4, <2>1, Countup
  <2>3. QED
    BY <2>2 DEF CountsUp
<1>6. g = Body(g)
  <2>1. ASSUME NEW i \in 1..n PROVE g[i] = Body(g)[i]
    <3>1. CASE i = 1
      BY <3>1, <1>5
    <3>2. CASE i # 1
      <4>1. i \in 2..n /\ i - 1 \in 1..n
        BY <3>2, <1>1
      <4>2. g[i - 1] \in Seq(S)
        BY <4>1, <1>5
      <4>3. g[i] = g[i - 1] \o seqs[i]
        BY <4>1, <4>2, <1>3, <1>5, <3>2
      <4>4. QED
        BY <4>3, <3>2
    <3>3. QED
      BY <3>1, <3>2
  <2>2. QED
    BY <2>1, <1>5
<1> DEFINE f == CHOOSE f : f = Body(f)
<1>7. f = Body(f)
  BY <1>6
<1>8. FlattenSeq(seqs) = f[n]
  BY <1>2 DEF FlattenSeq
<1> HIDE DEF f
<1>9. QED
  BY <1>7, <1>8, Zenon DEF Unfolds

\* What holds of the parts, and of two put together whenever it holds of each,
\* holds of all put together.
LEMMA FlattenedIn ==
  ASSUME NEW S, NEW Good, Good \subseteq Seq(S), <<>> \in Good,
         \A x, y \in Good : x \o y \in Good, NEW seqs \in Seq(Good)
  PROVE  FlattenSeq(seqs) \in Good
<1> DEFINE n == Len(seqs)
<1>1. n \in Nat /\ \A i \in 1..n : seqs[i] \in Good
  BY ElementOfSeq, LenProperties
<1>2. CASE n = 0
  <2>1. seqs = << >>
    BY <1>2
  <2>2. QED
    BY <2>1, <1>2 DEF FlattenSeq
<1>3. CASE n # 0
  <2>1. seqs \in Seq(Seq(S))
    BY <1>1
  <2>2. PICK f : Unfolds(seqs, f)
    BY <2>1, <1>3, FlattenUnfolds
  <2> DEFINE T == {i \in 1..n : f[i] \notin Good}
  <2>3. T = {}
    <3> SUFFICES ASSUME T # {} PROVE FALSE
      OBVIOUS
    <3>1. T \subseteq Nat
      OBVIOUS
    <3> HIDE DEF T
    <3>2. PICK i \in T : \A j \in T : i <= j
      BY <3>1, LeastElement
    <3>3. i \in 1..n /\ f[i] \notin Good /\ seqs[i] \in Good
      BY <3>2, <1>1 DEF T
    <3>4. f[i] = IF i = 1 THEN seqs[i] ELSE f[i - 1] \o seqs[i]
      BY <2>2, <3>3 DEF Unfolds
    <3>5. i # 1
      BY <3>3, <3>4
    <3>6. i - 1 \in 1..n /\ ~(i <= i - 1)
      BY <3>3, <3>5, <1>1
    <3>7. f[i - 1] \in Good
      BY <3>2, <3>6 DEF T
    <3>8. QED
      BY <3>3, <3>4, <3>5, <3>7
  <2>4. n \in 1..n
    BY <1>1, <1>3
  <2>5. QED
    BY <2>2, <2>3, <2>4 DEF Unfolds
<1>4. QED
  BY <1>2, <1>3

\* Sequences put one behind the other are a sequence, of the elements of all.
LEMMA FlattenedElements ==
  ASSUME NEW S, NEW seqs \in Seq(Seq(S))
  PROVE  FlattenSeq(seqs) \in Seq(S) /\ \A i \in 1..Len(seqs) : ToSet(seqs[i]) \subseteq ToSet(FlattenSeq(seqs))
<1> DEFINE n == Len(seqs)
<1>1. n \in Nat /\ \A i \in 1..n : seqs[i] \in Seq(S)
  BY ElementOfSeq, LenProperties
<1>2. CASE n = 0
  <2>1. seqs = << >>
    BY <1>2
  <2>2. QED
    BY <2>1, <1>2 DEF FlattenSeq
<1>3. CASE n # 0
  <2>1. PICK f : Unfolds(seqs, f)
    BY <1>3, FlattenUnfolds
  <2>2. 1 \in 1..n /\ n \in 1..n
    BY <1>1, <1>3
  <2> DEFINE Joins(i) == f[i] \in Seq(S) /\ \A j \in 1..i : ToSet(seqs[j]) \subseteq ToSet(f[i])
  <2>3. \A i \in 1..n : Joins(i)
    <3> DEFINE T == {i \in 1..n : ~Joins(i)}
    <3> SUFFICES ASSUME T # {} PROVE FALSE
      OBVIOUS
    <3>1. T \subseteq Nat
      OBVIOUS
    <3> HIDE DEF T
    <3>2. PICK i \in T : \A j \in T : i <= j
      BY <3>1, LeastElement
    <3>3. i \in 1..n /\ ~Joins(i)
      BY <3>2 DEF T
    <3>4. f[i] = IF i = 1 THEN seqs[i] ELSE f[i - 1] \o seqs[i]
      BY <2>1, <3>3 DEF Unfolds
    <3>5. i # 1
      <4> SUFFICES ASSUME i = 1 PROVE FALSE
        OBVIOUS
      <4>1. f[1] = seqs[1] /\ seqs[1] \in Seq(S) /\ 1..1 = {1}
        BY <3>4, <1>1, <2>2
      <4>2. QED
        BY <4>1, <3>3
    <3>6. i - 1 \in 1..n /\ ~(i <= i - 1) /\ 1..i = 1..(i - 1) \cup {i}
      BY <3>3, <3>5, <1>1
    <3>7. Joins(i - 1) /\ seqs[i] \in Seq(S)
      BY <3>2, <3>3, <3>6, <1>1 DEF T
    <3> DEFINE h == i - 1
    <3>8. f[h] \in Seq(S) /\ \A j \in 1..h : ToSet(seqs[j]) \subseteq ToSet(f[h])
      BY <3>7
    <3> HIDE DEF h
    <3>9. f[i] \in Seq(S) /\ ToSet(f[i]) = ToSet(f[h]) \cup ToSet(seqs[i])
      BY <3>4, <3>5, <3>7, <3>8, ConcatElements DEF h
    <3>10. \A j \in 1..i : ToSet(seqs[j]) \subseteq ToSet(f[i])
      BY <3>6, <3>8, <3>9 DEF h
    <3>11. QED
      BY <3>3, <3>9, <3>10
  <2>4. QED
    BY <2>1, <2>2, <2>3 DEF Unfolds
<1>4. QED
  BY <1>2, <1>3
=============================================================================
