------------------------------- MODULE SeqFacts --------------------------------
(* Facts about sequences and queues that the proofs of several components use. *)
EXTENDS Naturals, Sequences, FiniteSets, Functions, TLAPS

--------------------------------------------------------------------------------
(* Append, Head and Tail *)

\* The elements of a sequence with one appended.
LEMMA AppendFacts ==
    ASSUME NEW S, NEW s \in Seq(S), NEW e \in S
    PROVE  /\ Append(s, e) \in Seq(S)
           /\ Len(s) \in Nat /\ DOMAIN s = 1..Len(s)
           /\ Len(Append(s, e)) = Len(s) + 1
           /\ DOMAIN Append(s, e) = 1..(Len(s) + 1)
           /\ \A i \in 1..Len(s) : Append(s, e)[i] = s[i]
           /\ Append(s, e)[Len(s) + 1] = e
OBVIOUS

\* The elements of a sequence without its head.
LEMMA TailFacts ==
    ASSUME NEW S, NEW s \in Seq(S), s # <<>>
    PROVE  /\ Head(s) \in S /\ Head(s) = s[1]
           /\ Tail(s) \in Seq(S)
           /\ Len(s) \in Nat \ {0} /\ DOMAIN s = 1..Len(s)
           /\ Len(Tail(s)) = Len(s) - 1
           /\ DOMAIN Tail(s) = 1..(Len(s) - 1)
           /\ \A i \in 1..(Len(s) - 1) : Tail(s)[i] = s[i + 1]
<1>1. Len(s) \in Nat \ {0} /\ DOMAIN s = 1..Len(s)
    OBVIOUS
<1>2. Head(s) \in S /\ Tail(s) \in Seq(S) /\ Len(Tail(s)) = Len(s) - 1
      /\ \A i \in 1..Len(Tail(s)) : Tail(s)[i] = s[i + 1]
    OBVIOUS
<1>3. DOMAIN Tail(s) = 1..Len(Tail(s))
    BY <1>2
<1>4. Head(s) = s[1]
    OBVIOUS
<1> QED BY <1>1, <1>2, <1>3, <1>4

\* One sequence after the other.
LEMMA ConcatFacts ==
    ASSUME NEW S, NEW s \in Seq(S), NEW t \in Seq(S)
    PROVE  s \o t \in Seq(S) /\ Len(s \o t) = Len(s) + Len(t)
OBVIOUS

\* Appending an element of S to a sequence over S.
LEMMA AppendType ==
    ASSUME NEW S, NEW s \in Seq(S), NEW e \in S
    PROVE  Append(s, e) \in Seq(S)
OBVIOUS

\* A nonempty sequence over S has its head in S and its tail over S.
LEMMA TailType ==
    ASSUME NEW S, NEW s \in Seq(S), s # <<>>
    PROVE  Head(s) \in S /\ Tail(s) \in Seq(S)
OBVIOUS

\* A sequence over S is a sequence over every superset of S.
LEMMA SeqWiden ==
    ASSUME NEW A, NEW B, A \subseteq B, NEW s \in Seq(A)
    PROVE  s \in Seq(B)
<1>1. Len(s) \in Nat /\ s \in [1..Len(s) -> A]
    OBVIOUS
<1>2. s \in [1..Len(s) -> B]
    BY <1>1
<1> QED BY <1>1, <1>2

\* Appending adds one element, and keeps a sequence free of repetitions if the
\* element is new to it.
LEMMA RangeAppend ==
    ASSUME NEW S, NEW s \in Seq(S), NEW m \in S
    PROVE  /\ Range(Append(s, m)) = Range(s) \cup {m}
           /\ IsInjective(s) /\ m \notin Range(s) => IsInjective(Append(s, m))
<1>1. /\ Len(s) \in Nat /\ DOMAIN s = 1..Len(s) /\ DOMAIN Append(s, m) = 1..(Len(s) + 1)
      /\ \A k \in 1..Len(s) : Append(s, m)[k] = s[k]
      /\ Append(s, m)[Len(s) + 1] = m
    BY AppendFacts
<1>2. ASSUME NEW x \in Range(Append(s, m)) PROVE x \in Range(s) \cup {m}
    <2>1. PICK i \in DOMAIN Append(s, m) : x = Append(s, m)[i]
        BY DEF Range
    <2>2. CASE i \in DOMAIN s
        BY <1>1, <2>1, <2>2 DEF Range
    <2>3. CASE i = Len(s) + 1
        BY <1>1, <2>1, <2>3
    <2> QED BY <1>1, <2>2, <2>3
<1>3. ASSUME NEW x \in Range(s) PROVE x \in Range(Append(s, m))
    <2>1. PICK i \in DOMAIN s : x = s[i]
        BY DEF Range
    <2>2. i \in DOMAIN Append(s, m) /\ x = Append(s, m)[i]
        BY <1>1, <2>1
    <2> QED BY <2>2 DEF Range
<1>4. m \in Range(Append(s, m))
    <2>1. Len(s) + 1 \in DOMAIN Append(s, m)
        BY <1>1
    <2> QED BY <1>1, <2>1 DEF Range
<1>5. ASSUME IsInjective(s), m \notin Range(s),
             NEW i \in DOMAIN Append(s, m), NEW j \in DOMAIN Append(s, m),
             Append(s, m)[i] = Append(s, m)[j]
      PROVE  i = j
    <2>0. \A k \in DOMAIN s : s[k] # m
        BY <1>5 DEF Range
    <2>1. CASE i \in DOMAIN s /\ j \in DOMAIN s
        BY <1>1, <1>5, <2>1 DEF IsInjective
    <2>2. CASE i = Len(s) + 1 \/ j = Len(s) + 1
        BY <1>1, <1>5, <2>0, <2>2
    <2> QED BY <1>1, <2>1, <2>2
<1> QED BY <1>2, <1>3, <1>4, <1>5 DEF IsInjective

\* Taking the head off a sequence without repetitions removes exactly it.
LEMMA RangeTail ==
    ASSUME NEW S, NEW s \in Seq(S), s # <<>>, IsInjective(s)
    PROVE  /\ Head(s) \in Range(s) /\ Head(s) \in S
           /\ Range(Tail(s)) = Range(s) \ {Head(s)}
           /\ IsInjective(Tail(s))
<1>1. /\ Len(s) \in Nat \ {0} /\ DOMAIN s = 1..Len(s) /\ DOMAIN Tail(s) = 1..(Len(s) - 1)
      /\ \A k \in 1..(Len(s) - 1) : Tail(s)[k] = s[k + 1]
      /\ Head(s) = s[1] /\ Head(s) \in S
    BY TailFacts
<1>2. Head(s) \in Range(s)
    BY <1>1 DEF Range
<1>3. ASSUME NEW k \in DOMAIN s, k # 1 PROVE s[k] # s[1]
    <2>1. 1 \in DOMAIN s
        BY <1>1
    <2> QED BY <1>3, <2>1 DEF IsInjective
<1>4. ASSUME NEW x \in Range(Tail(s)) PROVE x \in Range(s) \ {Head(s)}
    <2>1. PICK i \in DOMAIN Tail(s) : x = Tail(s)[i]
        BY DEF Range
    <2>2. i + 1 \in DOMAIN s /\ i + 1 # 1 /\ x = s[i + 1]
        BY <1>1, <2>1
    <2> QED BY <1>1, <1>3, <2>2 DEF Range
<1>5. ASSUME NEW x \in Range(s) \ {Head(s)} PROVE x \in Range(Tail(s))
    <2>1. PICK i \in DOMAIN s : x = s[i]
        BY DEF Range
    <2>2. i # 1
        BY <1>1, <2>1
    <2>3. i - 1 \in DOMAIN Tail(s) /\ (i - 1) + 1 = i
        BY <1>1, <2>2
    <2>4. Tail(s)[i - 1] = x
        BY <1>1, <2>1, <2>3
    <2> QED BY <2>3, <2>4 DEF Range
<1>6. ASSUME NEW i \in DOMAIN Tail(s), NEW j \in DOMAIN Tail(s), Tail(s)[i] = Tail(s)[j]
      PROVE  i = j
    <2>1. i + 1 \in DOMAIN s /\ j + 1 \in DOMAIN s /\ s[i + 1] = s[j + 1]
        BY <1>1, <1>6
    <2>2. i + 1 = j + 1
        BY <2>1 DEF IsInjective
    <2> QED BY <1>1, <2>2
<1> QED BY <1>1, <1>2, <1>4, <1>5, <1>6 DEF IsInjective

--------------------------------------------------------------------------------
(* Families of queues without repetitions *)

\* The queues q at the places P hold the elements of S, each of them once.
Exact(P, q, S) ==
    /\ \A p \in P : IsInjective(q[p]) /\ Range(q[p]) \subseteq S
    /\ \A p, r \in P : p # r => Range(q[p]) \cap Range(q[r]) = {}
    /\ \A x \in S : \E p \in P : x \in Range(q[p])

\* Taking the head off one queue.
LEMMA PopExact ==
    ASSUME NEW P, NEW M, NEW q \in [P -> Seq(M)], NEW S, Exact(P, q, S),
           NEW p \in P, q[p] # <<>>,
           NEW t, t[p] = Tail(q[p]), \A r \in P \ {p} : t[r] = q[r]
    PROVE  /\ Head(q[p]) \in S /\ Head(q[p]) \in M /\ Head(q[p]) \in Range(q[p])
           /\ \A r \in P : t[r] \in Seq(M) /\ Range(t[r]) \subseteq Range(q[r])
           /\ Exact(P, t, S \ {Head(q[p])})
<1> DEFINE h == Head(q[p])
<1>1. /\ h \in Range(q[p]) /\ h \in M /\ Range(Tail(q[p])) = Range(q[p]) \ {h}
      /\ IsInjective(Tail(q[p])) /\ Tail(q[p]) \in Seq(M)
    BY RangeTail, TailType DEF Exact
<1> HIDE DEF h
<1>2. h \in S
    BY <1>1 DEF Exact
<1>3. ASSUME NEW r \in P PROVE IsInjective(t[r]) /\ Range(t[r]) = Range(q[r]) \ {h}
    <2>1. CASE r = p
        BY <1>1, <2>1, Zenon
    <2>2. CASE r # p
        BY <1>1, <2>2 DEF Exact
    <2> QED BY <2>1, <2>2
<1>4. Exact(P, t, S \ {h})
    BY <1>3 DEF Exact
<1>5. \A r \in P : t[r] \in Seq(M)
    BY <1>1, Zenon
<1> QED BY <1>1, <1>2, <1>3, <1>4, <1>5 DEF h

\* One queue gaining something that no queue holds.
LEMMA GainExact ==
    ASSUME NEW P, NEW q, NEW S, Exact(P, q, S), NEW p \in P, NEW x, x \notin S,
           NEW t, IsInjective(t[p]), Range(t[p]) = Range(q[p]) \cup {x},
           \A r \in P \ {p} : t[r] = q[r]
    PROVE  /\ Exact(P, t, S \cup {x})
           /\ \A r \in P \ {p} : Range(t[r]) = Range(q[r])
<1>2. \A r \in P : /\ IsInjective(t[r])
                   /\ Range(t[r]) = IF r = p THEN Range(q[r]) \cup {x} ELSE Range(q[r])
    BY DEF Exact
<1>3. \A r \in P : x \notin Range(q[r])
    BY DEF Exact
<1>4. Exact(P, t, S \cup {x})
    <2>1. \A r \in P : IsInjective(t[r]) /\ Range(t[r]) \subseteq S \cup {x}
        BY <1>2 DEF Exact
    <2>2. \A r, o \in P : r # o => Range(q[r]) \cap Range(q[o]) = {}
        BY DEF Exact
    <2>3. \A r, o \in P : r # o => Range(t[r]) \cap Range(t[o]) = {}
        BY <1>2, <1>3, <2>2
    <2>4. \A y \in S \cup {x} : \E r \in P : y \in Range(t[r])
        BY <1>2 DEF Exact
    <2> QED BY <2>1, <2>3, <2>4 DEF Exact
<1> QED BY <1>2, <1>4

\* Emptying one queue.
LEMMA ClearExact ==
    ASSUME NEW P, NEW q, NEW S, Exact(P, q, S), NEW p \in P,
           NEW t, t[p] = <<>>, \A r \in P \ {p} : t[r] = q[r]
    PROVE  /\ Exact(P, t, S \ Range(q[p]))
           /\ \A r \in P : Range(t[r]) \subseteq Range(q[r])
<1>1. Range(<<>>) = {} /\ IsInjective(<<>>)
    BY DEF Range, IsInjective
<1>2. ASSUME NEW r \in P
      PROVE  IsInjective(t[r]) /\ Range(t[r]) = Range(q[r]) \ Range(q[p])
    <2>1. CASE r = p
        BY <1>1, <2>1
    <2>2. CASE r # p
        BY <2>2 DEF Exact
    <2> QED BY <2>1, <2>2
<1>3. Exact(P, t, S \ Range(q[p]))
    <2>1. \A r \in P : IsInjective(t[r]) /\ Range(t[r]) \subseteq S \ Range(q[p])
        BY <1>2 DEF Exact
    <2>2. \A r, o \in P : r # o => Range(q[r]) \cap Range(q[o]) = {}
        BY DEF Exact
    <2>3. \A r, o \in P : r # o => Range(t[r]) \cap Range(t[o]) = {}
        BY <1>2, <2>2
    <2>4. \A y \in S \ Range(q[p]) : \E r \in P : y \in Range(t[r])
        BY <1>2 DEF Exact
    <2> QED BY <2>1, <2>3, <2>4, Zenon DEF Exact
<1> QED BY <1>2, <1>3

\* The empty set and a singleton, counted.
LEMMA CountFacts ==
    Cardinality({}) = 0 /\ \A x : Cardinality({x}) = 1
<1>1. Cardinality({}) = 0
  <2> DEFINE R(g) == [T \in SUBSET {} |-> IF T = {} THEN 0
                                          ELSE 1 + g[T \ {CHOOSE y : y \in T}]]
             f == [T \in SUBSET {} |-> 0]
  <2>1. f = R(f)
      OBVIOUS
  <2> HIDE DEF f
  <2>2. PICK g : g = CHOOSE h : h = R(h)
      OBVIOUS
  <2>3. g = R(g)
      BY <2>1, <2>2, Zenon
  <2>4. g[{}] = 0
      BY <2>3
  <2> QED BY <2>2, <2>4 DEF Cardinality
<1>2. ASSUME NEW x PROVE Cardinality({x}) = 1
  <2> DEFINE R(g) == [T \in SUBSET {x} |-> IF T = {} THEN 0
                                           ELSE 1 + g[T \ {CHOOSE y : y \in T}]]
             f == [T \in SUBSET {x} |-> IF T = {} THEN 0 ELSE 1]
  <2>1. f = R(f)
    <3>1. ASSUME NEW T \in SUBSET {x}, T # {} PROVE T \ {CHOOSE y : y \in T} = {}
        OBVIOUS
    <3> QED BY <3>1
  <2> HIDE DEF f
  <2>2. PICK g : g = CHOOSE h : h = R(h)
      OBVIOUS
  <2>3. g = R(g)
      BY <2>1, <2>2, Zenon
  <2>4. {x} \ {CHOOSE y : y \in {x}} = {}
      OBVIOUS
  <2>5. g[{}] = 0 /\ g[{x}] = 1 + g[{x} \ {CHOOSE y : y \in {x}}]
      BY <2>3
  <2>6. g[{x}] = 1
      BY <2>4, <2>5
  <2> QED BY <2>2, <2>6 DEF Cardinality
<1> QED BY <1>1, <1>2

\* Empty queues hold nothing.
LEMMA EmptyExact == ASSUME NEW P, NEW q, \A p \in P : q[p] = <<>> PROVE Exact(P, q, {})
<1>1. Range(<<>>) = {} /\ IsInjective(<<>>)
    BY DEF Range, IsInjective
<1> QED BY <1>1 DEF Exact
================================================================================
