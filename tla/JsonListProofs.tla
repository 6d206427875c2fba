--------------------------- MODULE JsonListProofs ---------------------------
(***************************************************************************)
(* Proofs about the trees of cJSON.c, for any number of items, names and   *)
(* types.  The invariant (TreeInv) says of the heap that the lists by next *)
(* and prev are sequences of children, that no item is in two places, that *)
(* no set of items is all below itself, and that what is in no list is     *)
(* what the program holds.  Each call is shown to change the sequences as  *)
(* JsonSeq says: its operators are first described by what they do to each *)
(* field of each item, and the sequence that results is then read off the  *)
(* heap again.                                                             *)
(***************************************************************************)
EXTENDS JsonList, FiniteSetTheorems, FunctionTheorems, SequenceTheorems, WellFoundedInduction, TLAPS

Links == Nodes \cup {NULL}

Item == [kind : Kinds \cup {"free"}, key : Keys \cup {NoKey},
         next : Links, prev : Links, child : Links]

\* The children of every item.
Kids(h) == [n \in Nodes |-> Children(h, n)]

\* m is one of p's children in s.
ChildOf(s, m, p) == \E i \in 1 .. Len(s[p]) : s[p][i] = m

First(t) == IF Len(t) = 0 THEN NULL ELSE t[1]

\* No item is in two places.
Once(s) ==
    \A p, q \in Nodes : \A i \in 1 .. Len(s[p]), j \in 1 .. Len(s[q]) :
        s[p][i] = s[q][j] => p = q /\ i = j

\* No set of items is all below itself.
Rooted(s) ==
    \A S \in SUBSET Nodes : S # {} => \E n \in S : \A p \in S : ~ChildOf(s, n, p)

Forest(s) == s \in [Nodes -> Seq(Nodes)] /\ Once(s) /\ Rooted(s)

\* The pointers of h are the lists s.
Linked(h, s) ==
    \A p \in Nodes :
        /\ h[p].child = First(s[p])
        /\ \A i \in 1 .. Len(s[p]) :
              /\ h[s[p][i]].next = IF i = Len(s[p]) THEN NULL ELSE s[p][i+1]
              /\ h[s[p][i]].prev = IF i = 1 THEN s[p][Len(s[p])] ELSE s[p][i-1]

\* What is in no list is free, or the program's to place or delete.
Held(h, s, o) ==
    /\ \A n \in Nodes : h[n].kind = "free" => h[n] = FreeItem
    /\ \A p \in Nodes : \A i \in 1 .. Len(s[p]) : h[s[p][i]].kind # "free"
    /\ o = {n \in Nodes : h[n].kind # "free" /\ \A p \in Nodes : ~ChildOf(s, n, p)}
    /\ \A n \in o : h[n].next = NULL

Trees(h, s, o) ==
    h \in [Nodes -> Item] /\ Forest(s) /\ Linked(h, s) /\ Held(h, s, o)

\* The inductive invariant.
TreeInv == Trees(heap, Kids(heap), owned)

-----------------------------------------------------------------------------
(* Numbers and sequences                                                   *)

\* A set of naturals has a least member, which is its Min.
LEMMA MinOfNaturals ==
    ASSUME NEW T \in SUBSET Nat, T # {}
    PROVE  Min(T) \in T /\ \A n \in T : Min(T) <= n
<1>1. PICK x \in T : \A y \in T : <<y, x>> \notin OpToRel(<, Nat)
  BY NatLessThanWellFounded, WFMin
<1>2. ASSUME NEW y \in T, y < x
      PROVE  <<y, x>> \in OpToRel(<, Nat)
  BY <1>2 DEF OpToRel
<1>3. \A y \in T : ~(y < x)
  BY <1>1, <1>2
<1>4. \A y \in T : x <= y
  BY <1>3
<1> QED BY <1>4 DEF Min

\* Inserting shifts what is behind the place.
LEMMA InsertAtIs ==
    ASSUME NEW S, NEW t \in Seq(S), NEW i \in 1 .. Len(t) + 1, NEW e \in S
    PROVE  /\ InsertAt(t, i, e) \in Seq(S)
           /\ Len(InsertAt(t, i, e)) = Len(t) + 1
           /\ \A j \in 1 .. Len(t) + 1 :
                 InsertAt(t, i, e)[j] = IF j < i THEN t[j] ELSE IF j = i THEN e ELSE t[j-1]
<1> DEFINE a == SubSeq(t, 1, i-1)
           b == <<e>>
           c == SubSeq(t, i, Len(t))
<1>1. Len(t) \in Nat /\ \A j \in 1 .. Len(t) : t[j] \in S
  BY LenProperties, ElementOfSeq
<1>2. /\ a \in Seq(S) /\ Len(a) = i - 1
      /\ \A j \in 1 .. i-1 : a[j] = t[j]
  <2>1. \A j \in 1 .. i-1 : t[j] \in S
    BY <1>1
  <2>2. 1 \in Int /\ i - 1 \in Int
    BY <1>1
  <2>3. /\ a \in Seq(S)
        /\ Len(a) = IF 1 <= i-1 THEN i-1-1+1 ELSE 0
        /\ \A j \in 1 .. i-1-1+1 : a[j] = t[1+j-1]
    BY <2>1, <2>2, SubSeqProperties
  <2> HIDE DEF a
  <2> QED BY <2>3, <1>1
<1>3. b \in Seq(S) /\ Len(b) = 1 /\ b[1] = e
  OBVIOUS
<1>4. /\ c \in Seq(S) /\ Len(c) = Len(t) - i + 1
      /\ \A j \in 1 .. Len(t)-i+1 : c[j] = t[i+j-1]
  <2>1. \A j \in i .. Len(t) : t[j] \in S
    BY <1>1
  <2>2. i \in Int /\ Len(t) \in Int
    BY <1>1
  <2>3. /\ c \in Seq(S)
        /\ Len(c) = IF i <= Len(t) THEN Len(t)-i+1 ELSE 0
        /\ \A j \in 1 .. Len(t)-i+1 : c[j] = t[i+j-1]
    BY <2>1, <2>2, SubSeqProperties
  <2> HIDE DEF c
  <2> QED BY <2>3, <1>1
<1> HIDE DEF a, b, c
<1>5. /\ a \o b \in Seq(S) /\ Len(a \o b) = i
      /\ \A j \in 1 .. i : (a \o b)[j] = IF j < i THEN t[j] ELSE e
  <2>1. /\ a \o b \in Seq(S) /\ Len(a \o b) = Len(a) + Len(b)
        /\ \A j \in 1 .. Len(a) + Len(b) :
              (a \o b)[j] = IF j <= Len(a) THEN a[j] ELSE b[j - Len(a)]
    BY <1>2, <1>3, ConcatProperties
  <2>2. i \in Nat /\ i - 1 + 1 = i
    BY <1>1
  <2>3. ASSUME NEW j \in 1 .. i
        PROVE  (a \o b)[j] = IF j < i THEN t[j] ELSE e
    <3>1. CASE j < i
      BY <3>1, <2>1, <2>2, <1>2, <1>3
    <3>2. CASE j = i
      <4>1. j - Len(a) = 1 /\ ~(j <= Len(a)) /\ j \in 1 .. Len(a) + Len(b)
        BY <3>2, <2>2, <1>2, <1>3
      <4>2. (a \o b)[j] = b[j - Len(a)]
        BY <4>1, <2>1
      <4> QED BY <4>1, <4>2, <3>2, <1>3, <2>2
    <3>3. j < i \/ j = i
      BY <2>2
    <3> QED BY <3>1, <3>2, <3>3
  <2> QED BY <2>1, <2>2, <2>3, <1>2, <1>3
<1>6. /\ (a \o b) \o c \in Seq(S) /\ Len((a \o b) \o c) = Len(t) + 1
      /\ \A j \in 1 .. Len(t) + 1 :
            ((a \o b) \o c)[j] = IF j <= i THEN (a \o b)[j] ELSE c[j-i]
  <2> DEFINE d == a \o b
  <2>1. d \in Seq(S) /\ Len(d) = i
    BY <1>5
  <2> HIDE DEF d
  <2>2. /\ d \o c \in Seq(S) /\ Len(d \o c) = Len(d) + Len(c)
        /\ \A j \in 1 .. Len(d) + Len(c) :
              (d \o c)[j] = IF j <= Len(d) THEN d[j] ELSE c[j - Len(d)]
    BY <2>1, <1>4, ConcatProperties
  <2>3. Len(d) + Len(c) = Len(t) + 1
    BY <2>1, <1>1, <1>4
  <2> QED BY <2>1, <2>2, <2>3 DEF d
<1>7. InsertAt(t, i, e) = (a \o b) \o c
  BY DEF InsertAt, a, b, c
<1> QED BY <1>1, <1>4, <1>5, <1>6, <1>7

\* Removing closes the gap.
LEMMA RemoveAtIs ==
    ASSUME NEW S, NEW t \in Seq(S), NEW i \in 1 .. Len(t)
    PROVE  /\ RemoveAt(t, i) \in Seq(S)
           /\ Len(RemoveAt(t, i)) = Len(t) - 1
           /\ \A j \in 1 .. Len(t) - 1 : RemoveAt(t, i)[j] = IF j < i THEN t[j] ELSE t[j+1]
<1> DEFINE a == SubSeq(t, 1, i-1)
           c == SubSeq(t, i+1, Len(t))
<1>1. Len(t) \in Nat /\ \A j \in 1 .. Len(t) : t[j] \in S
  BY LenProperties, ElementOfSeq
<1>2. /\ a \in Seq(S) /\ Len(a) = i - 1
      /\ \A j \in 1 .. i-1 : a[j] = t[j]
  <2>1. \A j \in 1 .. i-1 : t[j] \in S
    BY <1>1
  <2>2. 1 \in Int /\ i - 1 \in Int
    BY <1>1
  <2>3. /\ a \in Seq(S)
        /\ Len(a) = IF 1 <= i-1 THEN i-1-1+1 ELSE 0
        /\ \A j \in 1 .. i-1-1+1 : a[j] = t[1+j-1]
    BY <2>1, <2>2, SubSeqProperties
  <2> HIDE DEF a
  <2> QED BY <2>3, <1>1
<1>3. /\ c \in Seq(S) /\ Len(c) = Len(t) - i
      /\ \A j \in 1 .. Len(t)-i : c[j] = t[i+j]
  <2>1. \A j \in i+1 .. Len(t) : t[j] \in S
    BY <1>1
  <2>2. i + 1 \in Int /\ Len(t) \in Int
    BY <1>1
  <2>3. /\ c \in Seq(S)
        /\ Len(c) = IF i+1 <= Len(t) THEN Len(t)-(i+1)+1 ELSE 0
        /\ \A j \in 1 .. Len(t)-(i+1)+1 : c[j] = t[i+1+j-1]
    BY <2>1, <2>2, SubSeqProperties
  <2> HIDE DEF c
  <2> QED BY <2>3, <1>1
<1> HIDE DEF a, c
<1>4. /\ a \o c \in Seq(S) /\ Len(a \o c) = Len(t) - 1
      /\ \A j \in 1 .. Len(t) - 1 : (a \o c)[j] = IF j <= i-1 THEN a[j] ELSE c[j-(i-1)]
  <2>1. Len(a) + Len(c) = Len(t) - 1
    BY <1>1, <1>2, <1>3
  <2>2. /\ a \o c \in Seq(S) /\ Len(a \o c) = Len(a) + Len(c)
        /\ \A j \in 1 .. Len(a) + Len(c) :
              (a \o c)[j] = IF j <= Len(a) THEN a[j] ELSE c[j - Len(a)]
    BY <1>2, <1>3, ConcatProperties
  <2> QED BY <2>1, <2>2, <1>2
<1>5. RemoveAt(t, i) = a \o c
  BY DEF RemoveAt, a, c
<1> QED BY <1>1, <1>2, <1>3, <1>4, <1>5

-----------------------------------------------------------------------------
(* Reading a list                                                          *)

\* A list without repetitions is not longer than there are items.
LEMMA ListsFit ==
    ASSUME NEW t \in Seq(Nodes), \A i, j \in 1 .. Len(t) : t[i] = t[j] => i = j
    PROVE  Len(t) \in Nat /\ Cardinality(Nodes) \in Nat /\ Len(t) <= Cardinality(Nodes)
<1>1. Len(t) \in Nat /\ t \in [1 .. Len(t) -> Nodes]
  BY LenProperties
<1>2. t \in Injection(1 .. Len(t), Nodes)
  BY <1>1 DEF Injection, IsInjective
<1>3. Cardinality(1 .. Len(t)) <= Cardinality(Nodes)
  BY <1>2, ListAssumption, FS_Injection
<1>4. Cardinality(1 .. Len(t)) = Len(t)
  BY SMTT(30), <1>1, FS_Interval
<1>5. Cardinality(Nodes) \in Nat
  BY ListAssumption, FS_CardinalityType
<1> QED BY <1>1, <1>3, <1>4, <1>5

\* The pointers that Children follows, from the first child on.
Walk(h, p, f) ==
    f = [i \in 0 .. Cardinality(Nodes) |->
            IF i = 0 THEN h[p].child ELSE IF f[i-1] = NULL THEN NULL ELSE h[f[i-1]].next]

\* Children finds the list that child and next describe.
LEMMA ChildrenAre ==
    ASSUME NEW h, NEW p \in Nodes, NEW t \in Seq(Nodes),
           \A i, j \in 1 .. Len(t) : t[i] = t[j] => i = j,
           h[p].child = First(t),
           \A i \in 1 .. Len(t) : h[t[i]].next = IF i = Len(t) THEN NULL ELSE t[i+1]
    PROVE  Children(h, p) = t
<1> DEFINE size == Cardinality(Nodes)
           g == [i \in 0 .. size |-> IF i < Len(t) THEN t[i+1] ELSE NULL]
           at == CHOOSE f : Walk(h, p, f)
           ends == {i \in 0 .. size : at[i] = NULL} \cup {size}
<1>1. Len(t) \in Nat /\ size \in Nat /\ Len(t) <= size
  BY ListsFit
<1>2. \A i \in 1 .. Len(t) : t[i] \in Nodes /\ t[i] # NULL
  BY ElementOfSeq, ListAssumption
<1> HIDE DEF size
<1>3. \A i \in 0 .. size :
         g[i] = IF i = 0 THEN h[p].child ELSE IF g[i-1] = NULL THEN NULL ELSE h[g[i-1]].next
  <2> TAKE i \in 0 .. size
  <2>1. CASE i = 0
    BY <2>1, <1>1 DEF First
  <2>2. CASE i > 0 /\ i - 1 >= Len(t)
    <3>1. g[i] = NULL /\ g[i-1] = NULL
      BY <2>2, <1>1
    <3> QED BY <3>1, <2>2
  <2>3. CASE i > 0 /\ i - 1 < Len(t)
    <3>1. i \in 1 .. Len(t) /\ i - 1 \in 0 .. size /\ g[i-1] = t[i]
      BY <2>3, <1>1
    <3>2. h[t[i]].next = IF i = Len(t) THEN NULL ELSE t[i+1]
      BY <3>1
    <3>3. g[i] = IF i < Len(t) THEN t[i+1] ELSE NULL
      BY <1>1
    <3>4. i = Len(t) <=> ~(i < Len(t))
      BY <3>1, <1>1
    <3>5. g[i] = h[g[i-1]].next
      BY <3>1, <3>2, <3>3, <3>4
    <3> QED BY <3>1, <3>5, <1>2, <2>3
  <2> QED BY <2>1, <2>2, <2>3, <1>1
<1>4. Walk(h, p, at)
  <2>1. Walk(h, p, g)
    <3> HIDE DEF g
    <3>1. g = [i \in 0 .. size |-> g[i]]
      BY DEF g
    <3> QED BY <1>3, <3>1 DEF Walk, size
  <2> HIDE DEF g
  <2> QED BY <2>1
<1>5. Children(h, p) = [i \in 1 .. Min(ends) |-> at[i-1]]
  BY DEF Children, Walk, size
<1>6. \A i \in 0 .. size : at[i] = g[i]
  <2> DEFINE Bad == {i \in 0 .. size : at[i] # g[i]}
  <2> SUFFICES ASSUME Bad # {} PROVE FALSE
    OBVIOUS
  <2> HIDE DEF at, g
  <2>1. Bad \in SUBSET Nat
    BY <1>1
  <2>2. Min(Bad) \in Bad /\ \A n \in Bad : Min(Bad) <= n
    <3> HIDE DEF Bad
    <3> QED BY <2>1, MinOfNaturals
  <2> DEFINE m == Min(Bad)
  <2> HIDE DEF m
  <2>3. m \in 0 .. size /\ at[m] # g[m]
    BY <2>2 DEF m
  <2>4. \A i \in 0 .. size : at[i] = IF i = 0 THEN h[p].child
                                     ELSE IF at[i-1] = NULL THEN NULL ELSE h[at[i-1]].next
    BY <1>4 DEF Walk, size
  <2>5. m # 0
    BY <2>3, <2>4, <1>3
  <2>6. m - 1 \in 0 .. size /\ ~(m <= m - 1)
    BY <2>3, <2>5, <1>1
  <2>7. at[m-1] = g[m-1]
    BY <2>2, <2>6 DEF m
  <2> QED BY <2>3, <2>4, <2>5, <2>7, <1>3
<1>7. Min(ends) = Len(t)
  <2>1. /\ \A i \in 0 .. size : i < Len(t) => at[i] # NULL
        /\ at[Len(t)] = NULL
    BY <1>1, <1>2, <1>6
  <2> HIDE DEF at
  <2>2. ends \in SUBSET Nat /\ Len(t) \in ends /\ \A i \in ends : i >= Len(t)
    BY <2>1, <1>1
  <2> HIDE DEF ends
  <2>3. Min(ends) \in ends /\ \A n \in ends : Min(ends) <= n
    BY <2>2, MinOfNaturals
  <2>4. Min(ends) \in Nat /\ Min(ends) >= Len(t) /\ Min(ends) <= Len(t)
    BY <2>2, <2>3
  <2> QED BY <2>4, <1>1
<1>8. \A i \in 1 .. Len(t) : at[i-1] = t[i]
  <2> TAKE i \in 1 .. Len(t)
  <2>1. i - 1 \in 0 .. size /\ i - 1 < Len(t) /\ i - 1 + 1 = i
    BY <1>1
  <2> QED BY <2>1, <1>6
<1>9. t = [i \in 1 .. Len(t) |-> t[i]]
  BY LenProperties
<1> HIDE DEF at, ends
<1> QED BY <1>5, <1>7, <1>8, <1>9

\* What the invariant calls the lists are what Children reads.
LEMMA KidsAre ==
    ASSUME NEW h, NEW s, Forest(s), Linked(h, s)
    PROVE  Kids(h) = s
<1>1. ASSUME NEW p \in Nodes
      PROVE  Children(h, p) = s[p]
  <2> DEFINE t == s[p]
  <2>1. t \in Seq(Nodes)
    BY DEF Forest
  <2>2. \A i, j \in 1 .. Len(t) : t[i] = t[j] => i = j
    BY DEF Forest, Once
  <2>3. /\ h[p].child = First(t)
        /\ \A i \in 1 .. Len(t) : h[t[i]].next = IF i = Len(t) THEN NULL ELSE t[i+1]
    BY DEF Linked
  <2> HIDE DEF t
  <2>4. Children(h, p) = t
    BY <2>1, <2>2, <2>3, ChildrenAre
  <2> QED BY <2>4 DEF t
<1>2. s = [p \in Nodes |-> s[p]]
  BY DEF Forest
<1> QED BY <1>1, <1>2 DEF Kids

-----------------------------------------------------------------------------
(* What is below an item                                                   *)

\* n and everything below it, by the sequences of children.
Below(s, n) ==
    {m \in Nodes : \A S \in SUBSET Nodes :
        n \in S /\ (\A k \in S, c \in Nodes : ChildOf(s, c, k) => c \in S) => m \in S}

\* It is the least set with n and the children of its members, each of which but
\* n is a child of another.
LEMMA BelowIs ==
    ASSUME NEW s, NEW n \in Nodes
    PROVE  /\ Below(s, n) \subseteq Nodes /\ n \in Below(s, n)
           /\ \A k \in Below(s, n), c \in Nodes : ChildOf(s, c, k) => c \in Below(s, n)
           /\ \A S \in SUBSET Nodes :
                 n \in S /\ (\A k \in S, c \in Nodes : ChildOf(s, c, k) => c \in S)
                    => Below(s, n) \subseteq S
           /\ \A m \in Below(s, n) : m = n \/ \E k \in Below(s, n) : ChildOf(s, m, k)
<1>1. Below(s, n) \subseteq Nodes /\ n \in Below(s, n)
  BY DEF Below
<1>2. \A S \in SUBSET Nodes :
         n \in S /\ (\A k \in S, c \in Nodes : ChildOf(s, c, k) => c \in S)
            => Below(s, n) \subseteq S
  BY DEF Below
<1>3. ASSUME NEW k \in Below(s, n), NEW c \in Nodes, ChildOf(s, c, k)
      PROVE  c \in Below(s, n)
  BY <1>1, <1>2, <1>3 DEF Below
<1>4. ASSUME NEW m \in Below(s, n)
      PROVE  m = n \/ \E k \in Below(s, n) : ChildOf(s, m, k)
  <2> DEFINE T == {c \in Below(s, n) : c = n \/ \E k \in Below(s, n) : ChildOf(s, c, k)}
  <2>1. T \in SUBSET Nodes /\ n \in T
    BY <1>1
  <2>2. \A k \in T, c \in Nodes : ChildOf(s, c, k) => c \in T
    BY <1>3
  <2>3. Below(s, n) \subseteq T
    <3> HIDE DEF T
    <3> QED BY <2>1, <2>2, <1>2
  <2> QED BY <2>3
<1> QED BY <1>1, <1>2, <1>3, <1>4

\* No item is below itself.
LEMMA NotBelowItself ==
    ASSUME NEW s, Rooted(s), NEW n \in Nodes, NEW q \in Below(s, n)
    PROVE  ~ChildOf(s, n, q)
<1> SUFFICES ASSUME ChildOf(s, n, q) PROVE FALSE
  OBVIOUS
<1> DEFINE S == Below(s, n)
<1>1. S \in SUBSET Nodes /\ S # {} /\ \A m \in S : \E k \in S : ChildOf(s, m, k)
  BY BelowIs
<1> HIDE DEF S
<1> QED BY <1>1 DEF Rooted

\* What cJSON_Delete reaches is the least set with c and what its members'
\* pointers lead to.
LEMMA ReachedIs ==
    ASSUME NEW h, NEW c
    PROVE  /\ Reached(h, c) \subseteq Nodes
           /\ c \in Links => c \in Reached(h, c) \cup {NULL}
           /\ h \in [Nodes -> Item] => \A k \in Reached(h, c) :
                 /\ h[k].next \in Reached(h, c) \cup {NULL}
                 /\ h[k].child \in Reached(h, c) \cup {NULL}
           /\ \A S \in SUBSET Nodes :
                 /\ c \in S \cup {NULL}
                 /\ \A k \in S : h[k].next \in S \cup {NULL} /\ h[k].child \in S \cup {NULL}
                 => Reached(h, c) \subseteq S
<1> DEFINE closed == {S \in SUBSET Nodes :
                         \A k \in S : {h[k].next, h[k].child} \subseteq S \cup {NULL}}
<1>1. Reached(h, c) = {n \in Nodes : \A S \in closed : c \in S \cup {NULL} => n \in S}
  BY DEF Reached
<1>2. \A S \in SUBSET Nodes :
         S \in closed <=> \A k \in S : h[k].next \in S \cup {NULL} /\ h[k].child \in S \cup {NULL}
  OBVIOUS
<1> HIDE DEF closed
<1>3. ASSUME h \in [Nodes -> Item], NEW k \in Reached(h, c), NEW x \in Links, x # NULL,
             x = h[k].next \/ x = h[k].child
      PROVE  x \in Reached(h, c)
  <2> SUFFICES ASSUME NEW S \in closed, c \in S \cup {NULL} PROVE x \in S
    BY <1>1, <1>3 DEF Links
  <2>1. k \in S
    BY <1>1
  <2>2. S \in SUBSET Nodes
    BY DEF closed
  <2> QED BY <2>1, <2>2, <1>2, <1>3
<1>4. ASSUME h \in [Nodes -> Item], NEW k \in Nodes
      PROVE  h[k].next \in Links /\ h[k].child \in Links
  BY <1>4 DEF Item
<1>5. h \in [Nodes -> Item] => \A k \in Reached(h, c) :
         /\ h[k].next \in Reached(h, c) \cup {NULL}
         /\ h[k].child \in Reached(h, c) \cup {NULL}
  BY <1>1, <1>3, <1>4
<1>6. c \in Links => c \in Reached(h, c) \cup {NULL}
  BY <1>1 DEF Links
<1>7. ASSUME NEW S \in SUBSET Nodes, c \in S \cup {NULL},
             \A k \in S : h[k].next \in S \cup {NULL} /\ h[k].child \in S \cup {NULL}
      PROVE  Reached(h, c) \subseteq S
  <2>1. S \in closed
    BY <1>2, <1>7
  <2> QED BY <1>1, <1>7, <2>1
<1>8. Reached(h, c) \subseteq Nodes
  BY <1>1
<1> QED BY <1>5, <1>6, <1>7, <1>8

\* Who follows next from the first child meets all children.
LEMMA ChainInside ==
    ASSUME NEW h, NEW s, Forest(s), Linked(h, s), NEW p \in Nodes,
           NEW R, First(s[p]) \in R \cup {NULL},
           \A k \in R : h[k].next \in R \cup {NULL}
    PROVE  \A i \in 1 .. Len(s[p]) : s[p][i] \in R
<1> DEFINE t == s[p]
           Bad == {i \in 1 .. Len(t) : t[i] \notin R}
<1>1. t \in Seq(Nodes) /\ Len(t) \in Nat /\ \A i \in 1 .. Len(t) : t[i] # NULL
  <2>1. t \in Seq(Nodes)
    BY DEF Forest
  <2> HIDE DEF t
  <2> QED BY <2>1, LenProperties, ElementOfSeq, ListAssumption
<1>2. \A i \in 1 .. Len(t) : h[t[i]].next = IF i = Len(t) THEN NULL ELSE t[i+1]
  BY DEF Linked
<1>3. Len(t) > 0 => t[1] \in R \cup {NULL}
  BY <1>1 DEF First
<1> SUFFICES ASSUME Bad # {} PROVE FALSE
  OBVIOUS
<1> HIDE DEF t
<1>4. Bad \in SUBSET Nat
  BY <1>1
<1>5. Min(Bad) \in Bad /\ \A n \in Bad : Min(Bad) <= n
  <2> HIDE DEF Bad
  <2> QED BY <1>4, MinOfNaturals
<1> DEFINE m == Min(Bad)
<1> HIDE DEF m
<1>6. m \in 1 .. Len(t) /\ t[m] \notin R
  BY <1>5 DEF m
<1>7. m # 1
  BY <1>1, <1>3, <1>6
<1>8. m - 1 \in 1 .. Len(t) /\ ~(m <= m - 1) /\ m - 1 # Len(t) /\ m - 1 + 1 = m
  BY <1>1, <1>6, <1>7
<1>9. t[m-1] \in R
  BY <1>5, <1>8 DEF m
<1>10. h[t[m-1]].next = t[m]
  BY <1>2, <1>8
<1> QED BY <1>1, <1>6, <1>9, <1>10

\* The pointers lead to what is below an item ...
LEMMA SubtreeIs ==
    ASSUME NEW h \in [Nodes -> Item], NEW s, Forest(s), Linked(h, s), NEW n \in Nodes
    PROVE  Subtree(h, n) = Below(s, n)
<1> DEFINE B == Below(s, n)
           R == Reached(h, h[n].child)
<1>1. /\ B \subseteq Nodes /\ n \in B
      /\ \A k \in B, c \in Nodes : ChildOf(s, c, k) => c \in B
      /\ \A S \in SUBSET Nodes :
            n \in S /\ (\A k \in S, c \in Nodes : ChildOf(s, c, k) => c \in S) => B \subseteq S
      /\ \A m \in B : m = n \/ \E k \in B : ChildOf(s, m, k)
  BY BelowIs
<1>2. \A q \in B : ~ChildOf(s, n, q)
  BY NotBelowItself DEF Forest
<1>3. /\ R \subseteq Nodes /\ h[n].child \in R \cup {NULL}
      /\ \A k \in R : h[k].next \in R \cup {NULL} /\ h[k].child \in R \cup {NULL}
      /\ \A S \in SUBSET Nodes :
            /\ h[n].child \in S \cup {NULL}
            /\ \A k \in S : h[k].next \in S \cup {NULL} /\ h[k].child \in S \cup {NULL}
            => R \subseteq S
  <2>1. h[n].child \in Links
    BY DEF Item
  <2> QED BY <2>1, ReachedIs
<1>4. Subtree(h, n) = {n} \cup R
  BY DEF Subtree
<1> HIDE DEF B, R
<1>5. \A k \in Nodes : s[k] \in Seq(Nodes) /\ Len(s[k]) \in Nat
  BY LenProperties DEF Forest
<1>6. R \subseteq B
  <2> DEFINE S == B \ {n}
  <2>1. S \in SUBSET Nodes
    BY <1>1
  <2>2. ASSUME NEW k \in B
        PROVE  h[k].child \in S \cup {NULL}
    <3>1. h[k].child = First(s[k])
      BY <1>1 DEF Linked
    <3>2. Len(s[k]) # 0 => ChildOf(s, s[k][1], k) /\ s[k][1] \in Nodes
      BY <1>1, <1>5, ElementOfSeq DEF ChildOf
    <3> QED BY <3>1, <3>2, <1>1, <1>2 DEF First
  <2>3. ASSUME NEW k \in S
        PROVE  h[k].next \in S \cup {NULL}
    <3>1. PICK q \in B : ChildOf(s, k, q)
      BY <1>1
    <3>2. PICK i \in 1 .. Len(s[q]) : s[q][i] = k
      BY <3>1 DEF ChildOf
    <3>3. h[k].next = IF i = Len(s[q]) THEN NULL ELSE s[q][i+1]
      BY <3>2, <1>1 DEF Linked
    <3>4. i # Len(s[q]) => i + 1 \in 1 .. Len(s[q])
      BY <1>1, <1>5
    <3>5. i # Len(s[q]) => ChildOf(s, s[q][i+1], q) /\ s[q][i+1] \in Nodes
      BY <3>4, <1>1, <1>5, ElementOfSeq DEF ChildOf
    <3> QED BY <3>3, <3>5, <1>1, <1>2
  <2>4. R \subseteq S
    <3>1. h[n].child \in S \cup {NULL}
      BY <2>2, <1>1
    <3> HIDE DEF S
    <3>2. \A k \in S : h[k].next \in S \cup {NULL} /\ h[k].child \in S \cup {NULL}
      BY <2>2, <2>3 DEF S
    <3> QED BY <3>1, <3>2, <2>1, <1>3
  <2> QED BY <2>4
<1>7. B \subseteq {n} \cup R
  <2>1. ASSUME NEW k \in {n} \cup R, NEW c \in Nodes, ChildOf(s, c, k)
        PROVE  c \in R
    <3>1. h[k].child = First(s[k]) /\ h[k].child \in R \cup {NULL}
      BY <1>3 DEF Linked
    <3>2. \A i \in 1 .. Len(s[k]) : s[k][i] \in R
      BY <3>1, <1>3, ChainInside
    <3> QED BY <2>1, <3>2 DEF ChildOf
  <2>2. {n} \cup R \in SUBSET Nodes
    BY <1>3
  <2> QED BY <2>1, <2>2, <1>1
<1> QED BY <1>1, <1>4, <1>6, <1>7 DEF B

\* ... and from an item that no other follows cJSON_Delete reaches just that.
LEMMA ReachedFromRoot ==
    ASSUME NEW h \in [Nodes -> Item], NEW s, Forest(s), Linked(h, s), NEW n \in Nodes,
           h[n].next = NULL
    PROVE  Reached(h, n) = Below(s, n)
<1> DEFINE R == Reached(h, h[n].child)
           Q == Reached(h, n)
<1>1. h[n].child \in Links /\ n \in Links /\ n # NULL
  BY ListAssumption DEF Item, Links
<1>2. /\ R \subseteq Nodes /\ h[n].child \in R \cup {NULL}
      /\ \A k \in R : h[k].next \in R \cup {NULL} /\ h[k].child \in R \cup {NULL}
      /\ \A S \in SUBSET Nodes :
            /\ h[n].child \in S \cup {NULL}
            /\ \A k \in S : h[k].next \in S \cup {NULL} /\ h[k].child \in S \cup {NULL}
            => R \subseteq S
  BY <1>1, ReachedIs
<1>3. /\ Q \subseteq Nodes /\ n \in Q
      /\ \A k \in Q : h[k].next \in Q \cup {NULL} /\ h[k].child \in Q \cup {NULL}
      /\ \A S \in SUBSET Nodes :
            /\ n \in S \cup {NULL}
            /\ \A k \in S : h[k].next \in S \cup {NULL} /\ h[k].child \in S \cup {NULL}
            => Q \subseteq S
  BY <1>1, ReachedIs
<1> HIDE DEF R, Q
<1>4. R \subseteq Q
  BY <1>2, <1>3
<1>5. Q \subseteq {n} \cup R
  <2> DEFINE S == {n} \cup R
  <2>1. S \in SUBSET Nodes /\ n \in S
    BY <1>2
  <2>2. \A k \in S : h[k].next \in S \cup {NULL} /\ h[k].child \in S \cup {NULL}
    BY <1>2
  <2> HIDE DEF S
  <2>3. Q \subseteq S
    BY <2>1, <2>2, <1>3
  <2> QED BY <2>3 DEF S
<1>6. Q = Subtree(h, n)
  BY <1>3, <1>4, <1>5 DEF Subtree, R
<1> QED BY <1>6, SubtreeIs DEF Q

-----------------------------------------------------------------------------
(* What the invariant says of the heap                                     *)

\* prev is the item before, the first one's the last, in every list.
LEMMA TreesAreLinked == TreeInv => ListsAreLinked
<1> SUFFICES ASSUME TreeInv, NEW p \in Nodes, NEW i \in DOMAIN Children(heap, p)
             PROVE  LET t == Children(heap, p) IN
                    /\ heap[t[i]].kind # "free"
                    /\ heap[t[i]].prev = (IF i = 1 THEN Last(t) ELSE t[i-1])
                    /\ i = Len(t) => heap[t[i]].next = NULL
  BY DEF ListsAreLinked
<1> DEFINE s == Kids(heap)
<1>1. Forest(s) /\ Linked(heap, s) /\ Held(heap, s, owned)
  BY DEF TreeInv, Trees
<1>2. s[p] = Children(heap, p)
  BY DEF Kids
<1> HIDE DEF s
<1>3. DOMAIN s[p] = 1 .. Len(s[p])
  BY <1>1, LenProperties DEF Forest
<1>4. /\ heap[s[p][i]].next = IF i = Len(s[p]) THEN NULL ELSE s[p][i+1]
      /\ heap[s[p][i]].prev = IF i = 1 THEN s[p][Len(s[p])] ELSE s[p][i-1]
      /\ heap[s[p][i]].kind # "free"
  BY SMTT(30), <1>1, <1>2, <1>3 DEF Linked, Held
<1> QED BY <1>2, <1>4 DEF Last

\* Every allocated item is below exactly one item that the program holds.
LEMMA TreesAreFreed == TreeInv => DeleteFreesAll
<1> SUFFICES ASSUME TreeInv PROVE DeleteFreesAll
  OBVIOUS
<1> DEFINE s == Kids(heap)
<1>1. /\ heap \in [Nodes -> Item] /\ Forest(s) /\ Linked(heap, s)
      /\ Held(heap, s, owned) /\ Rooted(s)
  BY DEF TreeInv, Trees, Forest
<1> HIDE DEF s
<1>2. \A n \in Nodes : Subtree(heap, n) = Below(s, n)
  BY <1>1, SubtreeIs
<1>3. /\ owned = {n \in Nodes : heap[n].kind # "free" /\ \A p \in Nodes : ~ChildOf(s, n, p)}
      /\ \A n \in owned : heap[n].next = NULL
      /\ \A p \in Nodes : \A i \in 1 .. Len(s[p]) : heap[s[p][i]].kind # "free"
  BY <1>1 DEF Held
<1>4. \A m, p \in Nodes : ChildOf(s, m, p) => heap[m].kind # "free"
  BY <1>3 DEF ChildOf
<1> DEFINE Held_ == UNION {Below(s, n) : n \in owned}
<1>5. Held_ \subseteq Nodes \ Free(heap)
  <2> SUFFICES ASSUME NEW n \in owned, NEW m \in Below(s, n) PROVE m \in Nodes \ Free(heap)
    OBVIOUS
  <2>1. m \in Nodes /\ (m = n \/ \E k \in Nodes : ChildOf(s, m, k))
    BY <1>3, BelowIs
  <2> QED BY <2>1, <1>3, <1>4 DEF Free
<1>6. Nodes \ Free(heap) \subseteq Held_
  <2> DEFINE S == (Nodes \ Free(heap)) \ Held_
  <2> SUFFICES ASSUME S # {} PROVE FALSE
    OBVIOUS
  <2>1. PICK m \in S : \A p \in S : ~ChildOf(s, m, p)
    <3>1. S \in SUBSET Nodes
      OBVIOUS
    <3> HIDE DEF S
    <3> QED BY <3>1, <1>1 DEF Rooted
  <2>2. m \in Nodes /\ heap[m].kind # "free" /\ m \notin Held_
    BY DEF Free
  <2>3. CASE m \in owned
    BY <2>2, <2>3, BelowIs
  <2>4. CASE m \notin owned
    <3>1. PICK p \in Nodes : ChildOf(s, m, p)
      BY <2>2, <2>4, <1>3
    <3>2. p \notin Free(heap)
      <4>1. \E i \in 1 .. Len(s[p]) : s[p][i] = m
        BY <3>1 DEF ChildOf
      <4>2. Len(s[p]) \in Nat /\ s[p] \in Seq(Nodes)
        BY <1>1, LenProperties DEF Forest
      <4>3. First(s[p]) \in Nodes
        BY <4>1, <4>2, ElementOfSeq DEF First
      <4>4. heap[p].child # NULL
        BY <4>3, <1>1, ListAssumption DEF Linked
      <4>5. heap[p].kind = "free" => heap[p] = FreeItem
        BY <1>1 DEF Held
      <4> QED BY <4>4, <4>5 DEF Free, FreeItem
    <3>3. p \in Held_
      BY <3>1, <3>2, <2>1
    <3>4. PICK n \in owned : p \in Below(s, n)
      BY <3>3
    <3>5. m \in Below(s, n)
      BY <3>1, <3>4, <2>2, <1>3, BelowIs
    <3> QED BY <3>5, <2>2
  <2> QED BY <2>3, <2>4
<1>7. ASSUME NEW m \in owned, NEW n \in owned, m # n
      PROVE  Below(s, m) \cap Below(s, n) = {}
  <2> DEFINE S == Below(s, m) \cap Below(s, n)
  <2> SUFFICES ASSUME S # {} PROVE FALSE
    OBVIOUS
  <2>1. /\ m \in Nodes /\ n \in Nodes
        /\ \A p \in Nodes : ~ChildOf(s, m, p) /\ ~ChildOf(s, n, p)
    BY <1>3
  <2>2. /\ S \in SUBSET Nodes
        /\ \A k \in Below(s, m) : k = m \/ \E q \in Below(s, m) : q \in Nodes /\ ChildOf(s, k, q)
        /\ \A k \in Below(s, n) : k = n \/ \E q \in Below(s, n) : q \in Nodes /\ ChildOf(s, k, q)
    BY <2>1, BelowIs
  <2>3. PICK k \in S : \A p \in S : ~ChildOf(s, k, p)
    <3> HIDE DEF S
    <3> QED BY <2>2, <1>1 DEF Rooted
  <2>4. k # m /\ k # n
    BY <2>1, <2>2, <1>7
  <2>5. PICK q \in Below(s, m) : q \in Nodes /\ ChildOf(s, k, q)
    BY <2>2, <2>4
  <2>6. PICK r \in Below(s, n) : r \in Nodes /\ ChildOf(s, k, r)
    BY <2>2, <2>4
  <2>7. q = r
    BY <2>5, <2>6, <1>1 DEF ChildOf, Forest, Once
  <2> QED BY <2>3, <2>5, <2>6, <2>7
<1>8. {Subtree(heap, n) : n \in owned} = {Below(s, n) : n \in owned}
  BY <1>2, <1>3
<1>9. \A m, n \in owned : m # n => Subtree(heap, m) \cap Subtree(heap, n) = {}
  BY <1>2, <1>3, <1>7
<1>10. UNION {Subtree(heap, n) : n \in owned} = Nodes \ Free(heap)
  BY <1>5, <1>6, <1>8
<1> QED BY <1>3, <1>9, <1>10 DEF DeleteFreesAll

-----------------------------------------------------------------------------
(* Sequences of children that change                                       *)

\* A forest that loses children stays one ...
LEMMA RootedShrinks ==
    ASSUME NEW s, NEW t, Rooted(s),
           \A m, q \in Nodes : ChildOf(t, m, q) => ChildOf(s, m, q)
    PROVE  Rooted(t)
<1> SUFFICES ASSUME NEW S \in SUBSET Nodes, S # {}
             PROVE  \E n \in S : \A p \in S : ~ChildOf(t, n, p)
  BY DEF Rooted
<1>1. PICK n \in S : \A p \in S : ~ChildOf(s, n, p)
  BY DEF Rooted
<1> QED BY <1>1

\* ... and so does one in which n is put into an item that is not below it.
LEMMA RootedGrows ==
    ASSUME NEW s, NEW t, Rooted(s), NEW n \in Nodes, NEW p \in Nodes, p \notin Below(s, n),
           \A m, q \in Nodes : ChildOf(t, m, q) => ChildOf(s, m, q) \/ (m = n /\ q = p)
    PROVE  Rooted(t)
<1> DEFINE B == Below(s, n)
<1> SUFFICES ASSUME NEW S \in SUBSET Nodes, S # {}
             PROVE  \E m \in S : \A q \in S : ~ChildOf(t, m, q)
  BY DEF Rooted
<1>1. /\ n \in B
      /\ \A k \in B, c \in Nodes : ChildOf(s, c, k) => c \in B
  BY BelowIs
<1> HIDE DEF B
<1>2. CASE S \ B # {}
  <2>1. S \ B \in SUBSET Nodes
    OBVIOUS
  <2>2. PICK m \in S \ B : \A q \in S \ B : ~ChildOf(s, m, q)
    BY <1>2, <2>1 DEF Rooted
  <2>3. \A q \in S : ~ChildOf(s, m, q)
    BY <2>2, <1>1
  <2> QED BY <2>2, <2>3, <1>1
<1>3. CASE S \subseteq B
  <2>1. PICK m \in S : \A q \in S : ~ChildOf(s, m, q)
    BY DEF Rooted
  <2>2. p \notin S
    BY <1>3 DEF B
  <2> QED BY <2>1, <2>2
<1> QED BY <1>2, <1>3

\* What is below an item changes only if the children of one of those do.
LEMMA BelowSame ==
    ASSUME NEW s, NEW t, NEW n \in Nodes, \A k \in Below(s, n) : t[k] = s[k]
    PROVE  Below(t, n) = Below(s, n)
<1> DEFINE A == Below(s, n)
           B == Below(t, n)
<1>1. /\ A \subseteq Nodes /\ n \in A
      /\ \A k \in A, c \in Nodes : ChildOf(s, c, k) => c \in A
      /\ \A S \in SUBSET Nodes :
            n \in S /\ (\A k \in S, c \in Nodes : ChildOf(s, c, k) => c \in S) => A \subseteq S
  BY BelowIs
<1>2. /\ B \subseteq Nodes /\ n \in B
      /\ \A k \in B, c \in Nodes : ChildOf(t, c, k) => c \in B
      /\ \A S \in SUBSET Nodes :
            n \in S /\ (\A k \in S, c \in Nodes : ChildOf(t, c, k) => c \in S) => B \subseteq S
  BY BelowIs
<1>3. \A k \in A : t[k] = s[k]
  OBVIOUS
<1> HIDE DEF A, B
<1>4. \A k \in A, c \in Nodes : ChildOf(t, c, k) <=> ChildOf(s, c, k)
  BY <1>3 DEF ChildOf
<1>5. B \subseteq A
  BY <1>1, <1>2, <1>4
<1>6. A \subseteq B
  <2> DEFINE S == A \cap B
  <2>1. S \in SUBSET Nodes /\ n \in S
    BY <1>1, <1>2
  <2>2. \A k \in S, c \in Nodes : ChildOf(s, c, k) => c \in S
    BY <1>1, <1>2, <1>4
  <2>3. A \subseteq S
    <3> HIDE DEF S
    <3> QED BY <2>1, <2>2, <1>1
  <2> QED BY <2>3
<1> QED BY <1>5, <1>6 DEF A, B

-----------------------------------------------------------------------------
(* What a call must do to the pointers: u is the list of children of p     *)

\* n comes in at place i of u.
IsPut(h, g, u, p, i, n) ==
    \A m \in Nodes :
        /\ g[m].kind = h[m].kind /\ g[m].key = h[m].key
        /\ h[m].kind = "free" => g[m] = h[m]
        /\ g[m].child = IF m = p /\ i = 1 THEN n ELSE h[m].child
        /\ g[m].next = IF m = n THEN IF i = Len(u) + 1 THEN NULL ELSE u[i]
                       ELSE IF i > 1 /\ m = u[i-1] THEN n
                       ELSE h[m].next
        /\ g[m].prev = IF m = n THEN IF Len(u) = 0 THEN n ELSE IF i = 1 THEN u[Len(u)] ELSE u[i-1]
                       ELSE IF Len(u) > 0 /\ m = (IF i = Len(u) + 1 THEN u[1] ELSE u[i]) THEN n
                       ELSE h[m].prev

\* Then the sequence has n at that place and the program holds n no longer.
LEMMA PutKeeps ==
    ASSUME NEW h, NEW s, NEW o, Trees(h, s, o), NEW n \in o, NEW p \in Nodes,
           h[p].kind # "free", p \notin Below(s, n), NEW i \in 1 .. Len(s[p]) + 1,
           NEW g \in [Nodes -> Item], IsPut(h, g, s[p], p, i, n)
    PROVE  Trees(g, [s EXCEPT ![p] = InsertAt(@, i, n)], o \ {n})
<1> DEFINE u == s[p]
           v == InsertAt(u, i, n)
           t == [s EXCEPT ![p] = v]
<1>1. /\ s \in [Nodes -> Seq(Nodes)] /\ Once(s) /\ Rooted(s) /\ Linked(h, s) /\ Held(h, s, o)
      /\ h \in [Nodes -> Item]
  BY DEF Trees, Forest
<1>2. n \in Nodes /\ h[n].kind # "free" /\ \A q \in Nodes : ~ChildOf(s, n, q)
  BY <1>1 DEF Held
<1>3. \A q \in Nodes : \A j \in 1 .. Len(s[q]) : s[q][j] # n
  BY <1>2 DEF ChildOf
<1>4. \A q \in Nodes : /\ s[q] \in Seq(Nodes) /\ Len(s[q]) \in Nat
                      /\ \A j \in 1 .. Len(s[q]) : s[q][j] \in Nodes
  BY <1>1, LenProperties, ElementOfSeq
<1>5. /\ v \in Seq(Nodes) /\ Len(v) = Len(u) + 1
      /\ \A j \in 1 .. Len(v) : v[j] = IF j < i THEN u[j] ELSE IF j = i THEN n ELSE u[j-1]
  <2>1. u \in Seq(Nodes) /\ i \in 1 .. Len(u) + 1
    BY <1>4
  <2> HIDE DEF u
  <2>2. /\ InsertAt(u, i, n) \in Seq(Nodes)
        /\ Len(InsertAt(u, i, n)) = Len(u) + 1
        /\ \A j \in 1 .. Len(u) + 1 :
              InsertAt(u, i, n)[j] = IF j < i THEN u[j] ELSE IF j = i THEN n ELSE u[j-1]
    BY <2>1, <1>2, InsertAtIs
  <2> HIDE DEF v
  <2> QED BY <2>2 DEF v
<1>6. /\ t \in [Nodes -> Seq(Nodes)] /\ t[p] = v
      /\ \A q \in Nodes : q # p => t[q] = s[q]
  BY <1>1, <1>5
<1>7. u = s[p] /\ Len(u) \in Nat /\ i \in 1 .. Len(u) + 1
  BY <1>4
<1> HIDE DEF u, v, t
<1>8. \A j \in 1 .. Len(v) :
         \/ j = i /\ v[j] = n
         \/ j < i /\ j \in 1 .. Len(u) /\ v[j] = u[j]
         \/ j > i /\ j - 1 \in 1 .. Len(u) /\ v[j] = u[j-1]
  BY <1>5, <1>7
<1>9. \A m, q \in Nodes : ChildOf(t, m, q) => ChildOf(s, m, q) \/ (m = n /\ q = p)
  <2> SUFFICES ASSUME NEW m \in Nodes, NEW q \in Nodes, NEW j \in 1 .. Len(t[q]), t[q][j] = m
               PROVE  ChildOf(s, m, q) \/ (m = n /\ q = p)
    BY DEF ChildOf
  <2>1. CASE q = p
    BY <2>1, <1>6, <1>7, <1>8 DEF ChildOf
  <2>2. CASE q # p
    <3>1. t[q] = s[q]
      BY <2>2, <1>6
    <3> QED BY <3>1 DEF ChildOf
  <2> QED BY <2>1, <2>2
<1>10. \A m, q \in Nodes : ChildOf(s, m, q) \/ (m = n /\ q = p) => ChildOf(t, m, q)
  <2> SUFFICES ASSUME NEW m \in Nodes, NEW q \in Nodes, ChildOf(s, m, q) \/ (m = n /\ q = p)
               PROVE  ChildOf(t, m, q)
    OBVIOUS
  <2>1. CASE q # p
    BY <2>1, <1>6 DEF ChildOf
  <2>2. CASE q = p /\ m = n
    <3>1. i \in 1 .. Len(t[p]) /\ t[p][i] = n
      <4>1. i \in 1 .. Len(v)
        BY <1>5, <1>7
      <4> QED BY <4>1, <1>6, <1>8
    <3> QED BY <3>1, <2>2 DEF ChildOf
  <2>3. CASE q = p /\ ChildOf(s, m, p)
    <3>1. PICK j \in 1 .. Len(u) : u[j] = m
      BY <2>3, <1>7 DEF ChildOf
    <3>2. CASE j < i
      <4>1. j \in 1 .. Len(v) /\ v[j] = m
        BY <3>1, <3>2, <1>5, <1>7
      <4> QED BY <4>1, <1>6, <2>3 DEF ChildOf
    <3>3. CASE j >= i
      <4>1. j + 1 \in 1 .. Len(v) /\ ~(j + 1 < i) /\ j + 1 # i /\ j + 1 - 1 = j
        BY <3>3, <1>5, <1>7
      <4>2. v[j+1] = m
        BY <3>1, <4>1, <1>5
      <4> QED BY <4>1, <4>2, <1>6, <2>3 DEF ChildOf
    <3> QED BY <3>1, <3>2, <3>3, <1>7
  <2> QED BY <2>1, <2>2, <2>3
<1>11. Once(t)
  <2> SUFFICES ASSUME NEW q \in Nodes, NEW r \in Nodes,
                      NEW j \in 1 .. Len(t[q]), NEW k \in 1 .. Len(t[r]), t[q][j] = t[r][k]
               PROVE  q = r /\ j = k
    BY DEF Once
  <2>1. \A a, b \in 1 .. Len(u) : u[a] = u[b] => a = b
    <3> SUFFICES ASSUME NEW a \in 1 .. Len(s[p]), NEW b \in 1 .. Len(s[p]), s[p][a] = s[p][b]
                 PROVE  a = b
      BY <1>7
    <3> QED BY <1>1 DEF Once
  <2>2. \A a \in 1 .. Len(u) : u[a] # n
    BY <1>3, <1>7
  <2>3. CASE q = p /\ r = p
    <3>1. j \in 1 .. Len(v) /\ k \in 1 .. Len(v) /\ v[j] = v[k]
      BY <2>3, <1>6
    <3>2. CASE j = i
      BY <3>1, <3>2, <1>8, <2>2, <2>3, <1>5
    <3>3. CASE j < i
      BY <3>1, <3>3, <1>7, <1>8, <2>1, <2>2, <2>3
    <3>4. CASE j > i
      <4>1. j - 1 \in 1 .. Len(u) /\ v[j] = u[j-1]
        BY <3>1, <3>4, <1>7, <1>8
      <4>2. CASE k = i
        <5>1. v[k] = n
          BY <4>2, <3>1, <1>5, <1>7
        <5>2. u[j-1] # n
          BY <4>1, <2>2
        <5> QED BY <4>1, <5>1, <5>2, <3>1
      <4>3. CASE k < i
        BY <4>1, <4>3, <3>1, <3>4, <1>7, <1>8, <2>1
      <4>4. CASE k > i
        <5>1. k - 1 \in 1 .. Len(u) /\ v[k] = u[k-1]
          BY <3>1, <4>4, <1>7, <1>8
        <5>2. j - 1 = k - 1
          BY <4>1, <5>1, <3>1, <2>1
        <5> QED BY <5>2, <2>3, <1>5, <1>7, <3>1
      <4> QED BY <4>2, <4>3, <4>4, <1>7, <1>5, <3>1
    <3> QED BY <3>1, <3>2, <3>3, <3>4, <1>7, <1>5
  <2>4. CASE q = p /\ r # p
    <3>1. j \in 1 .. Len(v) /\ k \in 1 .. Len(s[r]) /\ v[j] = s[r][k]
      BY <2>4, <1>6
    <3>2. s[r][k] # n
      BY <1>3, <3>1
    <3>3. \E a \in 1 .. Len(s[p]) : s[p][a] = s[r][k]
      BY <3>1, <3>2, <1>7, <1>8
    <3> QED BY <3>1, <3>3, <2>4, <1>1 DEF Once
  <2>5. CASE q # p /\ r = p
    <3>1. k \in 1 .. Len(v) /\ j \in 1 .. Len(s[q]) /\ v[k] = s[q][j]
      BY <2>5, <1>6
    <3>2. s[q][j] # n
      BY <1>3, <3>1
    <3>3. \E a \in 1 .. Len(s[p]) : s[p][a] = s[q][j]
      BY <3>1, <3>2, <1>7, <1>8
    <3> QED BY <3>1, <3>3, <2>5, <1>1 DEF Once
  <2>6. CASE q # p /\ r # p
    <3>1. t[q] = s[q] /\ t[r] = s[r]
      BY <2>6, <1>6
    <3>2. j \in 1 .. Len(s[q]) /\ k \in 1 .. Len(s[r]) /\ s[q][j] = s[r][k]
      BY <3>1
    <3> QED BY SMTT(30), <3>2, <1>1 DEF Once
  <2> QED BY <2>3, <2>4, <2>5, <2>6
<1>12. Rooted(t)
  BY <1>1, <1>2, <1>9, RootedGrows
<1>13. Linked(g, t)
  <2> SUFFICES ASSUME NEW q \in Nodes
               PROVE  /\ g[q].child = First(t[q])
                      /\ \A j \in 1 .. Len(t[q]) :
                            /\ g[t[q][j]].next = IF j = Len(t[q]) THEN NULL ELSE t[q][j+1]
                            /\ g[t[q][j]].prev = IF j = 1 THEN t[q][Len(t[q])] ELSE t[q][j-1]
    BY DEF Linked
  <2>1. CASE q # p
    <3>1. g[q].child = First(s[q])
      BY <2>1, <1>1 DEF Linked, IsPut
    <3>2. ASSUME NEW j \in 1 .. Len(s[q])
          PROVE  g[s[q][j]].next = h[s[q][j]].next /\ g[s[q][j]].prev = h[s[q][j]].prev
      <4>1. s[q][j] \in Nodes /\ s[q][j] # n /\ \A a \in 1 .. Len(u) : s[q][j] # u[a]
        BY <2>1, <1>1, <1>3, <1>4, <1>7 DEF Once
      <4>2. /\ i > 1 => i - 1 \in 1 .. Len(u)
            /\ i # Len(u) + 1 => i \in 1 .. Len(u)
            /\ Len(u) > 0 => 1 \in 1 .. Len(u)
        BY <1>7
      <4> QED BY <4>1, <4>2, <1>7 DEF IsPut
    <3>3. \A j \in 1 .. Len(s[q]) :
             /\ h[s[q][j]].next = IF j = Len(s[q]) THEN NULL ELSE s[q][j+1]
             /\ h[s[q][j]].prev = IF j = 1 THEN s[q][Len(s[q])] ELSE s[q][j-1]
      BY <1>1 DEF Linked
    <3>4. \A j \in 1 .. Len(s[q]) :
             /\ g[s[q][j]].next = IF j = Len(s[q]) THEN NULL ELSE s[q][j+1]
             /\ g[s[q][j]].prev = IF j = 1 THEN s[q][Len(s[q])] ELSE s[q][j-1]
      BY <3>2, <3>3
    <3>5. t[q] = s[q]
      BY <2>1, <1>6
    <3> QED BY <3>1, <3>4, <3>5
  <2>2. CASE q = p
    <3> DEFINE len == Len(u)
    <3>1. /\ h[p].child = First(u)
          /\ \A j \in 1 .. len :
                /\ h[u[j]].next = IF j = len THEN NULL ELSE u[j+1]
                /\ h[u[j]].prev = IF j = 1 THEN u[len] ELSE u[j-1]
      BY <1>1, <1>7 DEF Linked
    <3>2. g[p].child = First(v)
      <4>1. Len(v) # 0 /\ v[1] = IF i = 1 THEN n ELSE u[1]
        <5>1. Len(v) # 0 /\ 1 \in 1 .. Len(u) + 1 /\ (1 < i <=> i # 1)
          BY <1>5, <1>7
        <5>2. v[1] = IF 1 < i THEN u[1] ELSE IF 1 = i THEN n ELSE u[1-1]
          BY <5>1, <1>5
        <5> QED BY <5>1, <5>2
      <4>2. i # 1 => Len(u) # 0
        BY <1>7
      <4> QED BY <4>1, <4>2, <3>1, <1>7 DEF IsPut, First
    <3>3. \A a, b \in 1 .. len : u[a] = u[b] => a = b
      BY <1>1, <1>7 DEF Once
    <3>4. \A a \in 1 .. len : u[a] # n /\ u[a] \in Nodes
      BY <1>3, <1>4, <1>7
    <3>5. len \in Nat /\ i \in 1 .. len + 1 /\ Len(v) = len + 1
      BY <1>5, <1>7
    <3>6. \A m \in Nodes :
            /\ g[m].next = IF m = n THEN IF i = len + 1 THEN NULL ELSE u[i]
                           ELSE IF i > 1 /\ m = u[i-1] THEN n
                           ELSE h[m].next
            /\ g[m].prev = IF m = n THEN IF len = 0 THEN n ELSE IF i = 1 THEN u[len] ELSE u[i-1]
                           ELSE IF len > 0 /\ m = (IF i = len + 1 THEN u[1] ELSE u[i]) THEN n
                           ELSE h[m].prev
      BY <1>7 DEF IsPut
    <3>7. \A j \in 1 .. len + 1 : v[j] = IF j < i THEN u[j] ELSE IF j = i THEN n ELSE u[j-1]
      BY <1>5
    <3> HIDE DEF len
    <3>8. ASSUME NEW j \in 1 .. len + 1
          PROVE  g[v[j]].next = IF j = len + 1 THEN NULL ELSE v[j+1]
      <4>1. CASE j = i
        BY <4>1, <3>5, <3>6, <3>7, <1>2
      <4>2. CASE j < i
        <5>1. j \in 1 .. len /\ v[j] = u[j] /\ i > 1
          BY <4>2, <3>5, <3>7
        <5>2. CASE j = i - 1
          BY <5>1, <5>2, <3>4, <3>5, <3>6, <3>7
        <5>3. CASE j # i - 1
          <6>1. i - 1 \in 1 .. len /\ u[j] # u[i-1]
            BY <5>1, <5>3, <3>3, <3>5
          <6>2. g[u[j]].next = h[u[j]].next
            BY <6>1, <5>1, <3>4, <3>6
          <6>3. j + 1 < i /\ j # len /\ j + 1 \in 1 .. len + 1
            BY <5>1, <5>3, <4>2, <3>5
          <6> QED BY <6>2, <6>3, <5>1, <3>1, <3>7, <3>5
        <5> QED BY <5>2, <5>3
      <4>3. CASE j > i
        <5>1. j - 1 \in 1 .. len /\ v[j] = u[j-1]
          BY <4>3, <3>5, <3>7
        <5>2. i > 1 => i - 1 \in 1 .. len /\ u[j-1] # u[i-1]
          BY <5>1, <4>3, <3>3, <3>5
        <5>3. g[u[j-1]].next = h[u[j-1]].next
          BY <5>1, <5>2, <3>4, <3>6
        <5>4. h[u[j-1]].next = IF j - 1 = len THEN NULL ELSE u[j]
          BY <5>1, <3>1
        <5>5. j # len + 1 => v[j+1] = u[j]
          <6> SUFFICES ASSUME j # len + 1 PROVE v[j+1] = u[j]
            OBVIOUS
          <6>1. j + 1 \in 1 .. len + 1 /\ ~(j + 1 < i) /\ j + 1 # i /\ j + 1 - 1 = j
            BY <4>3, <3>5
          <6> QED BY <6>1, <3>7
        <5> QED BY <5>1, <5>3, <5>4, <5>5, <3>5
      <4> QED BY <4>1, <4>2, <4>3, <3>5
    <3>9. ASSUME NEW j \in 1 .. len + 1
          PROVE  g[v[j]].prev = IF j = 1 THEN v[len+1] ELSE v[j-1]
      <4>1. CASE j = i
        <5>1. v[j] = n
          BY <4>1, <3>7
        <5>2. g[n].prev = IF len = 0 THEN n ELSE IF i = 1 THEN u[len] ELSE u[i-1]
          BY <3>6, <1>2
        <5>3. len # 0 /\ i = 1 => v[len+1] = u[len]
          BY <3>5, <3>7
        <5>4. len = 0 => i = 1 /\ v[len+1] = n
          BY <3>5, <3>7
        <5>5. i # 1 => v[i-1] = u[i-1]
          BY <3>5, <3>7
        <5> QED BY <5>1, <5>2, <5>3, <5>4, <5>5, <4>1
      <4>2. CASE j < i
        <5>1. j \in 1 .. len /\ v[j] = u[j] /\ i > 1 /\ len > 0
          BY <4>2, <3>5, <3>7
        <5>2. CASE i = len + 1 /\ j = 1
          BY <5>1, <5>2, <3>4, <3>5, <3>6, <3>7
        <5>3. CASE i # len + 1 \/ j # 1
          <6>1. g[u[j]].prev = h[u[j]].prev
            <7>1. i # len + 1 => i \in 1 .. len /\ u[j] # u[i]
              BY <5>1, <4>2, <3>3, <3>5
            <7>2. i = len + 1 => 1 \in 1 .. len /\ u[j] # u[1]
              BY <5>1, <5>3, <3>3, <3>5
            <7> QED BY <7>1, <7>2, <5>1, <3>4, <3>6
          <6>2. j # 1 => v[j-1] = u[j-1]
            BY <5>1, <4>2, <3>5, <3>7
          <6>3. i # len + 1 => v[len+1] = u[len]
            BY <3>5, <3>7
          <6> QED BY <6>1, <6>2, <6>3, <5>1, <5>3, <3>1
        <5> QED BY <5>2, <5>3
      <4>3. CASE j > i
        <5>1. j - 1 \in 1 .. len /\ v[j] = u[j-1] /\ j # 1 /\ i # len + 1 /\ len > 0 /\ i \in 1 .. len
          BY <4>3, <3>5, <3>7
        <5>2. CASE j - 1 = i
          <6>1. v[j-1] = n
            BY <5>1, <5>2, <3>5, <3>7
          <6> QED BY <6>1, <5>1, <5>2, <3>4, <3>6
        <5>3. CASE j - 1 # i
          <6>1. g[u[j-1]].prev = h[u[j-1]].prev
            BY <5>1, <5>3, <3>3, <3>4, <3>6
          <6>2. j - 1 # 1 /\ v[j-1] = u[j-1-1]
            <7>1. j - 1 \in 1 .. len + 1 /\ ~(j - 1 < i) /\ j - 1 # 1
              BY <5>1, <5>3, <4>3, <3>5
            <7> QED BY <7>1, <5>3, <3>7
          <6>3. h[u[j-1]].prev = u[j-1-1]
            BY <5>1, <6>2, <3>1
          <6> QED BY <6>1, <6>2, <6>3, <5>1
        <5> QED BY <5>2, <5>3
      <4> QED BY <4>1, <4>2, <4>3, <3>5
    <3> QED BY SMTT(30), <3>2, <3>5, <3>8, <3>9, <2>2, <1>6
  <2> QED BY <2>1, <2>2
<1>14. Held(g, t, o \ {n})
  <2>1. \A m \in Nodes : g[m].kind = h[m].kind /\ (h[m].kind = "free" => g[m] = h[m])
    BY DEF IsPut
  <2>2. /\ \A m \in Nodes : h[m].kind = "free" => h[m] = FreeItem
        /\ \A q \in Nodes : \A j \in 1 .. Len(s[q]) : h[s[q][j]].kind # "free"
        /\ o = {m \in Nodes : h[m].kind # "free" /\ \A q \in Nodes : ~ChildOf(s, m, q)}
        /\ \A m \in o : h[m].next = NULL
    BY <1>1 DEF Held
  <2>3. \A m \in Nodes : g[m].kind = "free" => g[m] = FreeItem
    BY <2>1, <2>2
  <2>4. ASSUME NEW q \in Nodes, NEW j \in 1 .. Len(t[q])
        PROVE  g[t[q][j]].kind # "free"
    <3>1. t[q][j] \in Nodes /\ ChildOf(t, t[q][j], q)
      BY <1>6, LenProperties, ElementOfSeq DEF ChildOf
    <3>2. h[t[q][j]].kind # "free"
      <4>1. ChildOf(s, t[q][j], q) \/ t[q][j] = n
        BY <3>1, <1>9
      <4>2. ChildOf(s, t[q][j], q) => h[t[q][j]].kind # "free"
        BY <2>2 DEF ChildOf
      <4> QED BY <4>1, <4>2, <1>2
    <3> QED BY <3>1, <3>2, <2>1
  <2>5. o \ {n} = {m \in Nodes : g[m].kind # "free" /\ \A q \in Nodes : ~ChildOf(t, m, q)}
    <3>1. ASSUME NEW m \in Nodes
          PROVE  m \in o \ {n} <=> g[m].kind # "free" /\ \A q \in Nodes : ~ChildOf(t, m, q)
      <4>1. m = n => ChildOf(t, m, p)
        BY <1>10
      <4>2. m # n => \A q \in Nodes : ChildOf(t, m, q) <=> ChildOf(s, m, q)
        BY <1>9, <1>10
      <4> QED BY <4>1, <4>2, <2>1, <2>2
    <3> QED BY <3>1, <2>2
  <2>6. ASSUME NEW m \in o \ {n}
        PROVE  g[m].next = NULL
    <3>1. m \in Nodes /\ ~ChildOf(s, m, p) /\ h[m].next = NULL
      BY <2>2
    <3>2. i > 1 => i - 1 \in 1 .. Len(u)
      BY <1>7
    <3>3. ~(i > 1 /\ m = u[i-1])
      BY <3>1, <3>2, <1>7 DEF ChildOf
    <3> QED BY <3>1, <3>3, <1>7 DEF IsPut
  <2> QED BY <2>3, <2>4, <2>5, <2>6 DEF Held
<1> QED BY <1>6, <1>11, <1>12, <1>13, <1>14 DEF Trees, Forest, t, v, u

\* The item at place i of u goes out.
IsTaken(h, g, u, p, i) ==
    \A m \in Nodes :
        /\ g[m].kind = h[m].kind /\ g[m].key = h[m].key
        /\ h[m].kind = "free" => g[m] = h[m]
        /\ g[m].child = IF m = p /\ i = 1 THEN IF Len(u) = 1 THEN NULL ELSE u[2] ELSE h[m].child
        /\ g[m].next = IF m = u[i] THEN NULL
                       ELSE IF i > 1 /\ m = u[i-1] THEN IF i = Len(u) THEN NULL ELSE u[i+1]
                       ELSE h[m].next
        /\ g[m].prev = IF m = u[i] THEN NULL
                       ELSE IF i < Len(u) /\ m = u[i+1] THEN IF i = 1 THEN u[Len(u)] ELSE u[i-1]
                       ELSE IF i = Len(u) /\ m = u[1] THEN u[i-1]
                       ELSE h[m].prev

\* Then the sequence is without it and the program holds it.
LEMMA TakeKeeps ==
    ASSUME NEW h, NEW s, NEW o, Trees(h, s, o), NEW p \in Nodes, NEW i \in 1 .. Len(s[p]),
           NEW g \in [Nodes -> Item], IsTaken(h, g, s[p], p, i)
    PROVE  Trees(g, [s EXCEPT ![p] = RemoveAt(@, i)], o \cup {s[p][i]})
<1> DEFINE u == s[p]
           v == RemoveAt(u, i)
           t == [s EXCEPT ![p] = v]
           x == u[i]
<1>1. /\ s \in [Nodes -> Seq(Nodes)] /\ Once(s) /\ Rooted(s) /\ Linked(h, s) /\ Held(h, s, o)
      /\ h \in [Nodes -> Item]
  BY DEF Trees, Forest
<1>2. \A q \in Nodes : /\ s[q] \in Seq(Nodes) /\ Len(s[q]) \in Nat
                      /\ \A j \in 1 .. Len(s[q]) : s[q][j] \in Nodes
  BY <1>1, LenProperties, ElementOfSeq
<1>3. /\ v \in Seq(Nodes) /\ Len(v) = Len(u) - 1
      /\ \A j \in 1 .. Len(u) - 1 : v[j] = IF j < i THEN u[j] ELSE u[j+1]
  <2>1. u \in Seq(Nodes) /\ i \in 1 .. Len(u)
    BY <1>2
  <2> HIDE DEF u
  <2>2. /\ RemoveAt(u, i) \in Seq(Nodes)
        /\ Len(RemoveAt(u, i)) = Len(u) - 1
        /\ \A j \in 1 .. Len(u) - 1 : RemoveAt(u, i)[j] = IF j < i THEN u[j] ELSE u[j+1]
    BY <2>1, RemoveAtIs
  <2> HIDE DEF v
  <2> QED BY <2>2 DEF v
<1>4. /\ t \in [Nodes -> Seq(Nodes)] /\ t[p] = v
      /\ \A q \in Nodes : q # p => t[q] = s[q]
  BY <1>1, <1>3
<1>5. u = s[p] /\ Len(u) \in Nat /\ i \in 1 .. Len(u)
  BY <1>2
<1>6. x = u[i] /\ x \in Nodes
  BY <1>2
<1> HIDE DEF u, v, t, x
<1>7. \A a, b \in 1 .. Len(u) : u[a] = u[b] => a = b
  <2> SUFFICES ASSUME NEW a \in 1 .. Len(s[p]), NEW b \in 1 .. Len(s[p]), s[p][a] = s[p][b]
               PROVE  a = b
    BY <1>5
  <2> QED BY <1>1 DEF Once
<1>8. \A j \in 1 .. Len(v) :
         \/ j < i /\ j \in 1 .. Len(u) /\ v[j] = u[j]
         \/ j >= i /\ j + 1 \in 1 .. Len(u) /\ v[j] = u[j+1]
  BY <1>3, <1>5
<1>9. \A m, q \in Nodes : ChildOf(t, m, q) => ChildOf(s, m, q) /\ m # x
  <2> SUFFICES ASSUME NEW m \in Nodes, NEW q \in Nodes, NEW j \in 1 .. Len(t[q]), t[q][j] = m
               PROVE  ChildOf(s, m, q) /\ m # x
    BY DEF ChildOf
  <2>1. CASE q = p
    <3>1. j \in 1 .. Len(v) /\ v[j] = m
      BY <2>1, <1>4
    <3>2. PICK a \in 1 .. Len(u) : a # i /\ u[a] = m
      <4>1. j >= i => j + 1 # i
        BY <3>1, <1>3, <1>5
      <4> QED BY SMTT(30), <3>1, <4>1, <1>8
    <3> QED BY <3>2, <2>1, <1>5, <1>6, <1>7 DEF ChildOf
  <2>2. CASE q # p
    <3>1. j \in 1 .. Len(s[q]) /\ s[q][j] = m
      BY <2>2, <1>4
    <3>2. m # x
      BY <3>1, <2>2, <1>1, <1>5, <1>6 DEF Once
    <3> QED BY <3>1, <3>2 DEF ChildOf
  <2> QED BY <2>1, <2>2
<1>10. \A m, q \in Nodes : ChildOf(s, m, q) /\ m # x => ChildOf(t, m, q)
  <2> SUFFICES ASSUME NEW m \in Nodes, NEW q \in Nodes, m # x,
                      NEW a \in 1 .. Len(s[q]), s[q][a] = m
               PROVE  ChildOf(t, m, q)
    BY DEF ChildOf
  <2>1. CASE q # p
    <3>1. a \in 1 .. Len(t[q]) /\ t[q][a] = m
      BY <2>1, <1>4
    <3> QED BY <3>1 DEF ChildOf
  <2>2. CASE q = p
    <3>1. a \in 1 .. Len(u) /\ u[a] = m /\ a # i
      BY <2>2, <1>5, <1>6
    <3>2. CASE a < i
      <4>1. a \in 1 .. Len(v) /\ v[a] = m
        BY <3>1, <3>2, <1>3, <1>5
      <4> QED BY <4>1, <2>2, <1>4 DEF ChildOf
    <3>3. CASE a > i
      <4>1. a - 1 \in 1 .. Len(v) /\ ~(a - 1 < i) /\ a - 1 + 1 = a
        BY <3>1, <3>3, <1>3, <1>5
      <4>2. v[a-1] = m
        BY <3>1, <4>1, <1>3
      <4> QED BY <4>1, <4>2, <2>2, <1>4 DEF ChildOf
    <3> QED BY <3>1, <3>2, <3>3, <1>5
  <2> QED BY <2>1, <2>2
<1>11. Once(t)
  <2> SUFFICES ASSUME NEW q \in Nodes, NEW r \in Nodes,
                      NEW j \in 1 .. Len(t[q]), NEW k \in 1 .. Len(t[r]), t[q][j] = t[r][k]
               PROVE  q = r /\ j = k
    BY DEF Once
  <2>1. q = r
    <3>1. t[q][j] \in Nodes /\ ChildOf(t, t[q][j], q) /\ ChildOf(t, t[r][k], r)
      BY <1>4, LenProperties, ElementOfSeq DEF ChildOf
    <3>2. ChildOf(s, t[q][j], q) /\ ChildOf(s, t[q][j], r)
      BY <3>1, <1>9
    <3>3. PICK a \in 1 .. Len(s[q]) : s[q][a] = t[q][j]
      BY <3>2 DEF ChildOf
    <3>4. PICK b \in 1 .. Len(s[r]) : s[r][b] = t[q][j]
      BY <3>2 DEF ChildOf
    <3> QED BY <3>3, <3>4, <1>1 DEF Once
  <2>2. CASE q = p
    <3>1. j \in 1 .. Len(v) /\ k \in 1 .. Len(v) /\ v[j] = v[k] /\ j \in Int /\ k \in Int /\ i \in Int
      BY <2>1, <2>2, <1>4, <1>3, <1>5
    <3>2. CASE j < i /\ k < i
      BY <3>1, <3>2, <1>8, <1>7, <2>1
    <3>3. CASE j < i /\ k >= i
      <4>1. j \in 1 .. Len(u) /\ k + 1 \in 1 .. Len(u) /\ u[j] = u[k+1]
        BY <3>1, <3>3, <1>8
      <4> QED BY <4>1, <3>1, <3>3, <1>7
    <3>4. CASE j >= i /\ k < i
      <4>1. j + 1 \in 1 .. Len(u) /\ k \in 1 .. Len(u) /\ u[j+1] = u[k]
        BY <3>1, <3>4, <1>8
      <4> QED BY <4>1, <3>1, <3>4, <1>7
    <3>5. CASE j >= i /\ k >= i
      <4>1. j + 1 \in 1 .. Len(u) /\ k + 1 \in 1 .. Len(u) /\ u[j+1] = u[k+1]
        BY <3>1, <3>5, <1>8
      <4> QED BY SMTT(30), <4>1, <3>1, <1>7, <2>1
    <3> QED BY <3>1, <3>2, <3>3, <3>4, <3>5
  <2>3. CASE q # p
    <3>1. j \in 1 .. Len(s[q]) /\ k \in 1 .. Len(s[q]) /\ s[q][j] = s[q][k]
      BY <2>1, <2>3, <1>4
    <3> QED BY <3>1, <2>1, <1>1 DEF Once
  <2> QED BY <2>2, <2>3
<1>12. Rooted(t)
  BY <1>1, <1>9, RootedShrinks
<1>13. Linked(g, t)
  <2> SUFFICES ASSUME NEW q \in Nodes
               PROVE  /\ g[q].child = First(t[q])
                      /\ \A j \in 1 .. Len(t[q]) :
                            /\ g[t[q][j]].next = IF j = Len(t[q]) THEN NULL ELSE t[q][j+1]
                            /\ g[t[q][j]].prev = IF j = 1 THEN t[q][Len(t[q])] ELSE t[q][j-1]
    BY DEF Linked
  <2>1. CASE q # p
    <3>1. g[q].child = First(s[q])
      BY <2>1, <1>1 DEF Linked, IsTaken
    <3>2. ASSUME NEW j \in 1 .. Len(s[q])
          PROVE  g[s[q][j]].next = h[s[q][j]].next /\ g[s[q][j]].prev = h[s[q][j]].prev
      <4>1. s[q][j] \in Nodes /\ \A a \in 1 .. Len(u) : s[q][j] # u[a]
        BY <2>1, <1>1, <1>2, <1>5 DEF Once
      <4>2. /\ i > 1 => i - 1 \in 1 .. Len(u)
            /\ i < Len(u) => i + 1 \in 1 .. Len(u)
            /\ 1 \in 1 .. Len(u) /\ i \in 1 .. Len(u)
        BY <1>5
      <4> QED BY SMTT(30), <4>1, <4>2, <1>5 DEF IsTaken
    <3>3. \A j \in 1 .. Len(s[q]) :
             /\ h[s[q][j]].next = IF j = Len(s[q]) THEN NULL ELSE s[q][j+1]
             /\ h[s[q][j]].prev = IF j = 1 THEN s[q][Len(s[q])] ELSE s[q][j-1]
      BY <1>1 DEF Linked
    <3>4. \A j \in 1 .. Len(s[q]) :
             /\ g[s[q][j]].next = IF j = Len(s[q]) THEN NULL ELSE s[q][j+1]
             /\ g[s[q][j]].prev = IF j = 1 THEN s[q][Len(s[q])] ELSE s[q][j-1]
      BY <3>2, <3>3
    <3>5. t[q] = s[q]
      BY <2>1, <1>4
    <3> QED BY <3>1, <3>4, <3>5
  <2>2. CASE q = p
    <3> DEFINE len == Len(u)
    <3>1. /\ h[p].child = First(u)
          /\ \A j \in 1 .. len :
                /\ h[u[j]].next = IF j = len THEN NULL ELSE u[j+1]
                /\ h[u[j]].prev = IF j = 1 THEN u[len] ELSE u[j-1]
      BY <1>1, <1>5 DEF Linked
    <3>2. \A a \in 1 .. len : u[a] \in Nodes
      BY <1>2, <1>5
    <3>3. len \in Nat /\ i \in 1 .. len /\ Len(v) = len - 1
      BY <1>3, <1>5
    <3>4. \A m \in Nodes :
            /\ g[m].next = IF m = u[i] THEN NULL
                           ELSE IF i > 1 /\ m = u[i-1] THEN IF i = len THEN NULL ELSE u[i+1]
                           ELSE h[m].next
            /\ g[m].prev = IF m = u[i] THEN NULL
                           ELSE IF i < len /\ m = u[i+1] THEN IF i = 1 THEN u[len] ELSE u[i-1]
                           ELSE IF i = len /\ m = u[1] THEN u[i-1]
                           ELSE h[m].prev
      BY <1>5 DEF IsTaken
    <3>5. \A j \in 1 .. len - 1 : v[j] = IF j < i THEN u[j] ELSE u[j+1]
      BY <1>3
    <3>6. \A a, b \in 1 .. len : u[a] = u[b] => a = b
      BY <1>7
    <3> HIDE DEF len
    <3>7. ASSUME NEW a \in 1 .. len, a # i
          PROVE  /\ g[u[a]].next = IF a = i - 1 THEN IF i = len THEN NULL ELSE u[i+1]
                                   ELSE IF a = len THEN NULL ELSE u[a+1]
                 /\ g[u[a]].prev = IF a = i + 1 THEN IF i = 1 THEN u[len] ELSE u[i-1]
                                   ELSE IF i = len /\ a = 1 THEN u[i-1]
                                   ELSE IF a = 1 THEN u[len] ELSE u[a-1]
      <4>1. u[a] # u[i] /\ u[a] \in Nodes
        BY <3>7, <3>2, <3>3, <3>6
      <4>2. i > 1 /\ u[a] = u[i-1] <=> a = i - 1
        <5>1. i > 1 => i - 1 \in 1 .. len
          BY <3>3
        <5>2. a = i - 1 => i > 1
          BY <3>3
        <5> QED BY <5>1, <5>2, <3>6
      <4>3. i < len /\ u[a] = u[i+1] <=> a = i + 1
        <5>1. i < len => i + 1 \in 1 .. len
          BY <3>3
        <5>2. a = i + 1 => i < len
          BY <3>3
        <5> QED BY <5>1, <5>2, <3>6
      <4>4. u[a] = u[1] <=> a = 1
        <5>1. 1 \in 1 .. len
          BY <3>3
        <5> QED BY <5>1, <3>6
      <4>5. /\ h[u[a]].next = IF a = len THEN NULL ELSE u[a+1]
            /\ h[u[a]].prev = IF a = 1 THEN u[len] ELSE u[a-1]
        BY <3>1
      <4>6. /\ g[u[a]].next = IF a = i - 1 THEN IF i = len THEN NULL ELSE u[i+1]
                              ELSE h[u[a]].next
            /\ g[u[a]].prev = IF a = i + 1 THEN IF i = 1 THEN u[len] ELSE u[i-1]
                              ELSE IF i = len /\ a = 1 THEN u[i-1]
                              ELSE h[u[a]].prev
        BY <3>4, <4>1, <4>2, <4>3, <4>4
      <4> QED BY <4>5, <4>6
    <3>8. ASSUME NEW j \in 1 .. len - 1
          PROVE  /\ g[v[j]].next = IF j = len - 1 THEN NULL ELSE v[j+1]
                 /\ g[v[j]].prev = IF j = 1 THEN v[len-1] ELSE v[j-1]
      <4>1. CASE j < i
        <5>1. v[j] = u[j] /\ j \in 1 .. len /\ j # i /\ j # i + 1 /\ j # len
          BY <4>1, <3>3, <3>5
        <5>2. /\ g[u[j]].next = IF j = i - 1 THEN IF i = len THEN NULL ELSE u[i+1] ELSE u[j+1]
              /\ g[u[j]].prev = IF i = len /\ j = 1 THEN u[i-1]
                                ELSE IF j = 1 THEN u[len] ELSE u[j-1]
          BY <5>1, <3>7
        <5>3. j # len - 1 => v[j+1] = IF j = i - 1 THEN u[i+1] ELSE u[j+1]
          <6> SUFFICES ASSUME j # len - 1
                       PROVE  v[j+1] = IF j = i - 1 THEN u[i+1] ELSE u[j+1]
            OBVIOUS
          <6>1. j + 1 \in 1 .. len - 1
            BY <3>3
          <6>2. v[j+1] = IF j + 1 < i THEN u[j+1] ELSE u[j+1+1]
            BY <6>1, <3>5
          <6>3. CASE j = i - 1
            <7>1. ~(j + 1 < i) /\ j + 1 + 1 = i + 1
              BY <6>3, <3>3
            <7> QED BY <6>2, <6>3, <7>1
          <6>4. CASE j # i - 1
            <7>1. j + 1 < i
              BY <6>4, <4>1, <3>3
            <7> QED BY <6>2, <6>4, <7>1
          <6> QED BY <6>3, <6>4
        <5>4. j = i - 1 => (i = len <=> j = len - 1)
          BY <3>3
        <5>5. j = len - 1 => j = i - 1
          BY <4>1, <3>3
        <5>6. v[len-1] = IF i = len THEN u[i-1] ELSE u[len]
          <6>1. len - 1 \in 1 .. len - 1 /\ (len - 1 < i <=> i = len) /\ len - 1 + 1 = len
            BY <3>3
          <6> QED BY <6>1, <3>5
        <5>7. j # 1 => v[j-1] = u[j-1]
          BY <4>1, <3>3, <3>5
        <5> QED BY <5>1, <5>2, <5>3, <5>4, <5>5, <5>6, <5>7
      <4>2. CASE j >= i
        <5>1. v[j] = u[j+1] /\ j + 1 \in 1 .. len /\ j + 1 # i /\ j + 1 # i - 1 /\ j + 1 # 1 /\ i # len
          BY <4>2, <3>3, <3>5
        <5>2. /\ g[u[j+1]].next = IF j + 1 = len THEN NULL ELSE u[j+1+1]
              /\ g[u[j+1]].prev = IF j + 1 = i + 1 THEN IF i = 1 THEN u[len] ELSE u[i-1]
                                  ELSE u[j+1-1]
          BY <5>1, <3>7
        <5>3. j + 1 = len <=> j = len - 1
          BY <3>3
        <5>4. j # len - 1 => v[j+1] = u[j+1+1]
          <6> SUFFICES ASSUME j # len - 1 PROVE v[j+1] = u[j+1+1]
            OBVIOUS
          <6>1. j + 1 \in 1 .. len - 1 /\ ~(j + 1 < i)
            BY <4>2, <3>3
          <6> QED BY <6>1, <3>5
        <5>5. v[len-1] = u[len]
          <6>1. len - 1 \in 1 .. len - 1 /\ ~(len - 1 < i) /\ len - 1 + 1 = len
            BY <4>2, <3>3
          <6> QED BY <6>1, <3>5
        <5>6. CASE j = i
          <6>1. j # 1 => v[j-1] = u[i-1]
            BY <5>6, <3>3, <3>5
          <6> QED BY <6>1, <5>1, <5>2, <5>3, <5>4, <5>5, <5>6
        <5>7. CASE j # i
          <6>1. j - 1 \in 1 .. len - 1 /\ ~(j - 1 < i) /\ j - 1 + 1 = j /\ j # 1 /\ j + 1 # i + 1 /\ j + 1 - 1 = j
            BY <4>2, <5>7, <3>3
          <6>2. v[j-1] = u[j]
            BY <6>1, <3>5
          <6> QED BY <6>1, <6>2, <5>1, <5>2, <5>3, <5>4
        <5> QED BY <5>6, <5>7
      <4> QED BY <4>1, <4>2, <3>3
    <3>9. g[p].child = First(v)
      <4>1. CASE i # 1
        <5>1. 1 \in 1 .. len - 1 /\ 1 < i /\ len # 0 /\ Len(v) # 0
          BY <4>1, <3>3
        <5>2. v[1] = u[1]
          BY <5>1, <3>5
        <5>3. g[p].child = h[p].child
          BY <4>1, <1>5 DEF IsTaken
        <5> QED BY <5>1, <5>2, <5>3, <3>1 DEF First, len
      <4>2. CASE i = 1
        <5>1. Len(v) = 0 <=> len = 1
          BY <3>3
        <5>2. Len(v) # 0 => v[1] = u[2]
          <6>1. Len(v) # 0 => 1 \in 1 .. len - 1
            BY <3>3
          <6>2. ~(1 < i) /\ 1 + 1 = 2
            BY <4>2
          <6> QED BY <6>1, <6>2, <3>5
        <5>3. g[p].child = IF len = 1 THEN NULL ELSE u[2]
          BY <4>2, <1>5 DEF IsTaken, len
        <5> QED BY <5>1, <5>2, <5>3 DEF First
      <4> QED BY <4>1, <4>2
    <3> QED BY ZenonT(30), <3>3, <3>8, <3>9, <2>2, <1>4
  <2> QED BY <2>1, <2>2
<1>14. Held(g, t, o \cup {x})
  <2>1. \A m \in Nodes : g[m].kind = h[m].kind /\ (h[m].kind = "free" => g[m] = h[m])
    BY DEF IsTaken
  <2>2. /\ \A m \in Nodes : h[m].kind = "free" => h[m] = FreeItem
        /\ \A q \in Nodes : \A j \in 1 .. Len(s[q]) : h[s[q][j]].kind # "free"
        /\ o = {m \in Nodes : h[m].kind # "free" /\ \A q \in Nodes : ~ChildOf(s, m, q)}
        /\ \A m \in o : h[m].next = NULL
    BY <1>1 DEF Held
  <2>3. \A m \in Nodes : g[m].kind = "free" => g[m] = FreeItem
    BY <2>1, <2>2
  <2>4. ASSUME NEW q \in Nodes, NEW j \in 1 .. Len(t[q])
        PROVE  g[t[q][j]].kind # "free"
    <3>1. t[q][j] \in Nodes /\ ChildOf(t, t[q][j], q)
      BY <1>4, LenProperties, ElementOfSeq DEF ChildOf
    <3>2. ChildOf(s, t[q][j], q)
      BY <3>1, <1>9
    <3>3. h[t[q][j]].kind # "free"
      BY <3>2, <2>2 DEF ChildOf
    <3> QED BY <3>1, <3>3, <2>1
  <2>5. o \cup {x} = {m \in Nodes : g[m].kind # "free" /\ \A q \in Nodes : ~ChildOf(t, m, q)}
    <3>1. ASSUME NEW m \in Nodes
          PROVE  m \in o \cup {x} <=> g[m].kind # "free" /\ \A q \in Nodes : ~ChildOf(t, m, q)
      <4>1. h[x].kind # "free" /\ \A q \in Nodes : ~ChildOf(t, x, q)
        BY <2>2, <1>5, <1>6, <1>9
      <4>2. m # x => \A q \in Nodes : ChildOf(t, m, q) <=> ChildOf(s, m, q)
        BY <1>9, <1>10
      <4> QED BY <4>1, <4>2, <2>1, <2>2
    <3> QED BY <3>1, <2>2, <1>6
  <2>6. ASSUME NEW m \in o \cup {x}
        PROVE  g[m].next = NULL
    <3>1. CASE m = x
      BY <3>1, <1>5, <1>6 DEF IsTaken
    <3>2. CASE m \in o /\ m # x
      <4>1. m \in Nodes /\ ~ChildOf(s, m, p) /\ h[m].next = NULL
        BY <3>2, <2>2
      <4>2. i > 1 => i - 1 \in 1 .. Len(u)
        BY <1>5
      <4>3. ~(i > 1 /\ m = u[i-1])
        BY <4>1, <4>2, <1>5 DEF ChildOf
      <4> QED BY <3>2, <4>1, <4>3, <1>5, <1>6 DEF IsTaken
    <3> QED BY <3>1, <3>2
  <2> QED BY <2>3, <2>4, <2>5, <2>6 DEF Held
<1> QED BY <1>4, <1>11, <1>12, <1>13, <1>14 DEF Trees, Forest, t, v, u, x

-----------------------------------------------------------------------------
(* What the operators of the heap do                                       *)

\* An assignment to a field changes that field of that item.
LEMMA NextSet ==
    ASSUME NEW h \in [Nodes -> Item], NEW a \in Nodes, NEW x \in Links
    PROVE  LET g == [h EXCEPT ![a].next = x] IN
           /\ g \in [Nodes -> Item]
           /\ \A m \in Nodes : /\ m # a => g[m] = h[m]
                               /\ g[m].next = IF m = a THEN x ELSE h[m].next
                               /\ g[m].prev = h[m].prev /\ g[m].child = h[m].child
                               /\ g[m].kind = h[m].kind /\ g[m].key = h[m].key
  BY DEF Item

\* The same for prev.
LEMMA PrevSet ==
    ASSUME NEW h \in [Nodes -> Item], NEW a \in Nodes, NEW x \in Links
    PROVE  LET g == [h EXCEPT ![a].prev = x] IN
           /\ g \in [Nodes -> Item]
           /\ \A m \in Nodes : /\ m # a => g[m] = h[m]
                               /\ g[m].prev = IF m = a THEN x ELSE h[m].prev
                               /\ g[m].next = h[m].next /\ g[m].child = h[m].child
                               /\ g[m].kind = h[m].kind /\ g[m].key = h[m].key
  BY DEF Item

\* The same for child.
LEMMA ChildSet ==
    ASSUME NEW h \in [Nodes -> Item], NEW a \in Nodes, NEW x \in Links
    PROVE  LET g == [h EXCEPT ![a].child = x] IN
           /\ g \in [Nodes -> Item]
           /\ \A m \in Nodes : /\ m # a => g[m] = h[m]
                               /\ g[m].child = IF m = a THEN x ELSE h[m].child
                               /\ g[m].next = h[m].next /\ g[m].prev = h[m].prev
                               /\ g[m].kind = h[m].kind /\ g[m].key = h[m].key
  BY DEF Item

\* The same for the name.
LEMMA KeySet ==
    ASSUME NEW h \in [Nodes -> Item], NEW a \in Nodes, NEW x \in Keys \cup {NoKey}
    PROVE  LET g == [h EXCEPT ![a].key = x] IN
           /\ g \in [Nodes -> Item]
           /\ \A m \in Nodes : /\ m # a => g[m] = h[m]
                               /\ g[m].key = IF m = a THEN x ELSE h[m].key
                               /\ g[m].next = h[m].next /\ g[m].prev = h[m].prev
                               /\ g[m].kind = h[m].kind /\ g[m].child = h[m].child
  BY DEF Item

\* What the program may assume of a list that it reads.
LEMMA ListIs ==
    ASSUME NEW h, NEW s, NEW o, Trees(h, s, o), NEW p \in Nodes
    PROVE  /\ h \in [Nodes -> Item] /\ s[p] \in Seq(Nodes) /\ Len(s[p]) \in Nat
           /\ Children(h, p) = s[p] /\ DOMAIN s[p] = 1 .. Len(s[p])
           /\ h[p].child = First(s[p])
           /\ \A i \in 1 .. Len(s[p]) :
                 /\ s[p][i] \in Nodes /\ s[p][i] # NULL /\ s[p][i] # p
                 /\ h[s[p][i]].kind # "free" /\ s[p][i] \notin o
                 /\ h[s[p][i]].next = IF i = Len(s[p]) THEN NULL ELSE s[p][i+1]
                 /\ h[s[p][i]].prev = IF i = 1 THEN s[p][Len(s[p])] ELSE s[p][i-1]
           /\ \A i, j \in 1 .. Len(s[p]) : s[p][i] = s[p][j] => i = j
<1>1. /\ s \in [Nodes -> Seq(Nodes)] /\ Once(s) /\ Rooted(s) /\ Linked(h, s) /\ Held(h, s, o)
      /\ h \in [Nodes -> Item]
  BY DEF Trees, Forest
<1>2. s[p] \in Seq(Nodes) /\ Len(s[p]) \in Nat /\ \A i \in 1 .. Len(s[p]) : s[p][i] \in Nodes
  BY <1>1, LenProperties, ElementOfSeq
<1>3. Children(h, p) = s[p]
  <2>1. Kids(h) = s
    BY KidsAre DEF Trees
  <2> QED BY <2>1 DEF Kids
<1>4. \A i \in 1 .. Len(s[p]) : s[p][i] # p
  <2>1. ~ChildOf(s, p, p)
    BY <1>1, NotBelowItself, BelowIs
  <2> QED BY <2>1 DEF ChildOf
<1>5. /\ h[p].child = First(s[p])
      /\ \A i \in 1 .. Len(s[p]) :
            /\ h[s[p][i]].next = IF i = Len(s[p]) THEN NULL ELSE s[p][i+1]
            /\ h[s[p][i]].prev = IF i = 1 THEN s[p][Len(s[p])] ELSE s[p][i-1]
  BY <1>1 DEF Linked
<1>6. \A i \in 1 .. Len(s[p]) : h[s[p][i]].kind # "free" /\ s[p][i] \notin o
  BY <1>1, <1>2 DEF Held, ChildOf
<1>7. \A i, j \in 1 .. Len(s[p]) : s[p][i] = s[p][j] => i = j
  BY <1>1 DEF Once
<1>8. DOMAIN s[p] = 1 .. Len(s[p]) /\ NULL \notin Nodes
  BY <1>2, LenProperties, ListAssumption
<1> QED BY ZenonT(30), <1>1, <1>2, <1>3, <1>4, <1>5, <1>6, <1>7, <1>8

\* cJSON_DetachItemViaPointer takes the item out of the list.
LEMMA DetachIs ==
    ASSUME NEW h, NEW s, NEW o, Trees(h, s, o), NEW p \in Nodes, NEW i \in 1 .. Len(s[p])
    PROVE  LET g == cJSON_DetachItemViaPointer(h, p, s[p][i]) IN
           g \in [Nodes -> Item] /\ IsTaken(h, g, s[p], p, i)
<1> DEFINE u == s[p]
           len == Len(u)
           next == IF i = len THEN NULL ELSE u[i+1]
           prev == IF i = 1 THEN u[len] ELSE u[i-1]
           h1 == IF u[i] # u[1] THEN [h EXCEPT ![prev].next = next] ELSE h
           h2 == IF next # NULL THEN [h1 EXCEPT ![next].prev = prev] ELSE h1
           h3 == IF u[i] = u[1] THEN [h2 EXCEPT ![p].child = next]
                 ELSE IF next = NULL THEN [h2 EXCEPT ![u[1]].prev = prev]
                 ELSE h2
           h4 == [h3 EXCEPT ![u[i]].prev = NULL]
           g == [h4 EXCEPT ![u[i]].next = NULL]
<1>1. /\ h \in [Nodes -> Item] /\ len \in Nat /\ i \in 1 .. len
      /\ h[p].child = First(u)
      /\ \A j \in 1 .. len :
            /\ u[j] \in Nodes /\ u[j] # NULL /\ h[u[j]].kind # "free"
            /\ h[u[j]].next = IF j = len THEN NULL ELSE u[j+1]
            /\ h[u[j]].prev = IF j = 1 THEN u[len] ELSE u[j-1]
      /\ \A j, k \in 1 .. len : u[j] = u[k] => j = k
  BY ListIs
<1>2. h[p].child = u[1] /\ h[u[i]].next = next /\ h[u[i]].prev = prev
  BY <1>1 DEF First
<1>3. cJSON_DetachItemViaPointer(h, p, s[p][i]) = g
  <2> HIDE DEF next, prev
  <2> QED BY <1>2 DEF cJSON_DetachItemViaPointer
<1> HIDE DEF u, len
<1>4. 1 \in 1 .. len /\ len \in 1 .. len /\ (i # 1 => i - 1 \in 1 .. len) /\ (i # len => i + 1 \in 1 .. len)
  BY <1>1
<1>5. /\ u[i] # u[1] <=> i # 1
      /\ u[i] \in Nodes /\ u[1] \in Nodes /\ prev \in Nodes
      /\ next # NULL <=> i # len
      /\ i # len => next = u[i+1] /\ next \in Nodes
      /\ next \in Links /\ prev \in Links /\ NULL \in Links
  BY <1>1, <1>4 DEF Links
<1> HIDE DEF next, prev
<1>6. /\ h1 \in [Nodes -> Item]
      /\ \A m \in Nodes :
            /\ m # prev => h1[m] = h[m]
            /\ h1[m].next = IF i # 1 /\ m = prev THEN next ELSE h[m].next
            /\ h1[m].prev = h[m].prev /\ h1[m].child = h[m].child
            /\ h1[m].kind = h[m].kind /\ h1[m].key = h[m].key
  BY <1>1, <1>5, NextSet
<1> HIDE DEF h1
<1>7. /\ h2 \in [Nodes -> Item]
      /\ \A m \in Nodes :
            /\ m # next => h2[m] = h1[m]
            /\ h2[m].prev = IF i # len /\ m = next THEN prev ELSE h1[m].prev
            /\ h2[m].next = h1[m].next /\ h2[m].child = h1[m].child
            /\ h2[m].kind = h1[m].kind /\ h2[m].key = h1[m].key
  BY <1>5, <1>6, PrevSet
<1> HIDE DEF h2
<1>8. /\ h3 \in [Nodes -> Item]
      /\ \A m \in Nodes :
            /\ m # p /\ m # u[1] => h3[m] = h2[m]
            /\ h3[m].child = IF i = 1 /\ m = p THEN next ELSE h2[m].child
            /\ h3[m].prev = IF i # 1 /\ i = len /\ m = u[1] THEN prev ELSE h2[m].prev
            /\ h3[m].next = h2[m].next /\ h3[m].kind = h2[m].kind /\ h3[m].key = h2[m].key
  <2>1. CASE i = 1
    BY <2>1, <1>5, <1>7, ChildSet
  <2>2. CASE i # 1
    BY <2>2, <1>5, <1>7, PrevSet
  <2> QED BY <2>1, <2>2
<1> HIDE DEF h3
<1>9. /\ h4 \in [Nodes -> Item]
      /\ \A m \in Nodes :
            /\ m # u[i] => h4[m] = h3[m]
            /\ h4[m].prev = IF m = u[i] THEN NULL ELSE h3[m].prev
            /\ h4[m].next = h3[m].next /\ h4[m].child = h3[m].child
            /\ h4[m].kind = h3[m].kind /\ h4[m].key = h3[m].key
  BY <1>5, <1>8, PrevSet
<1> HIDE DEF h4
<1>10. /\ g \in [Nodes -> Item]
       /\ \A m \in Nodes :
             /\ m # u[i] => g[m] = h4[m]
             /\ g[m].next = IF m = u[i] THEN NULL ELSE h4[m].next
             /\ g[m].prev = h4[m].prev /\ g[m].child = h4[m].child
             /\ g[m].kind = h4[m].kind /\ g[m].key = h4[m].key
  BY <1>5, <1>9, NextSet
<1> HIDE DEF g
<1>11. IsTaken(h, g, u, p, i)
  <2> SUFFICES ASSUME NEW m \in Nodes
               PROVE  /\ g[m].kind = h[m].kind /\ g[m].key = h[m].key
                      /\ h[m].kind = "free" => g[m] = h[m]
                      /\ g[m].child = IF m = p /\ i = 1 THEN IF len = 1 THEN NULL ELSE u[2]
                                      ELSE h[m].child
                      /\ g[m].next = IF m = u[i] THEN NULL
                                     ELSE IF i > 1 /\ m = u[i-1] THEN IF i = len THEN NULL ELSE u[i+1]
                                     ELSE h[m].next
                      /\ g[m].prev = IF m = u[i] THEN NULL
                                     ELSE IF i < len /\ m = u[i+1] THEN IF i = 1 THEN u[len] ELSE u[i-1]
                                     ELSE IF i = len /\ m = u[1] THEN u[i-1]
                                     ELSE h[m].prev
    BY DEF IsTaken, len
  <2>1. g[m].kind = h[m].kind /\ g[m].key = h[m].key
    BY <1>6, <1>7, <1>8, <1>9, <1>10
  <2>2. h[m].kind = "free" => g[m] = h[m]
    <3> SUFFICES ASSUME h[m].kind = "free" PROVE g[m] = h[m]
      OBVIOUS
    <3>1. m # u[i] /\ m # u[1] /\ m # prev /\ (i # len => m # next)
      BY <1>1, <1>4 DEF prev, next
    <3>2. m # p
      <4>1. h[p].kind = "free" => h[p] = FreeItem
        BY DEF Trees, Held
      <4> QED BY <4>1, <1>1, <1>2, <1>4 DEF FreeItem
    <3>3. m # next
      BY <3>1, <1>5, ListAssumption
    <3> QED BY <3>1, <3>2, <3>3, <1>6, <1>7, <1>8, <1>9, <1>10
  <2>3. g[m].child = IF m = p /\ i = 1 THEN IF len = 1 THEN NULL ELSE u[2] ELSE h[m].child
    <3>1. i = 1 => next = IF len = 1 THEN NULL ELSE u[2]
      <4>1. i = 1 => i + 1 = 2
        OBVIOUS
      <4> QED BY <4>1 DEF next
    <3> QED BY <3>1, <1>6, <1>7, <1>8, <1>9, <1>10
  <2>4. i > 1 <=> i # 1
    BY <1>1
  <2>5. g[m].next = IF m = u[i] THEN NULL
                    ELSE IF i > 1 /\ m = u[i-1] THEN IF i = len THEN NULL ELSE u[i+1]
                    ELSE h[m].next
    <3>1. g[m].next = IF m = u[i] THEN NULL
                      ELSE IF i # 1 /\ m = prev THEN next
                      ELSE h[m].next
      BY <1>6, <1>7, <1>8, <1>9, <1>10
    <3> QED BY <3>1, <2>4 DEF prev, next
  <2>6. g[m].prev = IF m = u[i] THEN NULL
                    ELSE IF i < len /\ m = u[i+1] THEN IF i = 1 THEN u[len] ELSE u[i-1]
                    ELSE IF i = len /\ m = u[1] THEN u[i-1]
                    ELSE h[m].prev
    <3>1. g[m].prev = IF m = u[i] THEN NULL
                      ELSE IF i # 1 /\ i = len /\ m = u[1] THEN prev
                      ELSE IF i # len /\ m = next THEN prev
                      ELSE h[m].prev
      BY <1>6, <1>7, <1>8, <1>9, <1>10
    <3>2. i < len <=> i # len
      BY <1>1
    <3>3. i = 1 /\ m = u[1] => m = u[i]
      OBVIOUS
    <3> QED BY <3>1, <3>2, <3>3 DEF prev, next
  <2> QED BY <2>1, <2>2, <2>3, <2>5, <2>6
<1> QED BY <1>3, <1>10, <1>11 DEF u

\* What the program may assume of an item that it places.
LEMMA PlacedIs ==
    ASSUME NEW h, NEW s, NEW o, Trees(h, s, o), NEW n \in o, NEW p \in Nodes,
           h[p].kind # "free", p \notin Below(s, n)
    PROVE  /\ n \in Nodes /\ n # NULL /\ n # p /\ h[n].next = NULL /\ h[n].kind # "free"
           /\ \A q \in Nodes : ~ChildOf(s, n, q)
<1>1. n \in Nodes /\ h[n].next = NULL /\ h[n].kind # "free" /\ \A q \in Nodes : ~ChildOf(s, n, q)
  BY DEF Trees, Held
<1>2. n # p
  BY <1>1, BelowIs
<1> QED BY <1>1, <1>2, ListAssumption

\* add_item_to_array puts the item at the end of the list.
LEMMA AddIs ==
    ASSUME NEW h, NEW s, NEW o, Trees(h, s, o), NEW n \in o, NEW p \in Nodes,
           h[p].kind # "free", p \notin Below(s, n)
    PROVE  LET g == add_item_to_array(h, p, n) IN
           g \in [Nodes -> Item] /\ IsPut(h, g, s[p], p, Len(s[p]) + 1, n)
<1> DEFINE u == s[p]
           len == Len(u)
           g == add_item_to_array(h, p, n)
<1>1. /\ h \in [Nodes -> Item] /\ len \in Nat
      /\ h[p].child = First(u)
      /\ \A j \in 1 .. len :
            /\ u[j] \in Nodes /\ u[j] # NULL /\ h[u[j]].kind # "free" /\ u[j] # n
            /\ h[u[j]].prev = IF j = 1 THEN u[len] ELSE u[j-1]
  BY ListIs
<1>2. n \in Nodes /\ n # p /\ h[n].next = NULL /\ h[n].kind # "free"
  BY PlacedIs
<1> HIDE DEF u, len
<1>3. n \in Links /\ NULL \in Links
  BY <1>2 DEF Links
<1> SUFFICES /\ g \in [Nodes -> Item]
             /\ \A m \in Nodes :
                /\ g[m].kind = h[m].kind /\ g[m].key = h[m].key
                /\ h[m].kind = "free" => g[m] = h[m]
                /\ g[m].child = IF m = p /\ len + 1 = 1 THEN n ELSE h[m].child
                /\ g[m].next = IF m = n THEN NULL
                               ELSE IF len + 1 > 1 /\ m = u[len+1-1] THEN n
                               ELSE h[m].next
                /\ g[m].prev = IF m = n THEN IF len = 0 THEN n ELSE IF len + 1 = 1 THEN u[len] ELSE u[len+1-1]
                               ELSE IF len > 0 /\ m = u[1] THEN n
                               ELSE h[m].prev
  BY DEF IsPut, u, len
<1>4. CASE len = 0
  <2> DEFINE h1 == [h EXCEPT ![p].child = n]
             h2 == [h1 EXCEPT ![n].prev = n]
             h3 == [h2 EXCEPT ![n].next = NULL]
  <2>1. g = h3
    BY <1>1, <1>4 DEF add_item_to_array, First, len
  <2>2. /\ h1 \in [Nodes -> Item]
        /\ \A m \in Nodes :
              /\ m # p => h1[m] = h[m]
              /\ h1[m].child = IF m = p THEN n ELSE h[m].child
              /\ h1[m].next = h[m].next /\ h1[m].prev = h[m].prev
              /\ h1[m].kind = h[m].kind /\ h1[m].key = h[m].key
    BY <1>1, <1>2, <1>3, ChildSet
  <2> HIDE DEF h1
  <2>3. /\ h2 \in [Nodes -> Item]
        /\ \A m \in Nodes :
              /\ m # n => h2[m] = h1[m]
              /\ h2[m].prev = IF m = n THEN n ELSE h1[m].prev
              /\ h2[m].next = h1[m].next /\ h2[m].child = h1[m].child
              /\ h2[m].kind = h1[m].kind /\ h2[m].key = h1[m].key
    BY <2>2, <1>2, <1>3, PrevSet
  <2> HIDE DEF h2
  <2>4. /\ h3 \in [Nodes -> Item]
        /\ \A m \in Nodes :
              /\ m # n => h3[m] = h2[m]
              /\ h3[m].next = IF m = n THEN NULL ELSE h2[m].next
              /\ h3[m].prev = h2[m].prev /\ h3[m].child = h2[m].child
              /\ h3[m].kind = h2[m].kind /\ h3[m].key = h2[m].key
    BY <2>3, <1>2, <1>3, NextSet
  <2> HIDE DEF h3, g
  <2>5. len + 1 = 1 /\ ~(len + 1 > 1) /\ ~(len > 0)
    BY <1>4
  <2> QED BY <2>1, <2>2, <2>3, <2>4, <2>5, <1>2, <1>4
<1>5. CASE len # 0
  <2> DEFINE h1 == [h EXCEPT ![u[len]].next = n]
             h2 == [h1 EXCEPT ![n].prev = u[len]]
             h3 == [h2 EXCEPT ![u[1]].prev = n]
  <2>1. 1 \in 1 .. len /\ len \in 1 .. len /\ len + 1 # 1 /\ len + 1 > 1 /\ len > 0 /\ len + 1 - 1 = len
    BY <1>1, <1>5
  <2>2. /\ h[p].child = u[1] /\ u[1] # NULL /\ h[u[1]].prev = u[len] /\ u[len] \in Links
        /\ u[1] \in Nodes /\ u[len] \in Nodes /\ u[1] # n /\ u[len] # n
        /\ h[u[1]].kind # "free" /\ h[u[len]].kind # "free"
    BY <1>1, <1>5, <2>1 DEF First, Links, len
  <2>3. g = h3
    BY <2>2 DEF add_item_to_array, suffix_object
  <2>4. /\ h1 \in [Nodes -> Item]
        /\ \A m \in Nodes :
              /\ m # u[len] => h1[m] = h[m]
              /\ h1[m].next = IF m = u[len] THEN n ELSE h[m].next
              /\ h1[m].prev = h[m].prev /\ h1[m].child = h[m].child
              /\ h1[m].kind = h[m].kind /\ h1[m].key = h[m].key
    BY <1>1, <2>2, <1>3, NextSet
  <2> HIDE DEF h1
  <2>5. /\ h2 \in [Nodes -> Item]
        /\ \A m \in Nodes :
              /\ m # n => h2[m] = h1[m]
              /\ h2[m].prev = IF m = n THEN u[len] ELSE h1[m].prev
              /\ h2[m].next = h1[m].next /\ h2[m].child = h1[m].child
              /\ h2[m].kind = h1[m].kind /\ h2[m].key = h1[m].key
    BY <2>4, <2>2, <1>2, PrevSet
  <2> HIDE DEF h2
  <2>6. /\ h3 \in [Nodes -> Item]
        /\ \A m \in Nodes :
              /\ m # u[1] => h3[m] = h2[m]
              /\ h3[m].prev = IF m = u[1] THEN n ELSE h2[m].prev
              /\ h3[m].next = h2[m].next /\ h3[m].child = h2[m].child
              /\ h3[m].kind = h2[m].kind /\ h3[m].key = h2[m].key
    BY <2>5, <2>2, <1>3, PrevSet
  <2> HIDE DEF h3, g
  <2> QED BY <2>1, <2>2, <2>3, <2>4, <2>5, <2>6, <1>2
<1> QED BY <1>4, <1>5

\* cJSON_InsertItemInArray puts it before the item that was at the place.
LEMMA InsertIs ==
    ASSUME NEW h, NEW s, NEW o, Trees(h, s, o), NEW n \in o, NEW p \in Nodes,
           h[p].kind # "free", p \notin Below(s, n), NEW which \in 0 .. Len(s[p])
    PROVE  LET g == cJSON_InsertItemInArray(h, p, which, n) IN
           g \in [Nodes -> Item] /\ IsPut(h, g, s[p], p, which + 1, n)
<1> DEFINE u == s[p]
           len == Len(u)
           i == which + 1
           g == cJSON_InsertItemInArray(h, p, which, n)
<1>1. /\ h \in [Nodes -> Item] /\ len \in Nat /\ which \in 0 .. len /\ Children(h, p) = u
      /\ h[p].child = First(u)
      /\ \A j \in 1 .. len :
            /\ u[j] \in Nodes /\ u[j] # NULL /\ h[u[j]].kind # "free" /\ u[j] # n
            /\ h[u[j]].prev = IF j = 1 THEN u[len] ELSE u[j-1]
      /\ \A j, k \in 1 .. len : u[j] = u[k] => j = k
  BY ListIs
<1>2. n \in Nodes /\ n # p /\ h[n].kind # "free"
  BY PlacedIs
<1>3. CASE which = len
  <2>1. get_array_item(h, p, which) = NULL
    <3> HIDE DEF u
    <3> QED BY <1>1, <1>3 DEF get_array_item
  <2>2. g = add_item_to_array(h, p, n)
    BY <2>1 DEF cJSON_InsertItemInArray
  <2>3. g \in [Nodes -> Item] /\ IsPut(h, g, s[p], p, len + 1, n)
    BY <2>2, AddIs
  <2> QED BY <2>3, <1>3
<1>4. CASE which # len
  <2> DEFINE before == IF i = 1 THEN u[len] ELSE u[i-1]
             h1 == [h EXCEPT ![n].next = u[i]]
             h2 == [h1 EXCEPT ![n].prev = before]
             h3 == [h2 EXCEPT ![u[i]].prev = n]
             h4 == IF i = 1 THEN [h3 EXCEPT ![p].child = n] ELSE [h3 EXCEPT ![before].next = n]
  <2> HIDE DEF u, len
  <2>1. i \in 1 .. len /\ 1 \in 1 .. len /\ len \in 1 .. len /\ which < len /\ (i # 1 => i - 1 \in 1 .. len)
    BY <1>1, <1>4
  <2>2. /\ u[i] \in Nodes /\ u[i] \in Links /\ u[i] # n /\ h[u[i]].kind # "free" /\ h[u[i]].prev = before
        /\ before \in Nodes /\ before \in Links /\ before # n /\ h[before].kind # "free"
        /\ n \in Links /\ u[i] # NULL
    BY <1>1, <1>2, <2>1 DEF Links
  <2>3. h[p].child = u[1] /\ (u[i] = u[1] <=> i = 1)
    BY <1>1, <2>1 DEF First, len
  <2>4. get_array_item(h, p, which) = u[i]
    BY <1>1, <2>1 DEF get_array_item, len
  <2>5. g = h4
    <3> HIDE DEF i, before
    <3> QED BY <2>2, <2>3, <2>4 DEF cJSON_InsertItemInArray
  <2> HIDE DEF g, i, before
  <2>6. /\ h1 \in [Nodes -> Item]
        /\ \A m \in Nodes :
              /\ m # n => h1[m] = h[m]
              /\ h1[m].next = IF m = n THEN u[i] ELSE h[m].next
              /\ h1[m].prev = h[m].prev /\ h1[m].child = h[m].child
              /\ h1[m].kind = h[m].kind /\ h1[m].key = h[m].key
    BY <1>1, <1>2, <2>2, NextSet
  <2> HIDE DEF h1
  <2>7. /\ h2 \in [Nodes -> Item]
        /\ \A m \in Nodes :
              /\ m # n => h2[m] = h1[m]
              /\ h2[m].prev = IF m = n THEN before ELSE h1[m].prev
              /\ h2[m].next = h1[m].next /\ h2[m].child = h1[m].child
              /\ h2[m].kind = h1[m].kind /\ h2[m].key = h1[m].key
    BY <2>6, <2>2, <1>2, PrevSet
  <2> HIDE DEF h2
  <2>8. /\ h3 \in [Nodes -> Item]
        /\ \A m \in Nodes :
              /\ m # u[i] => h3[m] = h2[m]
              /\ h3[m].prev = IF m = u[i] THEN n ELSE h2[m].prev
              /\ h3[m].next = h2[m].next /\ h3[m].child = h2[m].child
              /\ h3[m].kind = h2[m].kind /\ h3[m].key = h2[m].key
    BY <2>7, <2>2, PrevSet
  <2> HIDE DEF h3
  <2>9. /\ h4 \in [Nodes -> Item]
        /\ \A m \in Nodes :
              /\ m # p /\ m # before => h4[m] = h3[m]
              /\ h4[m].child = IF m = p /\ i = 1 THEN n ELSE h3[m].child
              /\ h4[m].next = IF i # 1 /\ m = before THEN n ELSE h3[m].next
              /\ h4[m].prev = h3[m].prev /\ h4[m].kind = h3[m].kind /\ h4[m].key = h3[m].key
    <3>1. CASE i = 1
      BY <3>1, <2>8, <2>2, ChildSet
    <3>2. CASE i # 1
      BY <3>2, <2>8, <2>2, NextSet
    <3> QED BY <3>1, <3>2
  <2> HIDE DEF h4
  <2>10. \A m \in Nodes :
            /\ g[m].kind = h[m].kind /\ g[m].key = h[m].key
            /\ h[m].kind = "free" => g[m] = h[m]
            /\ g[m].child = IF m = p /\ i = 1 THEN n ELSE h[m].child
            /\ g[m].next = IF m = n THEN u[i] ELSE IF i # 1 /\ m = before THEN n ELSE h[m].next
            /\ g[m].prev = IF m = n THEN before ELSE IF m = u[i] THEN n ELSE h[m].prev
    BY <2>2, <2>5, <2>6, <2>7, <2>8, <2>9, <1>2
  <2>11. len # 0 /\ len > 0 /\ i # len + 1 /\ (i > 1 <=> i # 1)
    BY <2>1, <1>1
  <2>12. IsPut(h, g, u, p, i, n)
    BY <2>10, <2>11 DEF IsPut, before, len
  <2> QED BY <2>5, <2>9, <2>12 DEF g, u, i
<1> QED BY <1>3, <1>4

\* cJSON_ReplaceItemViaPointer, before it deletes the item that it replaces,
\* has done what taking that item out and putting the other one in would do.
LEMMA ReplaceIs ==
    ASSUME NEW h, NEW s, NEW o, Trees(h, s, o), NEW n \in o, NEW p \in Nodes,
           h[p].kind # "free", p \notin Below(s, n), NEW i \in 1 .. Len(s[p])
    PROVE  \E g \in [Nodes -> Item] :
              /\ cJSON_ReplaceItemViaPointer(h, p, s[p][i], n) = cJSON_Delete(g, s[p][i])
              /\ IsPut(cJSON_DetachItemViaPointer(h, p, s[p][i]), g, RemoveAt(s[p], i), p, i, n)
<1> DEFINE u == s[p]
           len == Len(u)
           x == u[i]
           w == RemoveAt(u, i)
           f == cJSON_DetachItemViaPointer(h, p, s[p][i])
           next == IF i = len THEN NULL ELSE u[i+1]
           before == IF i = 1 THEN u[len] ELSE u[i-1]
           prev == IF x = u[1] /\ before = x THEN n ELSE before
           h1 == [h EXCEPT ![n].next = next]
           h2 == [h1 EXCEPT ![n].prev = prev]
           h3 == IF next # NULL THEN [h2 EXCEPT ![next].prev = n] ELSE h2
           h4 == [h3 EXCEPT ![prev].next = n]
           h5 == IF x = u[1] THEN [h3 EXCEPT ![p].child = n]
                 ELSE IF next = NULL THEN [h4 EXCEPT ![u[1]].prev = n] ELSE h4
           h6 == [h5 EXCEPT ![x].next = NULL]
           g == [h6 EXCEPT ![x].prev = NULL]
<1>1. /\ h \in [Nodes -> Item] /\ len \in Nat /\ i \in 1 .. len
      /\ u \in Seq(Nodes)
      /\ h[p].child = First(u)
      /\ \A j \in 1 .. len :
            /\ u[j] \in Nodes /\ u[j] # NULL /\ h[u[j]].kind # "free" /\ u[j] # n /\ u[j] # p
            /\ h[u[j]].next = IF j = len THEN NULL ELSE u[j+1]
            /\ h[u[j]].prev = IF j = 1 THEN u[len] ELSE u[j-1]
      /\ \A j, k \in 1 .. len : u[j] = u[k] => j = k
  BY ListIs
<1>2. n \in Nodes /\ n # p /\ n # NULL /\ h[n].kind # "free"
  BY PlacedIs
<1>3. f \in [Nodes -> Item] /\ IsTaken(h, f, u, p, i)
  BY DetachIs
<1>4. h[p].child = u[1] /\ h[x].next = next /\ h[x].prev = before
  BY <1>1 DEF First
<1>5. cJSON_ReplaceItemViaPointer(h, p, x, n) = cJSON_Delete(g, x)
  <2> HIDE DEF x, next, before, cJSON_Delete
  <2> QED BY <1>4 DEF cJSON_ReplaceItemViaPointer
<1>6. /\ Len(w) = len - 1
      /\ \A j \in 1 .. len - 1 : w[j] = IF j < i THEN u[j] ELSE u[j+1]
  <2> HIDE DEF u
  <2>1. u \in Seq(Nodes) /\ i \in 1 .. Len(u)
    BY <1>1
  <2>2. /\ Len(RemoveAt(u, i)) = Len(u) - 1
        /\ \A j \in 1 .. Len(u) - 1 : RemoveAt(u, i)[j] = IF j < i THEN u[j] ELSE u[j+1]
    BY <2>1, RemoveAtIs
  <2> QED BY <2>2
<1> HIDE DEF f, u, len, w
<1>7. /\ 1 \in 1 .. len /\ len \in 1 .. len
      /\ i # 1 => i - 1 \in 1 .. len
      /\ i # len => i + 1 \in 1 .. len
      /\ i > 1 <=> i # 1
      /\ i < len <=> i # len
      /\ len - 1 = 0 <=> len = 1
      /\ len - 1 > 0 <=> len # 1
      /\ len = 1 => i = 1
      /\ i = len - 1 + 1 <=> i = len
  BY <1>1
<1>8. /\ x \in Nodes /\ x # n /\ x # p /\ h[x].kind # "free" /\ u[1] \in Nodes /\ u[1] # n
      /\ before \in Nodes /\ before # n /\ h[before].kind # "free" /\ h[u[1]].kind # "free"
      /\ next # NULL <=> i # len
      /\ i # len => next \in Nodes /\ next # n /\ next # x /\ h[next].kind # "free"
      /\ next \in Links /\ before \in Links /\ NULL \in Links /\ n \in Links
      /\ x = u[1] <=> i = 1
      /\ before = x <=> len = 1
      /\ i # 1 => before # x
  <2>1. before = x <=> len = 1
    <3>1. len = 1 => i = 1 /\ before = x
      BY <1>1
    <3>2. len # 1 /\ i = 1 => before # x
      BY <1>1, <1>7
    <3>3. i # 1 => before # x
      BY <1>1, <1>7
    <3> QED BY <3>1, <3>2, <3>3
  <2>2. i # len => next # x
    BY <1>1, <1>7
  <2>3. x = u[1] <=> i = 1
    BY <1>1, <1>7
  <2> QED BY <1>1, <1>2, <1>7, <2>1, <2>2, <2>3 DEF Links
<1>9. prev = (IF len = 1 THEN n ELSE before) /\ prev \in Nodes /\ prev \in Links /\ (i # 1 => prev = before)
  <2> HIDE DEF x, before
  <2> QED BY <1>7, <1>8, <1>2
<1> HIDE DEF x, next, before, prev
<1>10. /\ h1 \in [Nodes -> Item]
       /\ \A m \in Nodes :
             /\ m # n => h1[m] = h[m]
             /\ h1[m].next = IF m = n THEN next ELSE h[m].next
             /\ h1[m].prev = h[m].prev /\ h1[m].child = h[m].child
             /\ h1[m].kind = h[m].kind /\ h1[m].key = h[m].key
  <2>1. h \in [Nodes -> Item] /\ n \in Nodes /\ next \in Links
    BY <1>1, <1>2, <1>8
  <2> QED BY <2>1, NextSet
<1> HIDE DEF h1
<1>11. /\ h2 \in [Nodes -> Item]
       /\ \A m \in Nodes :
             /\ m # n => h2[m] = h1[m]
             /\ h2[m].prev = IF m = n THEN prev ELSE h1[m].prev
             /\ h2[m].next = h1[m].next /\ h2[m].child = h1[m].child
             /\ h2[m].kind = h1[m].kind /\ h2[m].key = h1[m].key
  BY <1>10, <1>2, <1>9, PrevSet
<1> HIDE DEF h2
<1>12. /\ h3 \in [Nodes -> Item]
       /\ \A m \in Nodes :
             /\ m # next => h3[m] = h2[m]
             /\ h3[m].prev = IF i # len /\ m = next THEN n ELSE h2[m].prev
             /\ h3[m].next = h2[m].next /\ h3[m].child = h2[m].child
             /\ h3[m].kind = h2[m].kind /\ h3[m].key = h2[m].key
  BY <1>11, <1>8, PrevSet
<1> HIDE DEF h3
<1>13. /\ h4 \in [Nodes -> Item]
       /\ \A m \in Nodes :
             /\ m # prev => h4[m] = h3[m]
             /\ h4[m].next = IF m = prev THEN n ELSE h3[m].next
             /\ h4[m].prev = h3[m].prev /\ h4[m].child = h3[m].child
             /\ h4[m].kind = h3[m].kind /\ h4[m].key = h3[m].key
  BY <1>12, <1>8, <1>9, NextSet
<1> HIDE DEF h4
<1>14. /\ h5 \in [Nodes -> Item]
       /\ \A m \in Nodes :
             /\ m # p /\ m # prev /\ m # u[1] => h5[m] = h3[m]
             /\ h5[m].child = IF i = 1 /\ m = p THEN n ELSE h3[m].child
             /\ h5[m].next = IF i # 1 /\ m = before THEN n ELSE h3[m].next
             /\ h5[m].prev = IF i # 1 /\ i = len /\ m = u[1] THEN n ELSE h3[m].prev
             /\ h5[m].kind = h3[m].kind /\ h5[m].key = h3[m].key
  <2>1. CASE i = 1
    BY <2>1, <1>8, <1>12, ChildSet
  <2>2. CASE i # 1 /\ i # len
    BY <2>2, <1>8, <1>9, <1>13
  <2>3. CASE i # 1 /\ i = len
    <3> DEFINE k == [h4 EXCEPT ![u[1]].prev = n]
    <3>1. h5 = k
      BY <2>3, <1>8
    <3>2. /\ k \in [Nodes -> Item]
          /\ \A m \in Nodes :
                /\ m # u[1] => k[m] = h4[m]
                /\ k[m].prev = IF m = u[1] THEN n ELSE h4[m].prev
                /\ k[m].next = h4[m].next /\ k[m].child = h4[m].child
                /\ k[m].kind = h4[m].kind /\ k[m].key = h4[m].key
      BY <1>13, <1>8, PrevSet
    <3> HIDE DEF k, h5
    <3> QED BY <3>1, <3>2, <2>3, <1>9, <1>13
  <2> QED BY <2>1, <2>2, <2>3
<1> HIDE DEF h5
<1>15. /\ h6 \in [Nodes -> Item]
       /\ \A m \in Nodes :
             /\ m # x => h6[m] = h5[m]
             /\ h6[m].next = IF m = x THEN NULL ELSE h5[m].next
             /\ h6[m].prev = h5[m].prev /\ h6[m].child = h5[m].child
             /\ h6[m].kind = h5[m].kind /\ h6[m].key = h5[m].key
  BY <1>14, <1>8, NextSet
<1> HIDE DEF h6
<1>16. /\ g \in [Nodes -> Item]
       /\ \A m \in Nodes :
             /\ m # x => g[m] = h6[m]
             /\ g[m].prev = IF m = x THEN NULL ELSE h6[m].prev
             /\ g[m].next = h6[m].next /\ g[m].child = h6[m].child
             /\ g[m].kind = h6[m].kind /\ g[m].key = h6[m].key
  BY <1>15, <1>8, PrevSet
<1> HIDE DEF g
<1>17. \A m \in Nodes :
          /\ f[m].kind = h[m].kind /\ f[m].key = h[m].key
          /\ h[m].kind = "free" => f[m] = h[m]
          /\ ~(m = p /\ i = 1) => f[m].child = h[m].child
          /\ f[m].next = IF m = x THEN NULL
                         ELSE IF i # 1 /\ m = before THEN next
                         ELSE h[m].next
          /\ f[m].prev = IF m = x THEN NULL
                         ELSE IF i # len /\ m = next THEN before
                         ELSE IF i = len /\ m = u[1] THEN u[i-1]
                         ELSE h[m].prev
  BY <1>3, <1>7 DEF IsTaken, len, x, before, next
<1>18. \A m \in Nodes : h[m].kind = "free" => g[m] = h[m]
  <2> SUFFICES ASSUME NEW m \in Nodes, h[m].kind = "free" PROVE g[m] = h[m]
    OBVIOUS
  <2>1. m # p
    <3>1. h[p].kind = "free" => h[p] = FreeItem
      BY DEF Trees, Held
    <3> QED BY <3>1, <1>1, <1>4, <1>7 DEF FreeItem
  <2>2. m # n /\ m # x /\ m # u[1] /\ m # prev /\ (i # len => m # next)
    BY <1>2, <1>8, <1>9
  <2>3. m # next
    BY <2>2, <1>8, ListAssumption
  <2> QED BY <2>1, <2>2, <2>3, <1>10, <1>11, <1>12, <1>14, <1>15, <1>16
<1>19. \A m \in Nodes :
          /\ g[m].kind = h[m].kind /\ g[m].key = h[m].key
          /\ g[m].child = IF m = p /\ i = 1 THEN n ELSE h[m].child
          /\ g[m].next = IF m = x THEN NULL
                         ELSE IF i # 1 /\ m = before THEN n
                         ELSE IF m = n THEN next
                         ELSE h[m].next
          /\ g[m].prev = IF m = x THEN NULL
                         ELSE IF i # 1 /\ i = len /\ m = u[1] THEN n
                         ELSE IF i # len /\ m = next THEN n
                         ELSE IF m = n THEN prev
                         ELSE h[m].prev
  BY <1>10, <1>11, <1>12, <1>14, <1>15, <1>16
<1>20. IsPut(f, g, w, p, i, n)
  <2> SUFFICES ASSUME NEW m \in Nodes
               PROVE  /\ g[m].kind = f[m].kind /\ g[m].key = f[m].key
                      /\ f[m].kind = "free" => g[m] = f[m]
                      /\ g[m].child = IF m = p /\ i = 1 THEN n ELSE f[m].child
                      /\ g[m].next = IF m = n THEN IF i = Len(w) + 1 THEN NULL ELSE w[i]
                                     ELSE IF i > 1 /\ m = w[i-1] THEN n
                                     ELSE f[m].next
                      /\ g[m].prev = IF m = n
                                     THEN IF Len(w) = 0 THEN n ELSE IF i = 1 THEN w[Len(w)] ELSE w[i-1]
                                     ELSE IF Len(w) > 0 /\ m = (IF i = Len(w) + 1 THEN w[1] ELSE w[i])
                                          THEN n
                                     ELSE f[m].prev
    BY DEF IsPut
  <2>1. i # len => w[i] = next
    <3>1. i # len => i \in 1 .. len - 1 /\ ~(i < i)
      BY <1>1
    <3> QED BY <3>1, <1>6 DEF next
  <2>2. i # 1 => w[i-1] = before
    <3>1. i # 1 => i - 1 \in 1 .. len - 1 /\ i - 1 < i
      BY <1>1
    <3> QED BY <3>1, <1>6 DEF before
  <2>3. i = 1 /\ len # 1 => w[len-1] = before
    <3>1. i = 1 /\ len # 1 => len - 1 \in 1 .. len - 1 /\ ~(len - 1 < i) /\ len - 1 + 1 = len
      BY <1>1
    <3> QED BY <3>1, <1>6 DEF before
  <2>4. i = len /\ len # 1 => w[1] = u[1]
    <3>1. i = len /\ len # 1 => 1 \in 1 .. len - 1 /\ 1 < i
      BY <1>1
    <3> QED BY <3>1, <1>6
  <2>5. /\ g[m].kind = f[m].kind /\ g[m].key = f[m].key
        /\ f[m].kind = "free" => g[m] = f[m]
        /\ g[m].child = IF m = p /\ i = 1 THEN n ELSE f[m].child
    BY <1>17, <1>18, <1>19
  <2>6. g[m].next = IF m = n THEN IF i = len THEN NULL ELSE next
                    ELSE IF i # 1 /\ m = before THEN n
                    ELSE f[m].next
    BY <1>8, <1>17, <1>19
  <2>7. g[m].prev = IF m = n THEN prev
                    ELSE IF len # 1 /\ m = (IF i = len THEN u[1] ELSE next) THEN n
                    ELSE f[m].prev
    BY <1>7, <1>8, <1>17, <1>19
  <2>8. g[m].next = IF m = n THEN IF i = Len(w) + 1 THEN NULL ELSE w[i]
                    ELSE IF i > 1 /\ m = w[i-1] THEN n
                    ELSE f[m].next
    BY <2>1, <2>2, <2>6, <1>6, <1>7
  <2>9. g[m].prev = IF m = n THEN IF len = 1 THEN n ELSE IF i = 1 THEN w[len-1] ELSE w[i-1]
                    ELSE IF len # 1 /\ m = (IF i = len THEN w[1] ELSE w[i]) THEN n
                    ELSE f[m].prev
    BY <2>1, <2>2, <2>3, <2>4, <2>7, <1>7, <1>9
  <2>10. /\ Len(w) = 0 <=> len = 1
         /\ Len(w) > 0 <=> len # 1
         /\ i = Len(w) + 1 <=> i = len
         /\ Len(w) = len - 1
    BY <1>6, <1>7
  <2> QED BY <2>5, <2>8, <2>9, <2>10
<1> QED BY <1>5, <1>16, <1>20 DEF f, w, x, u

-----------------------------------------------------------------------------
(* Items that come, go and change their names                              *)

\* The item of cJSON_New_Item has no children, and the program holds it.
LEMMA NewKeeps ==
    ASSUME NEW h, NEW s, NEW o, Trees(h, s, o), Free(h) # {}, NEW k \in Kinds
    PROVE  LET a == Min(Free(h))
               g == cJSON_New_Item(h, k) IN
           /\ a \in Nodes /\ h[a].kind = "free" /\ s[a] = <<>> /\ a \notin o
           /\ \A q \in Nodes : ~ChildOf(s, a, q)
           /\ g \in [Nodes -> Item] /\ Trees(g, s, o \cup {a})
           /\ \A m \in Nodes : g[m].kind = (IF m = a THEN k ELSE h[m].kind) /\ g[m].key = h[m].key
<1> DEFINE a == Min(Free(h))
           g == cJSON_New_Item(h, k)
           new == [FreeItem EXCEPT !.kind = k]
<1>1. /\ s \in [Nodes -> Seq(Nodes)] /\ Forest(s) /\ Linked(h, s) /\ Held(h, s, o)
      /\ h \in [Nodes -> Item]
  BY DEF Trees, Forest
<1>2. a \in Nodes /\ h[a].kind = "free"
  <2>1. Free(h) \in SUBSET Nat
    BY ListAssumption DEF Free
  <2>2. a \in Free(h)
    BY <2>1, MinOfNaturals
  <2> HIDE DEF a
  <2> QED BY <2>2 DEF Free
<1>3. /\ new \in Item /\ new.kind = k /\ new.key = NoKey
      /\ new.next = NULL /\ new.prev = NULL /\ new.child = NULL /\ k # "free"
  BY ListAssumption DEF FreeItem, Item, Links
<1>4. g = [h EXCEPT ![a] = new]
  BY DEF cJSON_New_Item
<1> HIDE DEF a, g, new
<1>5. g \in [Nodes -> Item] /\ \A m \in Nodes : g[m] = IF m = a THEN new ELSE h[m]
  BY <1>1, <1>2, <1>3, <1>4
<1>6. h[a] = FreeItem /\ h[a].child = NULL /\ h[a].key = NoKey
  BY <1>1, <1>2 DEF Held, FreeItem
<1>7. /\ \A m \in Nodes : h[m].kind = "free" => h[m] = FreeItem
      /\ \A q \in Nodes : \A j \in 1 .. Len(s[q]) : h[s[q][j]].kind # "free"
      /\ o = {m \in Nodes : h[m].kind # "free" /\ \A q \in Nodes : ~ChildOf(s, m, q)}
      /\ \A m \in o : h[m].next = NULL
  BY <1>1 DEF Held
<1>8. s[a] \in Seq(Nodes) /\ Len(s[a]) = 0
  <2>1. s[a] \in Seq(Nodes) /\ Len(s[a]) \in Nat
    BY <1>1, <1>2, LenProperties
  <2>2. First(s[a]) = NULL
    BY <1>1, <1>2, <1>6 DEF Linked
  <2>3. Len(s[a]) # 0 => s[a][1] \in Nodes
    BY <2>1, ElementOfSeq
  <2> QED BY <2>1, <2>2, <2>3, ListAssumption DEF First
<1>9. s[a] = <<>>
  <2> DEFINE t == s[a]
  <2>1. t \in Seq(Nodes) /\ Len(t) = 0
    BY <1>8
  <2> HIDE DEF t
  <2>2. t = <<>>
    BY <2>1, EmptySeq
  <2> QED BY <2>2 DEF t
<1>10. \A q \in Nodes : ~ChildOf(s, a, q)
  BY <1>2, <1>7 DEF ChildOf
<1>11. \A q \in Nodes : \A j \in 1 .. Len(s[q]) : s[q][j] \in Nodes /\ s[q][j] # a
  BY <1>1, <1>10, LenProperties, ElementOfSeq DEF ChildOf
<1>12. Linked(g, s)
  <2>1. \A q \in Nodes : g[q].child = h[q].child
    BY <1>3, <1>5, <1>6
  <2>2. \A q \in Nodes : \A j \in 1 .. Len(s[q]) : g[s[q][j]] = h[s[q][j]]
    BY <1>5, <1>11
  <2> QED BY SMTT(30), <2>1, <2>2, <1>1 DEF Linked
<1>13. Held(g, s, o \cup {a})
  <2>1. \A m \in Nodes : g[m].kind = "free" => g[m] = FreeItem
    BY <1>3, <1>5, <1>7
  <2>2. \A q \in Nodes : \A j \in 1 .. Len(s[q]) : g[s[q][j]].kind # "free"
    BY <1>5, <1>7, <1>11
  <2>3. o \cup {a} = {m \in Nodes : g[m].kind # "free" /\ \A q \in Nodes : ~ChildOf(s, m, q)}
    BY <1>2, <1>3, <1>5, <1>7, <1>10
  <2>4. \A m \in o \cup {a} : g[m].next = NULL
    BY <1>2, <1>3, <1>5, <1>7
  <2> QED BY <2>1, <2>2, <2>3, <2>4 DEF Held
<1>14. a \notin o
  BY <1>2, <1>7
<1> QED BY <1>1, <1>2, <1>3, <1>5, <1>6, <1>9, <1>10, <1>12, <1>13, <1>14 DEF Trees, a, g

\* What an item may be named, NoKey included.
Names == Keys \cup {NoKey}

\* A change of names moves nothing.
LEMMA RenameKeeps ==
    ASSUME NEW h, NEW s, NEW o, Trees(h, s, o), NEW n \in Nodes, h[n].kind # "free",
           NEW name \in Names
    PROVE  LET g == [h EXCEPT ![n].key = name] IN
           /\ g \in [Nodes -> Item] /\ Trees(g, s, o)
           /\ \A m \in Nodes : g[m].kind = h[m].kind /\ g[m].key = IF m = n THEN name ELSE h[m].key
<1> DEFINE g == [h EXCEPT ![n].key = name]
<1>1. /\ s \in [Nodes -> Seq(Nodes)] /\ Forest(s) /\ Linked(h, s) /\ Held(h, s, o)
      /\ h \in [Nodes -> Item]
  BY DEF Trees, Forest
<1>2. /\ g \in [Nodes -> Item]
      /\ \A m \in Nodes : /\ m # n => g[m] = h[m]
                          /\ g[m].key = IF m = n THEN name ELSE h[m].key
                          /\ g[m].next = h[m].next /\ g[m].prev = h[m].prev
                          /\ g[m].kind = h[m].kind /\ g[m].child = h[m].child
  <2>1. h \in [Nodes -> Item] /\ name \in Keys \cup {NoKey}
    BY <1>1 DEF Names
  <2> QED BY <2>1, KeySet
<1> HIDE DEF g
<1>3. \A q \in Nodes : \A j \in 1 .. Len(s[q]) : s[q][j] \in Nodes
  BY <1>1, LenProperties, ElementOfSeq
<1>4. Linked(g, s)
  BY <1>1, <1>2, <1>3 DEF Linked
<1>5. Held(g, s, o)
  <2>1. /\ \A m \in Nodes : h[m].kind = "free" => h[m] = FreeItem
        /\ \A q \in Nodes : \A j \in 1 .. Len(s[q]) : h[s[q][j]].kind # "free"
        /\ o = {m \in Nodes : h[m].kind # "free" /\ \A q \in Nodes : ~ChildOf(s, m, q)}
        /\ \A m \in o : h[m].next = NULL
    BY <1>1 DEF Held
  <2> QED BY <2>1, <1>2, <1>3 DEF Held
<1> QED BY <1>1, <1>2, <1>4, <1>5 DEF Trees, g

\* The children that remain when n and all below it are deleted.
Without(s, n) == [m \in Nodes |-> IF m \in Below(s, n) THEN <<>> ELSE s[m]]

\* cJSON_Delete frees what is below an item that the program holds and no more.
LEMMA DeleteKeeps ==
    ASSUME NEW h, NEW s, NEW o, Trees(h, s, o), NEW n \in o
    PROVE  LET g == cJSON_Delete(h, n) IN
           /\ g \in [Nodes -> Item] /\ Trees(g, Without(s, n), o \ {n})
           /\ \A m \in Nodes : g[m] = IF m \in Below(s, n) THEN FreeItem ELSE h[m]
<1> DEFINE g == cJSON_Delete(h, n)
           B == Below(s, n)
           t == Without(s, n)
<1>1. /\ s \in [Nodes -> Seq(Nodes)] /\ Forest(s) /\ Once(s) /\ Rooted(s) /\ Linked(h, s) /\ Held(h, s, o)
      /\ h \in [Nodes -> Item]
  BY DEF Trees, Forest
<1>2. /\ \A m \in Nodes : h[m].kind = "free" => h[m] = FreeItem
      /\ \A q \in Nodes : \A j \in 1 .. Len(s[q]) : h[s[q][j]].kind # "free"
      /\ o = {m \in Nodes : h[m].kind # "free" /\ \A q \in Nodes : ~ChildOf(s, m, q)}
      /\ \A m \in o : h[m].next = NULL
  BY <1>1 DEF Held
<1>3. n \in Nodes /\ h[n].next = NULL /\ \A q \in Nodes : ~ChildOf(s, n, q)
  BY <1>2
<1>4. Reached(h, n) = B
  BY <1>1, <1>3, ReachedFromRoot
<1>5. /\ B \subseteq Nodes /\ n \in B
      /\ \A k \in B, c \in Nodes : ChildOf(s, c, k) => c \in B
      /\ \A m \in B : m = n \/ \E k \in B : ChildOf(s, m, k)
  BY <1>3, BelowIs
<1>6. t = [m \in Nodes |-> IF m \in B THEN <<>> ELSE s[m]]
  BY DEF Without
<1>7. g = [m \in Nodes |-> IF m \in B THEN FreeItem ELSE h[m]]
  BY <1>4 DEF cJSON_Delete
<1> HIDE DEF B, t, g
<1>8. /\ FreeItem \in Item /\ FreeItem.kind = "free" /\ FreeItem.child = NULL
  BY DEF FreeItem, Item, Links
<1>9. g \in [Nodes -> Item] /\ \A m \in Nodes : g[m] = IF m \in B THEN FreeItem ELSE h[m]
  BY <1>1, <1>7, <1>8
<1>10. /\ t \in [Nodes -> Seq(Nodes)]
       /\ \A m \in Nodes : m \in B => t[m] = <<>> /\ Len(t[m]) = 0
       /\ \A m \in Nodes : m \notin B => t[m] = s[m]
  BY <1>1, <1>6
<1>11. \A m, q \in Nodes : ChildOf(t, m, q) <=> q \notin B /\ ChildOf(s, m, q)
  BY <1>10 DEF ChildOf
<1>12. Once(t)
  <2> SUFFICES ASSUME NEW p \in Nodes, NEW q \in Nodes,
                      NEW i \in 1 .. Len(t[p]), NEW j \in 1 .. Len(t[q]), t[p][i] = t[q][j]
               PROVE  p = q /\ i = j
    BY DEF Once
  <2>1. p \notin B /\ q \notin B
    BY <1>10
  <2>2. t[p] = s[p] /\ t[q] = s[q]
    BY <2>1, <1>10
  <2>3. i \in 1 .. Len(s[p]) /\ j \in 1 .. Len(s[q]) /\ s[p][i] = s[q][j]
    BY <2>2
  <2> QED BY <2>3, <1>1 DEF Once
<1>13. Rooted(t)
  BY <1>1, <1>11, RootedShrinks
<1>14. \A q \in Nodes : q \notin B => \A j \in 1 .. Len(s[q]) : s[q][j] \in Nodes /\ s[q][j] \notin B
  <2> SUFFICES ASSUME NEW q \in Nodes, q \notin B, NEW j \in 1 .. Len(s[q])
               PROVE  s[q][j] \in Nodes /\ s[q][j] \notin B
    OBVIOUS
  <2>1. s[q][j] \in Nodes /\ ChildOf(s, s[q][j], q)
    BY <1>1, LenProperties, ElementOfSeq DEF ChildOf
  <2>2. s[q][j] # n
    BY <2>1, <1>3
  <2>3. \A k \in B : ChildOf(s, s[q][j], k) => k = q
    BY <1>1, <1>5 DEF ChildOf, Once
  <2> QED BY <2>1, <2>2, <2>3, <1>5
<1>15. Linked(g, t)
  <2> SUFFICES ASSUME NEW q \in Nodes
               PROVE  /\ g[q].child = First(t[q])
                      /\ \A j \in 1 .. Len(t[q]) :
                            /\ g[t[q][j]].next = IF j = Len(t[q]) THEN NULL ELSE t[q][j+1]
                            /\ g[t[q][j]].prev = IF j = 1 THEN t[q][Len(t[q])] ELSE t[q][j-1]
    BY DEF Linked
  <2>1. CASE q \in B
    BY <2>1, <1>8, <1>9, <1>10 DEF First
  <2>2. CASE q \notin B
    <3>1. t[q] = s[q] /\ g[q] = h[q] /\ \A j \in 1 .. Len(s[q]) : g[s[q][j]] = h[s[q][j]]
      BY <2>2, <1>9, <1>10, <1>14
    <3>2. /\ h[q].child = First(s[q])
          /\ \A j \in 1 .. Len(s[q]) :
                /\ h[s[q][j]].next = IF j = Len(s[q]) THEN NULL ELSE s[q][j+1]
                /\ h[s[q][j]].prev = IF j = 1 THEN s[q][Len(s[q])] ELSE s[q][j-1]
      BY <1>1 DEF Linked
    <3>3. /\ g[q].child = First(s[q])
          /\ \A j \in 1 .. Len(s[q]) :
                /\ g[s[q][j]].next = IF j = Len(s[q]) THEN NULL ELSE s[q][j+1]
                /\ g[s[q][j]].prev = IF j = 1 THEN s[q][Len(s[q])] ELSE s[q][j-1]
      BY <3>1, <3>2
    <3> QED BY <3>1, <3>3
  <2> QED BY <2>1, <2>2
<1>16. Held(g, t, o \ {n})
  <2>1. \A m \in Nodes : g[m].kind = "free" => g[m] = FreeItem
    BY <1>2, <1>9
  <2>2. ASSUME NEW q \in Nodes, NEW j \in 1 .. Len(t[q])
        PROVE  g[t[q][j]].kind # "free"
    <3>1. q \notin B /\ t[q] = s[q]
      BY <1>10
    <3>2. j \in 1 .. Len(s[q]) /\ t[q][j] = s[q][j]
      BY <3>1
    <3> QED BY <3>1, <3>2, <1>2, <1>9, <1>14
  <2>3. o \ {n} = {m \in Nodes : g[m].kind # "free" /\ \A q \in Nodes : ~ChildOf(t, m, q)}
    <3>1. ASSUME NEW m \in Nodes
          PROVE  m \in o \ {n} <=> g[m].kind # "free" /\ \A q \in Nodes : ~ChildOf(t, m, q)
      <4>1. g[m].kind # "free" <=> m \notin B /\ h[m].kind # "free"
        BY <1>8, <1>9
      <4>2. m \notin B => \A q \in Nodes : ChildOf(t, m, q) <=> ChildOf(s, m, q)
        BY <1>5, <1>11
      <4>3. m \in B /\ m # n => m \notin o
        BY <1>2, <1>5
      <4> QED BY <4>1, <4>2, <4>3, <1>2, <1>5
    <3> QED BY <3>1, <1>2
  <2>4. \A m \in o \ {n} : g[m].next = NULL
    <3> SUFFICES ASSUME NEW m \in o \ {n} PROVE g[m].next = NULL
      OBVIOUS
    <3>1. m \in Nodes /\ h[m].next = NULL /\ m \notin B
      BY <1>2, <1>5
    <3> QED BY <3>1, <1>9
  <2> QED BY <2>1, <2>2, <2>3, <2>4 DEF Held
<1> QED BY <1>9, <1>10, <1>12, <1>13, <1>15, <1>16 DEF Trees, Forest, g, t, B

-----------------------------------------------------------------------------
(* What the calls do to the sequences                                      *)

\* The heap, seen as JsonSeq sees it.
LEMMA ViewIs ==
    ASSUME TreeInv
    PROVE  /\ Trees(heap, Kids(heap), owned) /\ heap \in [Nodes -> Item]
           /\ \A n \in Nodes : Kids(heap)[n] = Children(heap, n)
           /\ \A n \in Nodes : /\ Trees_!Subtree(n) = Below(Kids(heap), n)
                               /\ Subtree(heap, n) = Below(Kids(heap), n)
           /\ \A n \in owned : n \in Nodes /\ heap[n].kind # "free" /\ Trees_!IsRoot(n)
<1> DEFINE s == Kids(heap)
<1>1. Trees(heap, s, owned) /\ heap \in [Nodes -> Item] /\ Forest(s) /\ Linked(heap, s) /\ Held(heap, s, owned)
  BY DEF TreeInv, Trees
<1>2. s = [n \in Nodes |-> Children(heap, n)] /\ s \in [Nodes -> Seq(Nodes)]
  BY <1>1 DEF Kids, Forest
<1>3. \A n \in Nodes : s[n] = Children(heap, n)
  BY <1>2
<1> HIDE DEF s
<1>4. ASSUME NEW n \in Nodes
      PROVE  Trees_!Subtree(n) = Below(s, n)
  <2>1. \A m \in Nodes : DOMAIN s[m] = 1 .. Len(s[m])
    BY <1>2, LenProperties
  <2>2. ASSUME NEW S \in SUBSET Nodes
        PROVE  (\A m \in S : ToSet(s[m]) \subseteq S)
                  <=> \A k \in S, c \in Nodes : ChildOf(s, c, k) => c \in S
    <3>1. \A m \in S : \A j \in 1 .. Len(s[m]) : s[m][j] \in Nodes
      BY <1>2, LenProperties, ElementOfSeq
    <3>2. \A m \in S : ToSet(s[m]) = {s[m][j] : j \in 1 .. Len(s[m])}
      BY <2>1 DEF ToSet
    <3>3. (\A m \in S : ToSet(s[m]) \subseteq S) <=> \A m \in S : \A j \in 1 .. Len(s[m]) : s[m][j] \in S
      <4>1. ASSUME NEW m \in S
            PROVE  ToSet(s[m]) \subseteq S <=> \A j \in 1 .. Len(s[m]) : s[m][j] \in S
        <5>1. ToSet(s[m]) = {s[m][j] : j \in 1 .. Len(s[m])}
          BY <3>2
        <5> HIDE DEF ToSet
        <5> QED BY <5>1
      <4> QED BY <4>1
    <3>4. (\A k \in S, c \in Nodes : ChildOf(s, c, k) => c \in S)
             <=> \A m \in S : \A j \in 1 .. Len(s[m]) : s[m][j] \in S
      BY <3>1 DEF ChildOf
    <3> QED BY <3>3, <3>4
  <2> DEFINE closed == {S \in SUBSET Nodes : \A m \in S : ToSet(s[m]) \subseteq S}
  <2>3. Trees_!Subtree(n) = {m \in Nodes : \A S \in closed : n \in S => m \in S}
    BY DEF Trees_!Subtree, Trees_!ToSet, ToSet, Kids, s
  <2>4. \A S \in SUBSET Nodes :
           S \in closed <=> \A k \in S, c \in Nodes : ChildOf(s, c, k) => c \in S
    BY <2>2
  <2>5. closed \subseteq SUBSET Nodes
    OBVIOUS
  <2> HIDE DEF closed
  <2> QED BY <2>3, <2>4, <2>5 DEF Below
<1>5. \A n \in Nodes : Subtree(heap, n) = Below(s, n)
  BY <1>1, SubtreeIs
<1>6. ASSUME NEW n \in owned
      PROVE  n \in Nodes /\ heap[n].kind # "free" /\ Trees_!IsRoot(n)
  <2>1. n \in Nodes /\ heap[n].kind # "free" /\ \A p \in Nodes : ~ChildOf(s, n, p)
    BY <1>1 DEF Held
  <2>2. \A p \in Nodes : ~Contains(s[p], n)
    BY <2>1 DEF Contains, ChildOf
  <2> QED BY <2>1, <2>2, <1>2 DEF Trees_!IsRoot, Trees_!Free, Trees_!Contains, Contains
<1> QED BY <1>1, <1>3, <1>4, <1>5, <1>6 DEF s

\* The lists after a call are what the invariant says they are.
LEMMA NextIs ==
    ASSUME NEW t, Trees(heap', t, owned')
    PROVE  TreeInv' /\ t = [n \in Nodes |-> Children(heap', n)] /\ heap' \in [Nodes -> Item]
<1>1. Kids(heap') = t
  BY KidsAre DEF Trees
<1> QED BY <1>1 DEF TreeInv, Trees, Kids

\* What a call may assume of the item that it places.
LEMMA MayPutIs ==
    ASSUME TreeInv, NEW p \in Nodes, NEW n \in Nodes, MayPut(p, n)
    PROVE  /\ n \in owned /\ heap[p].kind # "free" /\ heap[p].kind \in Containers
           /\ p \notin Below(Kids(heap), n)
  BY ViewIs, ListAssumption DEF MayPut, Container

\* Putting n into p is a Put of the sequences; h is the heap in which n has the
\* name k that it gets.
LEMMA PutStep ==
    ASSUME TreeInv, NEW p \in Nodes, NEW n \in Nodes, MayPut(p, n), NEW h, NEW k,
           Trees(h, Kids(heap), owned),
           \A m \in Nodes : /\ h[m].kind = heap[m].kind
                            /\ h[m].key = IF m = n THEN k ELSE heap[m].key,
           NEW i \in 1 .. Len(Children(heap, p)) + 1,
           heap' \in [Nodes -> Item], IsPut(h, heap', Children(heap, p), p, i, n),
           owned' = owned \ {n}
    PROVE  TreeInv' /\ Trees_!Put(p, i, n, k)
<1> DEFINE s == Kids(heap)
           t == [s EXCEPT ![p] = InsertAt(@, i, n)]
<1>1. /\ n \in owned /\ heap[p].kind # "free" /\ heap[p].kind \in Containers /\ p \notin Below(s, n)
      /\ \A m \in Nodes : s[m] = Children(heap, m)
      /\ s = [m \in Nodes |-> Children(heap, m)]
      /\ Trees_!Subtree(n) = Below(s, n) /\ Trees_!IsRoot(n)
  BY MayPutIs, ViewIs DEF Kids
<1> HIDE DEF s
<1>2. Trees(h, s, owned)
  BY DEF s
<1>3. i \in 1 .. Len(s[p]) + 1 /\ IsPut(h, heap', s[p], p, i, n) /\ h[p].kind # "free"
  BY <1>1
<1>4. Trees(heap', t, owned')
  BY <1>1, <1>2, <1>3, PutKeeps
<1>5. TreeInv' /\ t = [m \in Nodes |-> Children(heap', m)]
  <2> HIDE DEF t
  <2> QED BY <1>4, NextIs
<1>6. \A m \in Nodes : /\ heap'[m].kind = heap[m].kind
                       /\ heap'[m].key = IF m = n THEN k ELSE heap[m].key
  BY DEF IsPut
<1>7. [m \in Nodes |-> heap'[m].kind] = [m \in Nodes |-> heap[m].kind]
  BY <1>6
<1>8. [m \in Nodes |-> heap'[m].key] = [[m \in Nodes |-> heap[m].key] EXCEPT ![n] = k]
  BY <1>6
<1>9. Trees_!Put(p, i, n, k)
  BY <1>1, <1>3, <1>5, <1>7, <1>8 DEF Trees_!Put, Trees_!InsertAt, InsertAt
<1> QED BY <1>5, <1>9

\* Detaching the i-th child of p is a Take of the sequences.
LEMMA TakeStep ==
    ASSUME TreeInv, NEW p \in Nodes, NEW i \in 1 .. Len(Children(heap, p)),
           heap' = cJSON_DetachItemViaPointer(heap, p, Children(heap, p)[i]),
           owned' = owned \cup {Children(heap, p)[i]}
    PROVE  TreeInv' /\ Trees_!Take(p, i)
<1> DEFINE s == Kids(heap)
           t == [s EXCEPT ![p] = RemoveAt(@, i)]
<1>1. /\ Trees(heap, s, owned)
      /\ \A m \in Nodes : s[m] = Children(heap, m)
      /\ s = [m \in Nodes |-> Children(heap, m)]
  BY ViewIs DEF Kids
<1> HIDE DEF s
<1>2. /\ i \in 1 .. Len(s[p]) /\ DOMAIN s[p] = 1 .. Len(s[p])
      /\ heap' = cJSON_DetachItemViaPointer(heap, p, s[p][i])
      /\ owned' = owned \cup {s[p][i]}
  BY <1>1, ListIs
<1>3. heap' \in [Nodes -> Item] /\ IsTaken(heap, heap', s[p], p, i)
  BY <1>1, <1>2, DetachIs
<1>4. Trees(heap', t, owned')
  BY <1>1, <1>2, <1>3, TakeKeeps
<1>5. TreeInv' /\ t = [m \in Nodes |-> Children(heap', m)]
  <2> HIDE DEF t
  <2> QED BY <1>4, NextIs
<1>6. \A m \in Nodes : heap'[m].kind = heap[m].kind /\ heap'[m].key = heap[m].key
  BY <1>3 DEF IsTaken
<1>7. /\ [m \in Nodes |-> heap'[m].kind] = [m \in Nodes |-> heap[m].kind]
      /\ [m \in Nodes |-> heap'[m].key] = [m \in Nodes |-> heap[m].key]
  BY <1>6
<1>8. Trees_!Take(p, i)
  BY <1>1, <1>2, <1>5, <1>7 DEF Trees_!Take, Trees_!RemoveAt, RemoveAt
<1> QED BY <1>5, <1>8

\* Replacing is taking out and putting in at the same place.
LEMMA ReplaceAtIs ==
    ASSUME NEW u \in Seq(Nodes), NEW i \in 1 .. Len(u), NEW n \in Nodes
    PROVE  InsertAt(RemoveAt(u, i), i, n) = ReplaceAt(u, i, n)
<1> DEFINE w == RemoveAt(u, i)
           v == InsertAt(w, i, n)
           r == ReplaceAt(u, i, n)
<1>1. /\ w \in Seq(Nodes) /\ Len(w) = Len(u) - 1
      /\ \A j \in 1 .. Len(u) - 1 : w[j] = IF j < i THEN u[j] ELSE u[j+1]
  BY RemoveAtIs
<1>2. Len(u) \in Nat /\ DOMAIN u = 1 .. Len(u) /\ \A j \in 1 .. Len(u) : u[j] \in Nodes
  BY LenProperties, ElementOfSeq
<1> HIDE DEF w
<1>3. i \in 1 .. Len(w) + 1
  BY <1>1, <1>2
<1>4. /\ v \in Seq(Nodes) /\ Len(v) = Len(w) + 1
      /\ \A j \in 1 .. Len(w) + 1 : v[j] = IF j < i THEN w[j] ELSE IF j = i THEN n ELSE w[j-1]
  <2>1. /\ InsertAt(w, i, n) \in Seq(Nodes) /\ Len(InsertAt(w, i, n)) = Len(w) + 1
        /\ \A j \in 1 .. Len(w) + 1 :
              InsertAt(w, i, n)[j] = IF j < i THEN w[j] ELSE IF j = i THEN n ELSE w[j-1]
    BY <1>1, <1>3, InsertAtIs
  <2> QED BY <2>1
<1>5. r \in Seq(Nodes) /\ Len(r) = Len(u) /\ \A j \in 1 .. Len(u) : r[j] = IF j = i THEN n ELSE u[j]
  <2>1. r = [u EXCEPT ![i] = n]
    BY DEF ReplaceAt
  <2> HIDE DEF r
  <2>2. r \in Seq(Nodes) /\ Len(r) = Len(u)
    BY <2>1, ExceptSeq
  <2> QED BY <2>1, <2>2, <1>2
<1> HIDE DEF v, r
<1>6. Len(v) = Len(u)
  BY <1>1, <1>2, <1>4
<1>7. ASSUME NEW j \in 1 .. Len(u)
      PROVE  v[j] = r[j]
  <2>1. j \in 1 .. Len(w) + 1
    BY <1>1, <1>2
  <2>2. v[j] = IF j < i THEN w[j] ELSE IF j = i THEN n ELSE w[j-1]
    BY <2>1, <1>4
  <2>3. j < i => j \in 1 .. Len(u) - 1 /\ j # i
    BY <1>2
  <2>4. j > i => j - 1 \in 1 .. Len(u) - 1 /\ ~(j - 1 < i) /\ j - 1 + 1 = j /\ j # i /\ ~(j < i)
    BY <1>2
  <2>5. j < i \/ j = i \/ j > i
    BY <1>2
  <2>6. j = i => ~(j < i)
    BY <1>2
  <2> QED BY <2>2, <2>3, <2>4, <2>5, <2>6, <1>1, <1>5
<1>8. v = r
  BY <1>4, <1>5, <1>6, <1>7, SeqEqual
<1> QED BY <1>8 DEF v, r, w

\* Putting n in the place of the i-th child of p is a Replace of the sequences;
\* h is the heap in which n has the name k that it gets.
LEMMA ReplaceStep ==
    ASSUME TreeInv, NEW p \in Nodes, NEW n \in Nodes, MayPut(p, n), NEW h, NEW k,
           Trees(h, Kids(heap), owned),
           \A m \in Nodes : /\ h[m].kind = heap[m].kind
                            /\ h[m].key = IF m = n THEN k ELSE heap[m].key,
           NEW i \in 1 .. Len(Children(heap, p)),
           heap' = cJSON_ReplaceItemViaPointer(h, p, Children(heap, p)[i], n),
           owned' = owned \ {n}
    PROVE  TreeInv' /\ Trees_!Replace(p, i, n, k)
<1> DEFINE s == Kids(heap)
           u == s[p]
           x == u[i]
           f == cJSON_DetachItemViaPointer(h, p, x)
           s1 == [s EXCEPT ![p] = RemoveAt(@, i)]
           s2 == [s1 EXCEPT ![p] = InsertAt(@, i, n)]
           t == Without(s2, x)
           B == Below(s, x)
<1>1. /\ n \in owned /\ heap[p].kind # "free" /\ p \notin Below(s, n)
      /\ \A m \in Nodes : s[m] = Children(heap, m)
      /\ s = [m \in Nodes |-> Children(heap, m)]
      /\ \A m \in Nodes : Trees_!Subtree(m) = Below(s, m)
      /\ Trees_!IsRoot(n)
  BY MayPutIs, ViewIs DEF Kids
<1>2. Trees(h, s, owned) /\ h[p].kind # "free"
  BY <1>1
<1> HIDE DEF s
<1>3. /\ u \in Seq(Nodes) /\ i \in 1 .. Len(u) /\ Len(u) \in Nat /\ DOMAIN u = 1 .. Len(u)
      /\ x \in Nodes /\ x \notin owned
  BY <1>1, <1>2, ListIs
<1>4. ChildOf(s, x, p) /\ s \in [Nodes -> Seq(Nodes)] /\ Rooted(s)
  BY <1>2, <1>3 DEF ChildOf, Trees, Forest
<1>5. PICK g \in [Nodes -> Item] :
         /\ cJSON_ReplaceItemViaPointer(h, p, x, n) = cJSON_Delete(g, x)
         /\ IsPut(f, g, RemoveAt(u, i), p, i, n)
  BY <1>1, <1>2, <1>3, ReplaceIs
<1>6. heap' = cJSON_Delete(g, x)
  BY <1>1, <1>5
<1>7. f \in [Nodes -> Item] /\ IsTaken(h, f, u, p, i)
  BY <1>2, <1>3, DetachIs
<1>8. Trees(f, s1, owned \cup {x})
  BY <1>2, <1>3, <1>7, TakeKeeps
<1>9. s1[p] = RemoveAt(u, i) /\ \A m \in Nodes : m # p => s1[m] = s[m]
  BY <1>4
<1> HIDE DEF f, s1
<1>10. Below(s1, n) = Below(s, n)
  <2>1. Below(s, n) \subseteq Nodes
    BY DEF Below
  <2> QED BY <2>1, <1>1, <1>9, BelowSame
<1>11. i \in 1 .. Len(s1[p]) + 1
  <2>1. Len(RemoveAt(u, i)) = Len(u) - 1
    <3> HIDE DEF u
    <3> QED BY <1>3, RemoveAtIs
  <2> QED BY <2>1, <1>3, <1>9
<1>12. n \in owned \cup {x} /\ f[p].kind # "free" /\ p \notin Below(s1, n) /\ n # x
  BY <1>1, <1>2, <1>3, <1>7, <1>10 DEF IsTaken
<1>13. Trees(g, s2, (owned \cup {x}) \ {n})
  <2>1. g \in [Nodes -> Item] /\ IsPut(f, g, s1[p], p, i, n)
    BY <1>5, <1>9
  <2> DEFINE held == owned \cup {x}
  <2>2. Trees(f, s1, held) /\ n \in held
    BY <1>8, <1>12
  <2> HIDE DEF held, x
  <2>3. Trees(g, [s1 EXCEPT ![p] = InsertAt(@, i, n)], held \ {n})
    BY <2>1, <2>2, <1>11, <1>12, PutKeeps
  <2> QED BY <2>3 DEF held
<1>14. s2 = [s EXCEPT ![p] = ReplaceAt(u, i, n)]
  <2>1. InsertAt(s1[p], i, n) = ReplaceAt(u, i, n)
    <3> HIDE DEF u
    <3> QED BY <1>3, <1>9, ReplaceAtIs
  <2>2. s2 = [s1 EXCEPT ![p] = ReplaceAt(u, i, n)]
    BY <2>1
  <2> HIDE DEF s2
  <2>3. s1 = [s EXCEPT ![p] = RemoveAt(u, i)]
    BY DEF s1
  <2> QED BY <2>2, <2>3, <1>4
<1> HIDE DEF s2, x
<1>15. Below(s2, x) = B
  <2>1. B \subseteq Nodes /\ p \notin B
    BY <1>3, <1>4, NotBelowItself DEF Below
  <2>2. \A m \in B : s2[m] = s[m]
    BY <2>1, <1>4, <1>14
  <2> QED BY <2>2, <1>3, BelowSame
<1>16. x \in (owned \cup {x}) \ {n} /\ owned' = ((owned \cup {x}) \ {n}) \ {x}
  BY <1>3, <1>12
<1>17. /\ heap' \in [Nodes -> Item] /\ Trees(heap', t, owned')
       /\ \A m \in Nodes : heap'[m] = IF m \in B THEN FreeItem ELSE g[m]
  BY <1>6, <1>13, <1>15, <1>16, DeleteKeeps
<1>18. TreeInv' /\ t = [m \in Nodes |-> Children(heap', m)]
  <2> HIDE DEF t
  <2> QED BY <1>17, NextIs
<1>19. t = [m \in Nodes |-> IF m \in B THEN <<>>
                            ELSE IF m = p THEN ReplaceAt(u, i, n)
                            ELSE s[m]]
  <2> HIDE DEF B
  <2>1. t = [m \in Nodes |-> IF m \in B THEN <<>> ELSE s2[m]]
    BY <1>15 DEF Without
  <2>2. \A m \in Nodes : s2[m] = IF m = p THEN ReplaceAt(u, i, n) ELSE s[m]
    BY <1>4, <1>14
  <2> HIDE DEF t
  <2> QED BY <2>1, <2>2
<1>20. \A m \in Nodes : /\ g[m].kind = heap[m].kind
                        /\ g[m].key = IF m = n THEN k ELSE heap[m].key
  BY <1>5, <1>7 DEF IsPut, IsTaken
<1>21. /\ [m \in Nodes |-> heap'[m].kind] = [m \in Nodes |-> IF m \in B THEN "free" ELSE heap[m].kind]
       /\ [m \in Nodes |-> heap'[m].key] = [m \in Nodes |-> IF m \in B THEN NoKey
                                                          ELSE IF m = n THEN k ELSE heap[m].key]
  <2> HIDE DEF B
  <2>1. FreeItem.kind = "free" /\ FreeItem.key = NoKey
    BY DEF FreeItem
  <2> QED BY <2>1, <1>17, <1>20
<1>22. /\ Children(heap, p) = u /\ Trees_!Subtree(u[i]) = B
       /\ p \notin Trees_!Subtree(n) /\ i \in DOMAIN u
  BY <1>1, <1>3 DEF x
<1>23. Trees_!Replace(p, i, n, k)
  <2> HIDE DEF B
  <2>1. [m \in Nodes |-> Children(heap', m)]
           = [m \in Nodes |-> IF m \in B THEN <<>>
                              ELSE IF m = p THEN ReplaceAt([q \in Nodes |-> Children(heap, q)][p], i, n)
                              ELSE [q \in Nodes |-> Children(heap, q)][m]]
    BY <1>1, <1>18, <1>19
  <2>2. Trees_!Subtree([q \in Nodes |-> Children(heap, q)][p][i]) = B
    BY <1>22
  <2> QED BY <2>1, <2>2, <1>1, <1>21, <1>22 DEF Trees_!Replace, Trees_!ReplaceAt, ReplaceAt
<1> QED BY <1>18, <1>23

-----------------------------------------------------------------------------
(* The calls                                                               *)

\* get_array_item finds the child at an index, get_object_item the first one of
\* a name, if there is one.
LEMMA FoundIs ==
    ASSUME TreeInv, NEW p \in Nodes
    PROVE  LET u == Children(heap, p) IN
           /\ u \in Seq(Nodes) /\ Len(u) \in Nat /\ \A i \in 1 .. Len(u) : u[i] # NULL /\ u[i] \in Nodes
           /\ \A which \in 0 .. Len(u) :
                 get_array_item(heap, p, which) = IF which < Len(u) THEN u[which+1] ELSE NULL
           /\ \A name \in Keys :
                 /\ Position(p, name) \in 0 .. Len(u)
                 /\ get_object_item(heap, p, name) = IF Position(p, name) = 0 THEN NULL
                                                     ELSE u[Position(p, name)]
<1> DEFINE u == Children(heap, p)
<1>1. u \in Seq(Nodes) /\ Len(u) \in Nat /\ \A i \in 1 .. Len(u) : u[i] # NULL /\ u[i] \in Nodes
  <2>1. /\ Kids(heap)[p] \in Seq(Nodes) /\ Len(Kids(heap)[p]) \in Nat
        /\ \A i \in 1 .. Len(Kids(heap)[p]) : Kids(heap)[p][i] # NULL /\ Kids(heap)[p][i] \in Nodes
    BY ViewIs, ListIs
  <2>2. Kids(heap)[p] = u
    BY DEF Kids
  <2> QED BY <2>1, <2>2
<1>2. \A which \in 0 .. Len(u) :
         get_array_item(heap, p, which) = IF which < Len(u) THEN u[which+1] ELSE NULL
  BY DEF get_array_item
<1>3. ASSUME NEW name \in Keys
      PROVE  /\ Position(p, name) \in 0 .. Len(u)
             /\ get_object_item(heap, p, name) = IF Position(p, name) = 0 THEN NULL
                                                 ELSE u[Position(p, name)]
  <2> DEFINE I == {i \in 1 .. Len(u) : heap[u[i]].key = name}
  <2>1. Position(p, name) = IF I # {} THEN Min(I) ELSE 0
    BY DEF Position, SelectInSeq
  <2>2. get_object_item(heap, p, name) = IF Position(p, name) = 0 THEN NULL
                                         ELSE u[Position(p, name)]
    BY DEF get_object_item, Position
  <2>3. I \in SUBSET Nat /\ I \subseteq 1 .. Len(u)
    BY <1>1
  <2> HIDE DEF I, u
  <2>4. I # {} => Min(I) \in 1 .. Len(u)
    BY <2>3, MinOfNaturals
  <2> QED BY <2>1, <2>2, <2>4, <1>1
<1> QED BY <1>1, <1>2, <1>3

\* Create.
LEMMA CreateStep ==
    ASSUME TreeInv, NEW k \in Kinds, Create(k)
    PROVE  TreeInv' /\ Trees_!Create(Min(Free(heap)), k)
<1> DEFINE s == Kids(heap)
           a == Min(Free(heap))
<1>1. Trees(heap, s, owned) /\ s = [m \in Nodes |-> Children(heap, m)]
  BY ViewIs DEF Kids
<1>2. Free(heap) # {} /\ heap' = cJSON_New_Item(heap, k) /\ owned' = owned \cup {a}
  BY DEF Create
<1> HIDE DEF s
<1>3. /\ a \in Nodes /\ heap[a].kind = "free"
      /\ heap' \in [Nodes -> Item] /\ Trees(heap', s, owned')
      /\ \A m \in Nodes : heap'[m].kind = (IF m = a THEN k ELSE heap[m].kind) /\ heap'[m].key = heap[m].key
  <2> DEFINE g == cJSON_New_Item(heap, k)
  <2>1. /\ a \in Nodes /\ heap[a].kind = "free"
        /\ g \in [Nodes -> Item] /\ Trees(g, s, owned \cup {a})
        /\ \A m \in Nodes : g[m].kind = (IF m = a THEN k ELSE heap[m].kind) /\ g[m].key = heap[m].key
    BY <1>1, <1>2, NewKeeps
  <2>2. heap' = g
    BY <1>2
  <2> HIDE DEF g, a
  <2> QED BY <2>1, <2>2, <1>2
<1>4. TreeInv' /\ s = [m \in Nodes |-> Children(heap', m)]
  BY <1>3, NextIs
<1> HIDE DEF a
<1>5. /\ [m \in Nodes |-> heap'[m].kind] = [[m \in Nodes |-> heap[m].kind] EXCEPT ![a] = k]
      /\ [m \in Nodes |-> heap'[m].key] = [m \in Nodes |-> heap[m].key]
  BY <1>3
<1>6. Trees_!Create(a, k)
  BY <1>1, <1>3, <1>4, <1>5 DEF Trees_!Create, Trees_!Free
<1> QED BY <1>4, <1>6 DEF a

\* cJSON_AddItemToArray.
LEMMA AddToArrayStep ==
    ASSUME TreeInv, NEW p \in Nodes, NEW n \in Nodes, MayPut(p, n), AddItemToArray(p, n)
    PROVE  TreeInv' /\ Trees_!Put(p, Len(Children(heap, p)) + 1, n, heap[n].key)
<1> DEFINE i == Len(Children(heap, p)) + 1
<1>1. heap' = add_item_to_array(heap, p, n) /\ owned' = owned \ {n}
  BY DEF AddItemToArray
<1>2. Trees(heap, Kids(heap), owned) /\ Kids(heap)[p] = Children(heap, p)
  BY ViewIs
<1>3. heap' \in [Nodes -> Item] /\ IsPut(heap, heap', Children(heap, p), p, i, n)
  BY <1>1, <1>2, MayPutIs, AddIs
<1>4. i \in 1 .. Len(Children(heap, p)) + 1
  BY FoundIs
<1> HIDE DEF i
<1> QED
  <2> DEFINE h == heap
  <2>1. PICK k : k = heap[n].key
    OBVIOUS
  <2>2. /\ \A m \in Nodes : h[m].kind = heap[m].kind /\ h[m].key = IF m = n THEN k ELSE heap[m].key
        /\ Trees(h, Kids(heap), owned) /\ IsPut(h, heap', Children(heap, p), p, i, n)
    BY <2>1, <1>2, <1>3
  <2> HIDE DEF h
  <2>3. TreeInv' /\ Trees_!Put(p, i, n, k)
    BY <1>1, <1>3, <1>4, <2>2, PutStep
  <2> QED BY <2>3, <2>1 DEF i, Trees_!Put

\* cJSON_AddItemToObject.
LEMMA AddToObjectStep ==
    ASSUME TreeInv, NEW p \in Nodes, NEW n \in Nodes, MayPut(p, n), NEW name \in Keys,
           AddItemToObject(p, n, name)
    PROVE  TreeInv' /\ Trees_!Put(p, Len(Children(heap, p)) + 1, n, name)
<1> DEFINE i == Len(Children(heap, p)) + 1
           h == [heap EXCEPT ![n].key = name]
<1>1. heap' = add_item_to_array(h, p, n) /\ owned' = owned \ {n}
  BY DEF AddItemToObject, add_item_to_object
<1>2. /\ Trees(heap, Kids(heap), owned) /\ Kids(heap)[p] = Children(heap, p)
      /\ heap[n].kind # "free" /\ n \in owned /\ heap[p].kind # "free" /\ p \notin Below(Kids(heap), n)
  BY ViewIs, MayPutIs
<1>3. /\ Trees(h, Kids(heap), owned)
      /\ \A m \in Nodes : h[m].kind = heap[m].kind /\ h[m].key = IF m = n THEN name ELSE heap[m].key
  <2> DEFINE s == Kids(heap)
  <2>1. Trees(heap, s, owned) /\ heap[n].kind # "free" /\ name \in Names
    BY <1>2 DEF Names
  <2> HIDE DEF s
  <2>2. /\ Trees(h, s, owned)
        /\ \A m \in Nodes : h[m].kind = heap[m].kind /\ h[m].key = IF m = n THEN name ELSE heap[m].key
    BY <2>1, RenameKeeps
  <2> QED BY <2>2 DEF s
<1> HIDE DEF h
<1>4. heap' \in [Nodes -> Item] /\ IsPut(h, heap', Children(heap, p), p, i, n)
  BY <1>1, <1>2, <1>3, AddIs
<1>5. i \in 1 .. Len(Children(heap, p)) + 1
  BY FoundIs
<1> HIDE DEF i
<1>6. TreeInv' /\ Trees_!Put(p, i, n, name)
  BY <1>1, <1>3, <1>4, <1>5, PutStep
<1> QED BY <1>6 DEF i

\* cJSON_InsertItemInArray.
LEMMA InsertStep ==
    ASSUME TreeInv, NEW p \in Nodes, NEW n \in Nodes, MayPut(p, n),
           NEW which \in 0 .. Len(Children(heap, p)), InsertItemInArray(p, which, n)
    PROVE  TreeInv' /\ Trees_!Put(p, which + 1, n, heap[n].key)
<1> DEFINE i == which + 1
<1>1. heap' = cJSON_InsertItemInArray(heap, p, which, n) /\ owned' = owned \ {n}
  BY DEF InsertItemInArray
<1>2. Trees(heap, Kids(heap), owned) /\ Kids(heap)[p] = Children(heap, p)
  BY ViewIs
<1>3. heap' \in [Nodes -> Item] /\ IsPut(heap, heap', Children(heap, p), p, i, n)
  BY <1>1, <1>2, MayPutIs, InsertIs
<1>4. i \in 1 .. Len(Children(heap, p)) + 1
  BY FoundIs
<1> HIDE DEF i
<1> QED
  <2> DEFINE h == heap
  <2>1. PICK k : k = heap[n].key
    OBVIOUS
  <2>2. /\ \A m \in Nodes : h[m].kind = heap[m].kind /\ h[m].key = IF m = n THEN k ELSE heap[m].key
        /\ Trees(h, Kids(heap), owned) /\ IsPut(h, heap', Children(heap, p), p, i, n)
    BY <2>1, <1>2, <1>3
  <2> HIDE DEF h
  <2>3. TreeInv' /\ Trees_!Put(p, i, n, k)
    BY <1>1, <1>3, <1>4, <2>2, PutStep
  <2> QED BY <2>3, <2>1 DEF i, Trees_!Put

\* cJSON_ReplaceItemInArray.
LEMMA ReplaceInArrayStep ==
    ASSUME TreeInv, NEW p \in Nodes, NEW n \in Nodes, MayPut(p, n),
           NEW which \in 0 .. Len(Children(heap, p)), ReplaceItemInArray(p, which, n)
    PROVE  TreeInv' /\ Trees_!Replace(p, which + 1, n, heap[n].key)
<1> DEFINE i == which + 1
           h == heap
<1>1. PICK k : k = heap[n].key
  OBVIOUS
<1>2. /\ get_array_item(heap, p, which) # NULL
      /\ heap' = cJSON_ReplaceItemViaPointer(heap, p, get_array_item(heap, p, which), n)
      /\ owned' = owned \ {n}
  BY DEF ReplaceItemInArray
<1>3. i \in 1 .. Len(Children(heap, p)) /\ get_array_item(heap, p, which) = Children(heap, p)[i]
  BY <1>2, FoundIs
<1>4. Trees(h, Kids(heap), owned)
  BY ViewIs
<1>5. \A m \in Nodes : h[m].kind = heap[m].kind /\ h[m].key = IF m = n THEN k ELSE heap[m].key
  BY <1>1
<1>6. heap' = cJSON_ReplaceItemViaPointer(h, p, Children(heap, p)[i], n)
  BY <1>2, <1>3
<1> HIDE DEF h, i
<1>7. TreeInv' /\ Trees_!Replace(p, i, n, k)
  BY <1>2, <1>3, <1>4, <1>5, <1>6, ReplaceStep
<1> QED BY <1>7, <1>1 DEF i, Trees_!Replace

\* cJSON_ReplaceItemInObject.
LEMMA ReplaceInObjectStep ==
    ASSUME TreeInv, NEW p \in Nodes, NEW n \in Nodes, MayPut(p, n), NEW name \in Keys,
           ReplaceItemInObject(p, name, n)
    PROVE  /\ TreeInv'
           /\ \/ Position(p, name) = 0 /\ Trees_!Rename(n, name)
              \/ Trees_!Replace(p, Position(p, name), n, name)
<1> DEFINE h == [heap EXCEPT ![n].key = name]
           i == Position(p, name)
           s == Kids(heap)
<1>1. /\ Trees(heap, s, owned) /\ heap[n].kind # "free" /\ Trees_!IsRoot(n)
      /\ s = [m \in Nodes |-> Children(heap, m)]
  BY ViewIs, MayPutIs DEF Kids
<1> HIDE DEF s
<1>2. /\ Trees(h, s, owned)
      /\ \A m \in Nodes : h[m].kind = heap[m].kind /\ h[m].key = IF m = n THEN name ELSE heap[m].key
  <2>1. Trees(heap, s, owned) /\ heap[n].kind # "free" /\ name \in Names
    BY <1>1 DEF Names
  <2> QED BY <2>1, RenameKeeps
<1>3. IF get_object_item(heap, p, name) = NULL THEN heap' = h /\ UNCHANGED owned
      ELSE /\ heap' = cJSON_ReplaceItemViaPointer(h, p, get_object_item(heap, p, name), n)
           /\ owned' = owned \ {n}
  BY DEF ReplaceItemInObject
<1> HIDE DEF h
<1>4. /\ i \in 0 .. Len(Children(heap, p)) /\ Len(Children(heap, p)) \in Nat
      /\ get_object_item(heap, p, name) = IF i = 0 THEN NULL ELSE Children(heap, p)[i]
      /\ \A j \in 1 .. Len(Children(heap, p)) : Children(heap, p)[j] # NULL
  BY FoundIs
<1> HIDE DEF i
<1>5. CASE i = 0
  <2>1. heap' = h /\ owned' = owned
    BY <1>3, <1>4, <1>5
  <2>2. TreeInv' /\ s = [m \in Nodes |-> Children(heap', m)]
    BY <2>1, <1>2, NextIs
  <2>3. /\ [m \in Nodes |-> heap'[m].kind] = [m \in Nodes |-> heap[m].kind]
        /\ [m \in Nodes |-> heap'[m].key] = [[m \in Nodes |-> heap[m].key] EXCEPT ![n] = name]
    BY <2>1, <1>2
  <2>4. Trees_!Rename(n, name)
    BY <2>2, <2>3, <1>1 DEF Trees_!Rename
  <2> QED BY <2>2, <2>4, <1>5 DEF i
<1>6. CASE i # 0
  <2>1. i \in 1 .. Len(Children(heap, p)) /\ get_object_item(heap, p, name) = Children(heap, p)[i]
    BY <1>4, <1>6
  <2>2. heap' = cJSON_ReplaceItemViaPointer(h, p, Children(heap, p)[i], n) /\ owned' = owned \ {n}
    BY <2>1, <1>3, <1>4
  <2>3. TreeInv' /\ Trees_!Replace(p, i, n, name)
    BY <2>1, <2>2, <1>2, ReplaceStep DEF s
  <2> QED BY <2>3 DEF i
<1> QED BY <1>5, <1>6

\* cJSON_ReplaceItemInObject without memory for the name.
LEMMA LosesNameStep ==
    ASSUME TreeInv, NEW p \in Nodes, NEW n \in Nodes, MayPut(p, n), ReplaceLosesName(p, n)
    PROVE  TreeInv' /\ Trees_!Rename(n, NoKey)
<1> DEFINE h == [heap EXCEPT ![n].key = NoKey]
           s == Kids(heap)
<1>1. /\ Trees(heap, s, owned) /\ heap[n].kind # "free" /\ Trees_!IsRoot(n)
      /\ s = [m \in Nodes |-> Children(heap, m)]
  BY ViewIs, MayPutIs DEF Kids
<1> HIDE DEF s
<1>2. /\ Trees(h, s, owned)
      /\ \A m \in Nodes : h[m].kind = heap[m].kind /\ h[m].key = IF m = n THEN NoKey ELSE heap[m].key
  <2>1. Trees(heap, s, owned) /\ heap[n].kind # "free" /\ NoKey \in Names
    BY <1>1 DEF Names
  <2> QED BY <2>1, RenameKeeps
<1>3. heap' = h /\ owned' = owned
  BY DEF ReplaceLosesName
<1> HIDE DEF h
<1>4. TreeInv' /\ s = [m \in Nodes |-> Children(heap', m)]
  BY <1>3, <1>2, NextIs
<1>5. /\ [m \in Nodes |-> heap'[m].kind] = [m \in Nodes |-> heap[m].kind]
      /\ [m \in Nodes |-> heap'[m].key] = [[m \in Nodes |-> heap[m].key] EXCEPT ![n] = NoKey]
  BY <1>3, <1>2
<1>6. Trees_!Rename(n, NoKey)
  BY <1>4, <1>5, <1>1 DEF Trees_!Rename
<1> QED BY <1>4, <1>6

\* cJSON_DetachItemFromArray.
LEMMA DetachFromArrayStep ==
    ASSUME TreeInv, NEW p \in Nodes, NEW which \in 0 .. Len(Children(heap, p)),
           DetachItemFromArray(p, which)
    PROVE  TreeInv' /\ Trees_!Take(p, which + 1)
<1> DEFINE i == which + 1
           item == get_array_item(heap, p, which)
<1>1. item # NULL /\ heap' = cJSON_DetachItemViaPointer(heap, p, item) /\ owned' = owned \cup {item}
  BY DEF DetachItemFromArray, Detach
<1>2. item # NULL => i \in 1 .. Len(Children(heap, p)) /\ item = Children(heap, p)[i]
  BY FoundIs
<1> HIDE DEF i, item
<1>3. TreeInv' /\ Trees_!Take(p, i)
  BY <1>1, <1>2, TakeStep
<1> QED BY <1>3 DEF i

\* cJSON_DetachItemFromObject.
LEMMA DetachFromObjectStep ==
    ASSUME TreeInv, NEW p \in Nodes, NEW name \in Keys, DetachItemFromObject(p, name)
    PROVE  TreeInv' /\ Trees_!Take(p, Position(p, name))
<1> DEFINE i == Position(p, name)
           item == get_object_item(heap, p, name)
<1>1. item # NULL /\ heap' = cJSON_DetachItemViaPointer(heap, p, item) /\ owned' = owned \cup {item}
  BY DEF DetachItemFromObject, Detach
<1>2. /\ i \in 0 .. Len(Children(heap, p)) /\ Len(Children(heap, p)) \in Nat
      /\ item = IF i = 0 THEN NULL ELSE Children(heap, p)[i]
  BY FoundIs
<1> HIDE DEF i, item
<1>3. i \in 1 .. Len(Children(heap, p)) /\ item = Children(heap, p)[i]
  BY <1>1, <1>2
<1>4. TreeInv' /\ Trees_!Take(p, i)
  BY <1>1, <1>3, TakeStep
<1> QED BY <1>4 DEF i

\* cJSON_AddNumberToObject and its like: a new item becomes the last child.
LEMMA AddNewStep ==
    ASSUME TreeInv, NEW p \in Nodes, NEW k \in Kinds, NEW name \in Keys, AddNewToObject(p, k, name)
    PROVE  TreeInv' /\ Trees_!CreateIn(p, Min(Free(heap)), k, name)
<1> DEFINE s == Kids(heap)
           u == Children(heap, p)
           i == Len(u) + 1
           h == cJSON_New_Item(heap, k)
<1>1. /\ Trees(heap, s, owned) /\ s = [m \in Nodes |-> Children(heap, m)]
      /\ s[p] = u /\ u \in Seq(Nodes) /\ Len(u) \in Nat
  BY ViewIs, FoundIs DEF Kids
<1>2. PICK a : a = Min(Free(heap))
  OBVIOUS
<1> DEFINE h1 == [h EXCEPT ![a].key = name]
<1>3. /\ heap[p].kind \in Containers /\ Free(heap) # {}
      /\ heap' = add_item_to_array(h1, p, a) /\ owned' = owned
  BY <1>2 DEF AddNewToObject, add_item_to_object, Container
<1> HIDE DEF s, u
<1>4. /\ a \in Nodes /\ heap[a].kind = "free" /\ s[a] = <<>> /\ a \notin owned
      /\ h \in [Nodes -> Item] /\ Trees(h, s, owned \cup {a})
      /\ \A m \in Nodes : h[m].kind = (IF m = a THEN k ELSE heap[m].kind) /\ h[m].key = heap[m].key
  <2> DEFINE b == Min(Free(heap))
  <2>1. /\ b \in Nodes /\ heap[b].kind = "free" /\ s[b] = <<>> /\ b \notin owned
        /\ h \in [Nodes -> Item] /\ Trees(h, s, owned \cup {b})
        /\ \A m \in Nodes : h[m].kind = (IF m = b THEN k ELSE heap[m].kind) /\ h[m].key = heap[m].key
    BY ZenonT(30), <1>1, <1>3, NewKeeps
  <2> HIDE DEF h
  <2> QED BY <2>1, <1>2
<1> HIDE DEF h
<1>5. p # a /\ heap[p].kind # "free" /\ k # "free"
  BY <1>3, <1>4, ListAssumption
<1>6. p \notin Below(s, a)
  <2>1. {a} \in SUBSET Nodes
    BY <1>4
  <2>2. \A q \in {a}, c \in Nodes : ChildOf(s, c, q) => c \in {a}
    BY <1>4 DEF ChildOf
  <2>3. Below(s, a) \subseteq {a}
    BY <2>1, <2>2, <1>4, BelowIs
  <2> QED BY <2>3, <1>5
<1>7. /\ Trees(h1, s, owned \cup {a})
      /\ \A m \in Nodes : /\ h1[m].kind = h[m].kind
                          /\ h1[m].key = IF m = a THEN name ELSE h[m].key
  <2>1. Trees(h, s, owned \cup {a}) /\ h[a].kind # "free"
    BY <1>4, <1>5
  <2> DEFINE held == owned \cup {a}
  <2>2. Trees(h, s, held) /\ h[a].kind # "free" /\ a \in Nodes /\ name \in Names
    BY <2>1, <1>4 DEF Names
  <2> HIDE DEF held
  <2>3. Trees(h1, s, held) /\ \A m \in Nodes : /\ h1[m].kind = h[m].kind
                                              /\ h1[m].key = IF m = a THEN name ELSE h[m].key
    BY <2>2, RenameKeeps
  <2> QED BY <2>3 DEF held
<1> HIDE DEF h1
<1>8. h1[p].kind # "free"
  BY <1>4, <1>5, <1>7
<1>9. heap' \in [Nodes -> Item] /\ IsPut(h1, heap', s[p], p, Len(s[p]) + 1, a)
  <2> DEFINE held == owned \cup {a}
  <2>1. Trees(h1, s, held) /\ a \in held
    BY <1>7
  <2> HIDE DEF held
  <2> QED BY <2>1, <1>3, <1>6, <1>8, AddIs
<1> DEFINE t == [s EXCEPT ![p] = InsertAt(@, i, a)]
<1>10. Trees(heap', t, owned')
  <2> DEFINE held == owned \cup {a}
  <2>1. Trees(h1, s, held) /\ a \in held /\ i \in 1 .. Len(s[p]) + 1 /\ i = Len(s[p]) + 1
    BY <1>1, <1>7
  <2>2. held \ {a} = owned'
    BY <1>3, <1>4
  <2> HIDE DEF held, i
  <2>3. Trees(heap', t, held \ {a})
    BY <2>1, <1>6, <1>8, <1>9, PutKeeps
  <2> QED BY <2>2, <2>3
<1>11. TreeInv' /\ t = [m \in Nodes |-> Children(heap', m)]
  <2> HIDE DEF t
  <2> QED BY <1>10, NextIs
<1>12. InsertAt(u, i, a) = Append(u, a)
  <2> DEFINE v == InsertAt(u, i, a)
             w == Append(u, a)
  <2>1. i \in 1 .. Len(u) + 1
    BY <1>1
  <2>2. /\ v \in Seq(Nodes) /\ Len(v) = Len(u) + 1
        /\ \A j \in 1 .. Len(u) + 1 : v[j] = IF j < i THEN u[j] ELSE IF j = i THEN a ELSE u[j-1]
    <3> HIDE DEF i
    <3>1. /\ InsertAt(u, i, a) \in Seq(Nodes) /\ Len(InsertAt(u, i, a)) = Len(u) + 1
          /\ \A j \in 1 .. Len(u) + 1 :
                InsertAt(u, i, a)[j] = IF j < i THEN u[j] ELSE IF j = i THEN a ELSE u[j-1]
      BY <2>1, <1>1, <1>4, InsertAtIs
    <3> QED BY <3>1
  <2> HIDE DEF v
  <2>3. /\ w \in Seq(Nodes) /\ Len(w) = Len(u) + 1
        /\ \A j \in 1 .. Len(u) : w[j] = u[j]
        /\ w[Len(u) + 1] = a
    BY <1>1, <1>4, AppendProperties
  <2> HIDE DEF w
  <2>4. \A j \in 1 .. Len(u) + 1 : v[j] = w[j]
    <3> TAKE j \in 1 .. Len(u) + 1
    <3>1. CASE j = Len(u) + 1
      BY <3>1, <2>2, <2>3, <1>1
    <3>2. CASE j # Len(u) + 1
      <4>1. j \in 1 .. Len(u) /\ j < i
        BY <3>2, <1>1
      <4> QED BY <4>1, <2>2, <2>3
    <3> QED BY <3>1, <3>2
  <2>5. v = w
    BY <2>2, <2>3, <2>4, SeqEqual
  <2> QED BY <2>5 DEF v, w
<1>13. \A m \in Nodes : /\ heap'[m].kind = IF m = a THEN k ELSE heap[m].kind
                        /\ heap'[m].key = IF m = a THEN name ELSE heap[m].key
  BY <1>4, <1>7, <1>9 DEF IsPut
<1>14. /\ [m \in Nodes |-> heap'[m].kind] = [[m \in Nodes |-> heap[m].kind] EXCEPT ![a] = k]
       /\ [m \in Nodes |-> heap'[m].key] = [[m \in Nodes |-> heap[m].key] EXCEPT ![a] = name]
  BY <1>13
<1>15. t = [s EXCEPT ![p] = Append(@, a)]
  <2> HIDE DEF i
  <2> QED BY <1>1, <1>12
<1>16. Trees_!CreateIn(p, a, k, name)
  <2>1. [m \in Nodes |-> Children(heap', m)]
           = [[m \in Nodes |-> Children(heap, m)] EXCEPT ![p] = Append(@, a)]
    <3> HIDE DEF t
    <3> QED BY <1>1, <1>11, <1>15
  <2> QED BY <2>1, <1>4, <1>14 DEF Trees_!CreateIn, Trees_!Free
<1> QED BY <1>2, <1>11, <1>16 DEF Trees_!CreateIn

\* cJSON_Delete.
LEMMA DeleteStep ==
    ASSUME TreeInv, NEW n \in Nodes, Delete(n)
    PROVE  TreeInv' /\ Trees_!Delete(n)
<1> DEFINE s == Kids(heap)
           B == Below(s, n)
           t == Without(s, n)
<1>1. /\ Trees(heap, s, owned) /\ s = [m \in Nodes |-> Children(heap, m)]
      /\ Trees_!Subtree(n) = B
  BY ViewIs DEF Kids
<1>2. n \in owned /\ heap' = cJSON_Delete(heap, n) /\ owned' = owned \ {n}
  BY DEF Delete
<1>3. Trees_!IsRoot(n)
  BY <1>2, ViewIs
<1> HIDE DEF s
<1>4. /\ Trees(heap', t, owned')
      /\ \A m \in Nodes : heap'[m] = IF m \in B THEN FreeItem ELSE heap[m]
  <2> DEFINE g == cJSON_Delete(heap, n)
  <2>1. /\ Trees(g, t, owned \ {n})
        /\ \A m \in Nodes : g[m] = IF m \in B THEN FreeItem ELSE heap[m]
    BY <1>1, <1>2, DeleteKeeps
  <2>2. heap' = g
    BY <1>2
  <2> HIDE DEF g, t, B
  <2> QED BY <2>1, <2>2, <1>2
<1>5. TreeInv' /\ t = [m \in Nodes |-> Children(heap', m)]
  <2> HIDE DEF t
  <2> QED BY <1>4, NextIs
<1>6. t = [m \in Nodes |-> IF m \in B THEN <<>> ELSE s[m]]
  BY DEF Without
<1> HIDE DEF t, B
<1>7. FreeItem.kind = "free" /\ FreeItem.key = NoKey
  BY DEF FreeItem
<1>8. /\ [m \in Nodes |-> heap'[m].kind] = [m \in Nodes |-> IF m \in B THEN "free" ELSE heap[m].kind]
      /\ [m \in Nodes |-> heap'[m].key] = [m \in Nodes |-> IF m \in B THEN NoKey ELSE heap[m].key]
  BY <1>4, <1>7
<1>9. Trees_!Delete(n)
  BY <1>1, <1>3, <1>5, <1>6, <1>8 DEF Trees_!Delete
<1> QED BY <1>5, <1>9

-----------------------------------------------------------------------------
(* Copies: new[m] is the copy of m                                         *)

\* There are as many free items as a copy needs.
LEMMA InjectionExists ==
    ASSUME NEW S, NEW T, IsFiniteSet(S), IsFiniteSet(T), Cardinality(S) <= Cardinality(T)
    PROVE  \E c : c \in Injection(S, T)
<1> DEFINE k == Cardinality(S)
           l == Cardinality(T)
<1>1. k \in Nat /\ l \in Nat /\ k <= l /\ ExistsBijection(1 .. k, S) /\ ExistsBijection(1 .. l, T)
  BY FS_CardinalityType
<1> HIDE DEF k, l
<1>2. ExistsInjection(S, 1 .. k)
  <2>1. ExistsBijection(S, 1 .. k)
    BY <1>1, Fun_ExistsBijSymmetric
  <2> QED BY <2>1, Fun_ExistsBijEquiv
<1>3. ExistsInjection(1 .. k, 1 .. l)
  BY <1>1, Fun_NatInjLeq
<1>4. ExistsInjection(1 .. l, T)
  BY <1>1, Fun_ExistsBijEquiv
<1>5. ExistsInjection(S, T)
  <2>1. ExistsInjection(S, 1 .. l)
    BY <1>2, <1>3, Fun_ExistsInjTransitive
  <2> QED BY <2>1, <1>4, Fun_ExistsInjTransitive
<1> QED BY <1>5, Fun_ExistsInj

\* The item that o is a copy of.
Original(new, o) == CHOOSE m \in DOMAIN new : new[m] = o

IsCopy(new, o) == \E m \in DOMAIN new : new[m] = o

\* Each copy has one original.
LEMMA OriginalIs ==
    ASSUME NEW D, NEW F, NEW new \in Injection(D, F)
    PROVE  /\ DOMAIN new = D /\ \A m \in D : new[m] \in F /\ IsCopy(new, new[m])
           /\ \A m, o \in D : new[m] = new[o] => m = o
           /\ \A m \in D : Original(new, new[m]) = m
           /\ \A o : IsCopy(new, o) => Original(new, o) \in D /\ new[Original(new, o)] = o
<1>1. DOMAIN new = D /\ (\A m \in D : new[m] \in F) /\ \A m, o \in D : new[m] = new[o] => m = o
  BY DEF Injection, IsInjective
<1>2. \A o : IsCopy(new, o) => Original(new, o) \in D /\ new[Original(new, o)] = o
  BY <1>1 DEF Original, IsCopy
<1>3. \A m \in D : IsCopy(new, new[m])
  BY <1>1 DEF IsCopy
<1> QED BY <1>1, <1>2, <1>3

\* The sequences with the copies.
Copies(s, new) ==
    [o \in Nodes |-> IF IsCopy(new, o)
                     THEN [i \in DOMAIN s[Original(new, o)] |-> new[s[Original(new, o)][i]]]
                     ELSE s[o]]

\* What cJSON_Duplicate must do to the pointers.
IsCopied(h, g, s, n, new) ==
    /\ \A m \in DOMAIN new :
          /\ g[new[m]].kind = h[m].kind /\ g[new[m]].key = h[m].key
          /\ g[new[m]].child = IF h[m].child = NULL THEN NULL ELSE new[h[m].child]
          /\ g[new[m]].next = IF m = n \/ h[m].next = NULL THEN NULL ELSE new[h[m].next]
    /\ \A q \in DOMAIN new : \A i \in 1 .. Len(s[q]) :
          g[new[s[q][i]]].prev = new[IF i = 1 THEN s[q][Len(s[q])] ELSE s[q][i-1]]
    /\ \A o \in Nodes : ~IsCopy(new, o) => g[o] = h[o]

\* Then the forest has a copy of what is below n, which the program holds.
LEMMA DuplicateKeeps ==
    ASSUME NEW h, NEW s, NEW o, Trees(h, s, o), NEW n \in Nodes, h[n].kind # "free",
           NEW new \in Injection(Below(s, n), Free(h)),
           NEW g \in [Nodes -> Item], IsCopied(h, g, s, n, new)
    PROVE  Trees(g, Copies(s, new), o \cup {new[n]})
<1> DEFINE D == Below(s, n)
           F == Free(h)
           t == Copies(s, new)
<1>1. /\ s \in [Nodes -> Seq(Nodes)] /\ Once(s) /\ Rooted(s) /\ Linked(h, s) /\ Held(h, s, o)
      /\ h \in [Nodes -> Item]
  BY DEF Trees, Forest
<1>2. /\ \A m \in Nodes : h[m].kind = "free" => h[m] = FreeItem
      /\ \A q \in Nodes : \A j \in 1 .. Len(s[q]) : h[s[q][j]].kind # "free"
      /\ o = {m \in Nodes : h[m].kind # "free" /\ \A q \in Nodes : ~ChildOf(s, m, q)}
      /\ \A m \in o : h[m].next = NULL
  BY <1>1 DEF Held
<1>3. /\ D \subseteq Nodes /\ n \in D
      /\ \A k \in D, c \in Nodes : ChildOf(s, c, k) => c \in D
      /\ \A m \in D : m = n \/ \E k \in D : ChildOf(s, m, k)
      /\ \A q \in D : ~ChildOf(s, n, q)
  BY <1>1, BelowIs, NotBelowItself
<1>4. /\ DOMAIN new = D /\ \A m \in D : new[m] \in F /\ IsCopy(new, new[m])
      /\ \A m, c \in D : new[m] = new[c] => m = c
      /\ \A m \in D : Original(new, new[m]) = m
      /\ \A c : IsCopy(new, c) => Original(new, c) \in D /\ new[Original(new, c)] = c
  BY OriginalIs
<1>5. F \subseteq Nodes /\ \A m \in Nodes : m \in F <=> h[m].kind = "free"
  BY DEF Free
<1>6. /\ \A m \in D :
            /\ g[new[m]].kind = h[m].kind /\ g[new[m]].key = h[m].key
            /\ g[new[m]].child = IF h[m].child = NULL THEN NULL ELSE new[h[m].child]
            /\ g[new[m]].next = IF m = n \/ h[m].next = NULL THEN NULL ELSE new[h[m].next]
      /\ \A q \in D : \A i \in 1 .. Len(s[q]) :
            g[new[s[q][i]]].prev = new[IF i = 1 THEN s[q][Len(s[q])] ELSE s[q][i-1]]
      /\ \A c \in Nodes : ~IsCopy(new, c) => g[c] = h[c]
  BY <1>4 DEF IsCopied
<1> HIDE DEF D, F, t
<1>7. \A q \in Nodes : /\ s[q] \in Seq(Nodes) /\ Len(s[q]) \in Nat /\ DOMAIN s[q] = 1 .. Len(s[q])
                       /\ \A j \in 1 .. Len(s[q]) : s[q][j] \in Nodes /\ ChildOf(s, s[q][j], q)
  BY <1>1, LenProperties, ElementOfSeq DEF ChildOf
<1>8. \A c : IsCopy(new, c) => c \in Nodes /\ h[c].kind = "free"
  BY <1>4, <1>5
<1>9. \A c, q \in Nodes : ChildOf(s, c, q) => ~IsCopy(new, c)
  BY <1>2, <1>8 DEF ChildOf
<1>10. \A q \in D : \A j \in 1 .. Len(s[q]) : s[q][j] \in D /\ s[q][j] # n
  BY <1>3, <1>7
<1>11. /\ \A q \in Nodes : ~IsCopy(new, q) => t[q] = s[q]
       /\ \A m \in D : t[new[m]] = [i \in 1 .. Len(s[m]) |-> new[s[m][i]]]
  <2>1. \A q \in Nodes : ~IsCopy(new, q) => t[q] = s[q]
    BY DEF t, Copies
  <2>2. ASSUME NEW m \in D
        PROVE  t[new[m]] = [i \in 1 .. Len(s[m]) |-> new[s[m][i]]]
    <3>1. new[m] \in Nodes /\ IsCopy(new, new[m]) /\ Original(new, new[m]) = m
      BY <1>4, <1>8
    <3>2. t[new[m]] = [i \in DOMAIN s[Original(new, new[m])] |-> new[s[Original(new, new[m])][i]]]
      BY <3>1 DEF t, Copies
    <3>3. DOMAIN s[m] = 1 .. Len(s[m])
      BY <1>3, <1>7
    <3> QED BY <3>1, <3>2, <3>3
  <2> QED BY <2>1, <2>2
<1>12. \A m \in D : /\ t[new[m]] \in Seq(Nodes) /\ Len(t[new[m]]) = Len(s[m])
                    /\ \A i \in 1 .. Len(s[m]) : t[new[m]][i] = new[s[m][i]]
  <2> SUFFICES ASSUME NEW m \in D
               PROVE  /\ t[new[m]] \in Seq(Nodes) /\ Len(t[new[m]]) = Len(s[m])
                      /\ \A i \in 1 .. Len(s[m]) : t[new[m]][i] = new[s[m][i]]
    OBVIOUS
  <2> DEFINE len == Len(s[m])
             f == [i \in 1 .. len |-> new[s[m][i]]]
  <2>1. len \in Nat
    BY <1>3, <1>7
  <2>2. \A i \in 1 .. len : new[s[m][i]] \in Nodes
    BY <1>4, <1>5, <1>10
  <2>3. t[new[m]] = f
    BY <1>11
  <2> HIDE DEF len
  <2>4. f \in [1 .. len -> Nodes]
    BY <2>2
  <2>5. f \in Seq(Nodes)
    <3> HIDE DEF f
    <3> QED BY <2>1, <2>4, SeqDef
  <2>6. \A i \in 1 .. len : f[i] = new[s[m][i]]
    OBVIOUS
  <2>7. Len(f) = len
    <3> HIDE DEF f
    <3>1. DOMAIN f = 1 .. len /\ DOMAIN f = 1 .. Len(f) /\ Len(f) \in Nat
      BY <2>4, <2>5, LenProperties
    <3> QED BY <3>1, <2>1
  <2> QED BY <2>3, <2>5, <2>6, <2>7 DEF len
<1>13. t \in [Nodes -> Seq(Nodes)]
  <2>1. ASSUME NEW q \in Nodes
        PROVE  t[q] \in Seq(Nodes)
    <3>1. CASE IsCopy(new, q)
      <4>1. Original(new, q) \in D /\ new[Original(new, q)] = q
        BY <3>1, <1>4
      <4> QED BY <4>1, <1>12
    <3>2. CASE ~IsCopy(new, q)
      BY <3>2, <1>7, <1>11
    <3> QED BY <3>1, <3>2
  <2>2. t = [q \in Nodes |-> t[q]]
    BY DEF t, Copies
  <2> QED BY <2>1, <2>2
<1>14. \A c, q \in Nodes : ~IsCopy(new, q) => (ChildOf(t, c, q) <=> ChildOf(s, c, q))
  <2> SUFFICES ASSUME NEW c \in Nodes, NEW q \in Nodes, ~IsCopy(new, q)
               PROVE  ChildOf(t, c, q) <=> ChildOf(s, c, q)
    OBVIOUS
  <2>1. t[q] = s[q]
    BY <1>11
  <2> QED BY <2>1 DEF ChildOf
<1>15. \A m \in D, c \in Nodes :
          ChildOf(t, c, new[m]) <=> \E a \in D : c = new[a] /\ ChildOf(s, a, m)
  <2> SUFFICES ASSUME NEW m \in D, NEW c \in Nodes
               PROVE  ChildOf(t, c, new[m]) <=> \E a \in D : c = new[a] /\ ChildOf(s, a, m)
    OBVIOUS
  <2>1. ChildOf(t, c, new[m]) <=> \E i \in 1 .. Len(s[m]) : new[s[m][i]] = c
    BY <1>12 DEF ChildOf
  <2>2. \A i \in 1 .. Len(s[m]) : s[m][i] \in D
    BY <1>10
  <2> QED BY <2>1, <2>2 DEF ChildOf
<1>16. Once(t)
  <2> SUFFICES ASSUME NEW p \in Nodes, NEW q \in Nodes,
                      NEW i \in 1 .. Len(t[p]), NEW j \in 1 .. Len(t[q]), t[p][i] = t[q][j]
               PROVE  p = q /\ i = j
    BY DEF Once
  <2>1. ASSUME NEW r \in Nodes, IsCopy(new, r), NEW k \in 1 .. Len(t[r])
        PROVE  /\ Original(new, r) \in D /\ new[Original(new, r)] = r
               /\ k \in 1 .. Len(s[Original(new, r)])
               /\ s[Original(new, r)][k] \in D
               /\ t[r][k] = new[s[Original(new, r)][k]]
    BY <2>1, <1>4, <1>10, <1>12
  <2>2. ASSUME NEW r \in Nodes, ~IsCopy(new, r), NEW k \in 1 .. Len(t[r])
        PROVE  k \in 1 .. Len(s[r]) /\ t[r][k] = s[r][k] /\ ~IsCopy(new, t[r][k])
    BY <2>2, <1>7, <1>9, <1>11
  <2>3. CASE IsCopy(new, p) /\ IsCopy(new, q)
    <3> DEFINE a == Original(new, p)
               b == Original(new, q)
    <3>1. /\ a \in D /\ b \in D /\ new[a] = p /\ new[b] = q
          /\ i \in 1 .. Len(s[a]) /\ j \in 1 .. Len(s[b])
          /\ s[a][i] \in D /\ s[b][j] \in D /\ new[s[a][i]] = new[s[b][j]]
      BY <2>1, <2>3
    <3> HIDE DEF a, b
    <3>2. s[a][i] = s[b][j] /\ a \in Nodes /\ b \in Nodes
      BY <3>1, <1>3, <1>4
    <3>3. a = b /\ i = j
      BY SMTT(30), <3>1, <3>2, <1>1 DEF Once
    <3> QED BY <3>1, <3>3
  <2>4. CASE ~IsCopy(new, p) /\ ~IsCopy(new, q)
    <3>1. i \in 1 .. Len(s[p]) /\ j \in 1 .. Len(s[q]) /\ s[p][i] = s[q][j]
      BY <2>2, <2>4
    <3> QED BY <3>1, <1>1 DEF Once
  <2>5. CASE IsCopy(new, p) /\ ~IsCopy(new, q)
    BY SMTT(30), <2>1, <2>2, <2>5, <1>4
  <2>6. CASE ~IsCopy(new, p) /\ IsCopy(new, q)
    BY <2>1, <2>2, <2>6, <1>4
  <2> QED BY <2>3, <2>4, <2>5, <2>6
<1>17. Rooted(t)
  <2> SUFFICES ASSUME NEW S \in SUBSET Nodes, S # {}
               PROVE  \E m \in S : \A q \in S : ~ChildOf(t, m, q)
    BY DEF Rooted
  <2>1. CASE \E c \in S : ~IsCopy(new, c)
    <3> DEFINE T == {c \in S : ~IsCopy(new, c)}
    <3>1. T \in SUBSET Nodes /\ T # {} /\ T \subseteq S
      BY <2>1
    <3>2. \A c \in S : c \in T <=> ~IsCopy(new, c)
      OBVIOUS
    <3> HIDE DEF T
    <3>3. PICK m \in T : \A q \in T : ~ChildOf(s, m, q)
      BY <3>1, <1>1 DEF Rooted
    <3>4. ASSUME NEW q \in S, ChildOf(t, m, q)
          PROVE  FALSE
      <4>1. CASE IsCopy(new, q)
        <5>1. Original(new, q) \in D /\ new[Original(new, q)] = q
          BY <4>1, <1>4
        <5>2. \E a \in D : m = new[a]
          BY <5>1, <3>1, <3>3, <3>4, <1>15
        <5> QED BY <5>2, <3>1, <3>2, <3>3, <1>4
      <4>2. CASE ~IsCopy(new, q)
        BY <4>2, <3>1, <3>2, <3>3, <3>4, <1>14
      <4> QED BY <4>1, <4>2
    <3> QED BY <3>1, <3>3, <3>4
  <2>2. CASE \A c \in S : IsCopy(new, c)
    <3> DEFINE T == {m \in D : new[m] \in S}
    <3>1. T \in SUBSET Nodes /\ T # {}
      BY <2>2, <1>3, <1>4
    <3>2. \A m \in D : m \in T <=> new[m] \in S
      OBVIOUS
    <3>3. T \subseteq D
      OBVIOUS
    <3> HIDE DEF T
    <3>4. PICK m \in T : \A q \in T : ~ChildOf(s, m, q)
      BY <3>1, <1>1 DEF Rooted
    <3>5. ASSUME NEW q \in S, ChildOf(t, new[m], q)
          PROVE  FALSE
      <4> DEFINE b == Original(new, q)
      <4>1. b \in D /\ new[b] = q
        BY <2>2, <1>4
      <4> HIDE DEF b
      <4>2. b \in T
        BY <4>1, <3>2
      <4>3. m \in D /\ new[m] \in Nodes
        BY <3>2, <3>3, <3>4
      <4>4. PICK a \in D : new[m] = new[a] /\ ChildOf(s, a, b)
        BY <4>1, <4>3, <3>5, <1>15
      <4>5. a = m
        BY <4>3, <4>4, <1>4
      <4> QED BY <4>2, <4>4, <4>5, <3>4
    <3> QED BY <3>2, <3>3, <3>4, <3>5
  <2> QED BY <2>1, <2>2
<1>18. Linked(g, t)
  <2> SUFFICES ASSUME NEW q \in Nodes
               PROVE  /\ g[q].child = First(t[q])
                      /\ \A j \in 1 .. Len(t[q]) :
                            /\ g[t[q][j]].next = IF j = Len(t[q]) THEN NULL ELSE t[q][j+1]
                            /\ g[t[q][j]].prev = IF j = 1 THEN t[q][Len(t[q])] ELSE t[q][j-1]
    BY DEF Linked
  <2>1. \A m \in Nodes :
           /\ h[m].child = First(s[m])
           /\ \A j \in 1 .. Len(s[m]) :
                 /\ h[s[m][j]].next = IF j = Len(s[m]) THEN NULL ELSE s[m][j+1]
                 /\ h[s[m][j]].prev = IF j = 1 THEN s[m][Len(s[m])] ELSE s[m][j-1]
    BY <1>1 DEF Linked
  <2>2. CASE ~IsCopy(new, q)
    <3>1. g[q] = h[q] /\ \A j \in 1 .. Len(s[q]) : g[s[q][j]] = h[s[q][j]]
      BY <2>2, <1>6, <1>7, <1>9
    <3>2. /\ g[q].child = First(s[q])
          /\ \A j \in 1 .. Len(s[q]) :
                /\ g[s[q][j]].next = IF j = Len(s[q]) THEN NULL ELSE s[q][j+1]
                /\ g[s[q][j]].prev = IF j = 1 THEN s[q][Len(s[q])] ELSE s[q][j-1]
      BY SMTT(30), <3>1, <2>1
    <3>3. t[q] = s[q]
      BY <2>2, <1>11
    <3> QED BY <3>2, <3>3
  <2>3. CASE IsCopy(new, q)
    <3> DEFINE m == Original(new, q)
               u == s[m]
               v == t[q]
    <3>1. m \in D /\ new[m] = q /\ m \in Nodes
      BY <2>3, <1>3, <1>4
    <3>2. /\ Len(u) \in Nat /\ Len(v) = Len(u) /\ \A i \in 1 .. Len(u) : v[i] = new[u[i]]
          /\ \A i \in 1 .. Len(u) : u[i] \in D /\ u[i] # n /\ u[i] # NULL
      BY ZenonT(30), <3>1, <1>3, <1>7, <1>10, <1>12, ListAssumption
    <3>3. /\ h[m].child = First(u)
          /\ \A i \in 1 .. Len(u) : h[u[i]].next = IF i = Len(u) THEN NULL ELSE u[i+1]
          /\ g[q].child = IF h[m].child = NULL THEN NULL ELSE new[h[m].child]
          /\ \A i \in 1 .. Len(u) :
                g[new[u[i]]].prev = new[IF i = 1 THEN u[Len(u)] ELSE u[i-1]]
      BY <3>1, <2>1, <1>6
    <3> HIDE DEF m, u, v
    <3>4. \A i \in 1 .. Len(u) :
             g[new[u[i]]].next = IF h[u[i]].next = NULL THEN NULL ELSE new[h[u[i]].next]
      BY <3>2, <1>6
    <3>5. g[q].child = First(v)
      <4>1. Len(u) # 0 => 1 \in 1 .. Len(u)
        BY <3>2
      <4> QED BY <4>1, <3>2, <3>3 DEF First
    <3>6. ASSUME NEW j \in 1 .. Len(v)
          PROVE  /\ g[v[j]].next = IF j = Len(v) THEN NULL ELSE v[j+1]
                 /\ g[v[j]].prev = IF j = 1 THEN v[Len(v)] ELSE v[j-1]
      <4>1. /\ j \in 1 .. Len(u) /\ Len(u) \in 1 .. Len(u)
            /\ j # Len(u) => j + 1 \in 1 .. Len(u)
            /\ j # 1 => j - 1 \in 1 .. Len(u)
        BY <3>2
      <4>2. g[v[j]].next = IF j = Len(v) THEN NULL ELSE v[j+1]
        <5>1. CASE j = Len(u)
          BY <5>1, <4>1, <3>2, <3>3, <3>4
        <5>2. CASE j # Len(u)
          <6>1. h[u[j]].next = u[j+1] /\ u[j+1] # NULL /\ v[j+1] = new[u[j+1]] /\ v[j] = new[u[j]]
            BY <5>2, <4>1, <3>2, <3>3
          <6> QED BY <6>1, <5>2, <4>1, <3>2, <3>4
        <5> QED BY <5>1, <5>2
      <4>3. g[v[j]].prev = IF j = 1 THEN v[Len(v)] ELSE v[j-1]
        BY <4>1, <3>2, <3>3
      <4> QED BY <4>2, <4>3
    <3> QED BY <3>5, <3>6 DEF v
  <2> QED BY <2>2, <2>3
<1>19. \A m \in D : h[m].kind # "free"
  <2> SUFFICES ASSUME NEW m \in D, m # n PROVE h[m].kind # "free"
    OBVIOUS
  <2>1. PICK k \in D : ChildOf(s, m, k)
    BY <1>3
  <2> QED BY <2>1, <1>2, <1>3 DEF ChildOf
<1>20. Held(g, t, o \cup {new[n]})
  <2>1. \A m \in Nodes : g[m].kind = "free" => g[m] = FreeItem
    <3> SUFFICES ASSUME NEW m \in Nodes, g[m].kind = "free" PROVE g[m] = FreeItem
      OBVIOUS
    <3>1. ~IsCopy(new, m)
      BY <1>4, <1>6, <1>19
    <3> QED BY <3>1, <1>2, <1>6
  <2>2. \A m \in D : g[new[m]].kind # "free"
    BY <1>6, <1>19
  <2>3. ASSUME NEW q \in Nodes, NEW j \in 1 .. Len(t[q])
        PROVE  g[t[q][j]].kind # "free"
    <3>1. t[q][j] \in Nodes /\ ChildOf(t, t[q][j], q)
      BY <1>13, LenProperties, ElementOfSeq DEF ChildOf
    <3>2. CASE IsCopy(new, q)
      <4>1. Original(new, q) \in D /\ new[Original(new, q)] = q
        BY <3>2, <1>4
      <4>2. \E a \in D : t[q][j] = new[a]
        BY <4>1, <3>1, <1>15
      <4> QED BY <4>2, <2>2
    <3>3. CASE ~IsCopy(new, q)
      <4>1. ChildOf(s, t[q][j], q)
        BY <3>1, <3>3, <1>14
      <4>2. g[t[q][j]] = h[t[q][j]]
        BY <4>1, <3>1, <1>6, <1>9
      <4> QED BY <4>1, <4>2, <1>2 DEF ChildOf
    <3> QED BY <3>2, <3>3
  <2>4. o \cup {new[n]} = {m \in Nodes : g[m].kind # "free" /\ \A q \in Nodes : ~ChildOf(t, m, q)}
    <3>1. ASSUME NEW m \in Nodes, ~IsCopy(new, m)
          PROVE  m \in o \cup {new[n]} <=> g[m].kind # "free" /\ \A q \in Nodes : ~ChildOf(t, m, q)
      <4>1. m # new[n] /\ g[m] = h[m]
        BY <3>1, <1>3, <1>4, <1>6
      <4>2. ASSUME NEW q \in Nodes
            PROVE  ChildOf(t, m, q) <=> ChildOf(s, m, q)
        <5>1. CASE IsCopy(new, q)
          <6>1. Original(new, q) \in D /\ new[Original(new, q)] = q
            BY <5>1, <1>4
          <6>2. ~ChildOf(t, m, q)
            BY <6>1, <3>1, <1>4, <1>15
          <6>3. ~ChildOf(s, m, q)
            <7>1. h[q].child = NULL
              BY <5>1, <1>2, <1>8 DEF FreeItem
            <7>2. First(s[q]) = NULL /\ Len(s[q]) \in Nat
              BY <7>1, <1>1, <1>7 DEF Linked
            <7>3. Len(s[q]) # 0 => s[q][1] \in Nodes
              BY <7>2, <1>7
            <7>4. Len(s[q]) = 0
              BY <7>2, <7>3, ListAssumption DEF First
            <7> QED BY <7>4 DEF ChildOf
          <6> QED BY <6>2, <6>3
        <5>2. CASE ~IsCopy(new, q)
          BY <5>2, <1>14
        <5> QED BY <5>1, <5>2
      <4> QED BY <4>1, <4>2, <1>2
    <3>2. ASSUME NEW a \in D
          PROVE  new[a] \in o \cup {new[n]}
                    <=> g[new[a]].kind # "free" /\ \A q \in Nodes : ~ChildOf(t, new[a], q)
      <4>1. new[a] \in Nodes /\ new[a] \notin o /\ g[new[a]].kind # "free"
        BY <1>2, <1>4, <1>8, <2>2
      <4>2. CASE a = n
        <5> SUFFICES ASSUME NEW q \in Nodes, ChildOf(t, new[n], q) PROVE FALSE
          BY <4>1, <4>2
        <5>1. CASE IsCopy(new, q)
          <6> DEFINE b == Original(new, q)
          <6>1. b \in D /\ new[b] = q
            BY <5>1, <1>4
          <6> HIDE DEF b
          <6>2. PICK c \in D : new[n] = new[c] /\ ChildOf(s, c, b)
            BY <6>1, <4>1, <4>2, <1>15
          <6>3. c = n
            BY <6>2, <1>3, <1>4
          <6> QED BY <6>1, <6>2, <6>3, <1>3
        <5>2. CASE ~IsCopy(new, q)
          <6>1. ChildOf(s, new[n], q)
            BY <5>2, <4>1, <4>2, <1>14
          <6> QED BY <6>1, <4>1, <4>2, <1>4, <1>9
        <5> QED BY <5>1, <5>2
      <4>3. CASE a # n
        <5>1. PICK k \in D : ChildOf(s, a, k)
          BY <4>3, <1>3
        <5>2. ChildOf(t, new[a], new[k]) /\ new[k] \in Nodes
          BY <5>1, <4>1, <1>4, <1>8, <1>15
        <5>3. new[a] # new[n]
          BY <4>3, <1>3, <1>4
        <5> QED BY <5>2, <5>3, <4>1
      <4> QED BY <4>2, <4>3
    <3>3. \A m \in Nodes : m \in o \cup {new[n]} <=> g[m].kind # "free" /\ \A q \in Nodes : ~ChildOf(t, m, q)
      <4> TAKE m \in Nodes
      <4>1. CASE IsCopy(new, m)
        <5>1. Original(new, m) \in D /\ new[Original(new, m)] = m
          BY <4>1, <1>4
        <5> QED BY <5>1, <3>2
      <4>2. CASE ~IsCopy(new, m)
        BY <4>2, <3>1
      <4> QED BY <4>1, <4>2
    <3>4. o \subseteq Nodes /\ new[n] \in Nodes
      BY <1>2, <1>3, <1>4, <1>8
    <3> QED BY <3>3, <3>4
  <2>5. \A m \in o \cup {new[n]} : g[m].next = NULL
    <3>1. g[new[n]].next = NULL
      BY <1>3, <1>6
    <3>2. ASSUME NEW m \in o
          PROVE  g[m].next = NULL
      <4>1. m \in Nodes /\ h[m].next = NULL /\ ~IsCopy(new, m)
        BY <1>2, <1>8
      <4> QED BY <4>1, <1>6
    <3> QED BY <3>1, <3>2
  <2> QED BY <2>1, <2>3, <2>4, <2>5 DEF Held
<1> QED BY <1>13, <1>16, <1>17, <1>18, <1>20 DEF Trees, Forest, t

\* cJSON_Duplicate does so.
LEMMA DuplicateIs ==
    ASSUME NEW h, NEW s, NEW o, Trees(h, s, o), NEW n \in Nodes,
           NEW new \in Injection(Below(s, n), Free(h))
    PROVE  /\ cJSON_Duplicate(h, n, new) \in [Nodes -> Item]
           /\ IsCopied(h, cJSON_Duplicate(h, n, new), s, n, new)
<1> DEFINE D == Below(s, n)
           Copied(m) == IF m = NULL THEN NULL ELSE new[m]
           Parent(m) == CHOOSE p \in DOMAIN new : Contains(Children(h, p), m)
           Place(m) == SelectInSeq(Children(h, Parent(m)), LAMBDA x : x = m)
           Before(m) == IF Place(m) = 1 THEN Last(Children(h, Parent(m)))
                        ELSE Children(h, Parent(m))[Place(m) - 1]
           Made(m) == [h[m] EXCEPT !.child = Copied(@),
                                   !.next = IF m = n THEN NULL ELSE Copied(@),
                                   !.prev = IF m = n THEN NULL ELSE new[Before(m)]]
           g == cJSON_Duplicate(h, n, new)
<1>1. /\ s \in [Nodes -> Seq(Nodes)] /\ Once(s) /\ Linked(h, s) /\ h \in [Nodes -> Item]
      /\ Kids(h) = s
  BY KidsAre DEF Trees, Forest
<1>2. /\ D \subseteq Nodes /\ n \in D
      /\ \A k \in D, c \in Nodes : ChildOf(s, c, k) => c \in D
      /\ \A m \in D : m = n \/ \E k \in D : ChildOf(s, m, k)
      /\ \A q \in D : ~ChildOf(s, n, q)
  BY BelowIs, NotBelowItself DEF Trees, Forest
<1>3. /\ DOMAIN new = D /\ \A m \in D : new[m] \in Nodes /\ IsCopy(new, new[m])
      /\ \A m \in D : Original(new, new[m]) = m
      /\ \A c : IsCopy(new, c) => Original(new, c) \in D /\ new[Original(new, c)] = c
  BY OriginalIs DEF Free
<1>4. g = [c \in Nodes |-> IF IsCopy(new, c) THEN Made(Original(new, c)) ELSE h[c]]
  BY DEF cJSON_Duplicate, IsCopy, Original
<1> HIDE DEF D, g
<1>5. \A q \in Nodes : /\ s[q] \in Seq(Nodes) /\ Len(s[q]) \in Nat /\ s[q] = Children(h, q)
                       /\ \A j \in 1 .. Len(s[q]) : s[q][j] \in Nodes /\ ChildOf(s, s[q][j], q)
  BY <1>1, LenProperties, ElementOfSeq DEF ChildOf, Kids
<1>6. \A q \in D : \A j \in 1 .. Len(s[q]) : s[q][j] \in D /\ s[q][j] # n /\ s[q][j] # NULL
  BY <1>2, <1>5, ListAssumption
<1>7. ASSUME NEW q \in D, NEW i \in 1 .. Len(s[q])
      PROVE  Before(s[q][i]) = IF i = 1 THEN s[q][Len(s[q])] ELSE s[q][i-1]
  <2> DEFINE m == s[q][i]
             u == s[q]
             I == {j \in 1 .. Len(u) : u[j] = m}
  <2>1. /\ q \in DOMAIN new /\ u = Children(h, q) /\ Len(u) \in Nat
        /\ \A p \in DOMAIN new : Contains(Children(h, p), m) <=> ChildOf(s, m, p)
    BY <1>2, <1>3, <1>5 DEF Contains, ChildOf
  <2>2. ChildOf(s, m, q) /\ \A p \in DOMAIN new : ChildOf(s, m, p) => p = q
    BY <1>1, <1>2, <1>3 DEF ChildOf, Once
  <2>3. I = {i}
    <3>1. \A j \in 1 .. Len(s[q]) : s[q][j] = s[q][i] => j = i
      BY <1>1, <1>2 DEF Once
    <3> QED BY <3>1
  <2> HIDE DEF m
  <2>4. Parent(m) = q
    BY <2>1, <2>2
  <2> HIDE DEF Parent
  <2>5. Place(m) = IF I # {} THEN Min(I) ELSE 0
    BY <2>1, <2>4 DEF SelectInSeq
  <2> HIDE DEF I, Place
  <2>6. Min(I) = i
    <3>1. I \in SUBSET Nat /\ I # {}
      BY <2>1, <2>3
    <3>2. Min(I) \in I
      BY <3>1, MinOfNaturals
    <3> QED BY <3>2, <2>3
  <2>7. Place(m) = i
    BY <2>3, <2>5, <2>6
  <2>8. Before(m) = IF i = 1 THEN u[Len(u)] ELSE u[i-1]
    BY <2>1, <2>4, <2>7 DEF Last
  <2> QED BY <2>8 DEF m
<1> HIDE DEF Parent, Place, Before
<1>8. ASSUME NEW m \in D
      PROVE  /\ h[m] \in Item
             /\ h[m].child = NULL \/ h[m].child \in D
             /\ m # n => /\ h[m].next = NULL \/ h[m].next \in D
                         /\ Before(m) \in D
  <2>1. h[m] \in Item
    BY <1>1, <1>2
  <2>2. h[m].child = NULL \/ h[m].child \in D
    <3>1. h[m].child = First(s[m]) /\ Len(s[m]) \in Nat
      BY <1>1, <1>2, <1>5 DEF Linked
    <3>2. Len(s[m]) # 0 => 1 \in 1 .. Len(s[m])
      BY <3>1
    <3> QED BY <3>1, <3>2, <1>6 DEF First
  <2>3. ASSUME m # n
        PROVE  /\ h[m].next = NULL \/ h[m].next \in D
               /\ Before(m) \in D
    <3>1. PICK q \in D : ChildOf(s, m, q)
      BY <2>3, <1>2
    <3>2. PICK i \in 1 .. Len(s[q]) : m = s[q][i]
      BY <3>1 DEF ChildOf
    <3>3. /\ Len(s[q]) \in 1 .. Len(s[q])
          /\ i # Len(s[q]) => i + 1 \in 1 .. Len(s[q])
          /\ i # 1 => i - 1 \in 1 .. Len(s[q])
      BY <1>2, <1>5
    <3>4. h[s[q][i]].next = IF i = Len(s[q]) THEN NULL ELSE s[q][i+1]
      BY <1>1, <1>2 DEF Linked
    <3>5. h[m].next = NULL \/ h[m].next \in D
      BY <3>2, <3>3, <3>4, <1>6
    <3>6. Before(s[q][i]) \in D
      BY <3>3, <1>6, <1>7
    <3> QED BY <3>2, <3>5, <3>6
  <2> QED BY <2>1, <2>2, <2>3
<1>9. ASSUME NEW m \in D
      PROVE  /\ Made(m) \in Item
             /\ Made(m).kind = h[m].kind /\ Made(m).key = h[m].key
             /\ Made(m).child = IF h[m].child = NULL THEN NULL ELSE new[h[m].child]
             /\ Made(m).next = IF m = n \/ h[m].next = NULL THEN NULL ELSE new[h[m].next]
             /\ m # n => Made(m).prev = new[Before(m)]
  <2> DEFINE child == Copied(h[m].child)
             next == IF m = n THEN NULL ELSE Copied(h[m].next)
             prev == IF m = n THEN NULL ELSE new[Before(m)]
  <2>1. child \in Links /\ next \in Links /\ prev \in Links
    BY <1>3, <1>8 DEF Links
  <2>2. h[m] \in Item
    BY <1>8
  <2>3. Made(m) = [h[m] EXCEPT !.child = child, !.next = next, !.prev = prev]
    BY <2>2 DEF Item
  <2>4. /\ child = IF h[m].child = NULL THEN NULL ELSE new[h[m].child]
        /\ next = IF m = n \/ h[m].next = NULL THEN NULL ELSE new[h[m].next]
        /\ m # n => prev = new[Before(m)]
    OBVIOUS
  <2> HIDE DEF child, next, prev, Made
  <2>5. /\ Made(m) \in Item /\ Made(m).kind = h[m].kind /\ Made(m).key = h[m].key
        /\ Made(m).child = child /\ Made(m).next = next /\ Made(m).prev = prev
    BY <2>1, <2>2, <2>3 DEF Item
  <2> QED BY <2>4, <2>5
<1> HIDE DEF Made
<1>10. \A m \in D : g[new[m]] = Made(m)
  BY <1>3, <1>4
<1>11. g \in [Nodes -> Item]
  BY <1>1, <1>3, <1>4, <1>9
<1>12. ASSUME NEW q \in D, NEW i \in 1 .. Len(s[q])
       PROVE  g[new[s[q][i]]].prev = new[IF i = 1 THEN s[q][Len(s[q])] ELSE s[q][i-1]]
  <2>1. s[q][i] \in D /\ s[q][i] # n
    BY <1>6
  <2>2. g[new[s[q][i]]].prev = new[Before(s[q][i])]
    BY <2>1, <1>9, <1>10
  <2> QED BY <2>2, <1>7
<1>13. \A c \in Nodes : ~IsCopy(new, c) => g[c] = h[c]
  BY <1>4
<1>14. IsCopied(h, g, s, n, new)
  <2>1. \A m \in D :
           /\ g[new[m]].kind = h[m].kind /\ g[new[m]].key = h[m].key
           /\ g[new[m]].child = IF h[m].child = NULL THEN NULL ELSE new[h[m].child]
           /\ g[new[m]].next = IF m = n \/ h[m].next = NULL THEN NULL ELSE new[h[m].next]
    BY <1>9, <1>10
  <2> QED BY <2>1, <1>3, <1>12, <1>13 DEF IsCopied
<1> QED BY <1>11, <1>14 DEF g

\* Duplicate.
LEMMA DuplicateStep ==
    ASSUME TreeInv, NEW n \in Nodes, Duplicate(n)
    PROVE  TreeInv' /\ \E c \in [Subtree(heap, n) -> Free(heap)] : Trees_!Copy(n, c)
<1> DEFINE s == Kids(heap)
           D == Below(s, n)
           F == Free(heap)
<1>1. /\ Trees(heap, s, owned) /\ s = [m \in Nodes |-> Children(heap, m)]
      /\ Subtree(heap, n) = D
  BY ViewIs DEF Kids
<1> HIDE DEF s
<1>2. heap[n].kind # "free" /\ D \subseteq Nodes /\ F \subseteq Nodes /\ n \in D
  BY BelowIs DEF Duplicate, Free
<1>3. PICK new \in Injection(D, F) :
         heap' = cJSON_Duplicate(heap, n, new) /\ owned' = owned \cup {new[n]}
  <2>1. /\ Cardinality(D) <= Cardinality(F)
        /\ LET new == CHOOSE c \in Injection(D, F) : TRUE
           IN  heap' = cJSON_Duplicate(heap, n, new) /\ owned' = owned \cup {new[n]}
    BY <1>1 DEF Duplicate
  <2>2. IsFiniteSet(D) /\ IsFiniteSet(F)
    BY <1>2, ListAssumption, FS_Subset
  <2> HIDE DEF D, F
  <2>3. \E c : c \in Injection(D, F)
    BY <2>1, <2>2, InjectionExists
  <2> QED BY <2>1, <2>3
<1> DEFINE t == Copies(s, new)
<1>4. heap' \in [Nodes -> Item] /\ IsCopied(heap, heap', s, n, new)
  <2> DEFINE g == cJSON_Duplicate(heap, n, new)
  <2>1. g \in [Nodes -> Item] /\ IsCopied(heap, g, s, n, new)
    BY <1>1, DuplicateIs
  <2>2. heap' = g
    BY <1>3
  <2> HIDE DEF g
  <2> QED BY <2>1, <2>2
<1>5. Trees(heap', t, owned')
  <2>1. Trees(heap', t, owned \cup {new[n]})
    BY <1>1, <1>2, <1>4, DuplicateKeeps
  <2> HIDE DEF t
  <2> QED BY <2>1, <1>3
<1>6. TreeInv' /\ t = [m \in Nodes |-> Children(heap', m)]
  <2> HIDE DEF t
  <2> QED BY <1>5, NextIs
<1>7. /\ DOMAIN new = D /\ new \in [D -> F]
      /\ \A m, c \in D : new[m] = new[c] => m = c
      /\ \A c : IsCopy(new, c) => Original(new, c) \in D /\ new[Original(new, c)] = c
  BY OriginalIs DEF Injection
<1> HIDE DEF D, F
<1>8. \A m \in Nodes :
         /\ heap'[m].kind = IF IsCopy(new, m) THEN heap[Original(new, m)].kind ELSE heap[m].kind
         /\ heap'[m].key = IF IsCopy(new, m) THEN heap[Original(new, m)].key ELSE heap[m].key
  <2> TAKE m \in Nodes
  <2>1. CASE IsCopy(new, m)
    <3>1. Original(new, m) \in D /\ new[Original(new, m)] = m
      BY <2>1, <1>7
    <3> QED BY <2>1, <3>1, <1>4, <1>7 DEF IsCopied
  <2>2. CASE ~IsCopy(new, m)
    BY <2>2, <1>4 DEF IsCopied
  <2> QED BY <2>1, <2>2
<1> DEFINE made == {new[m] : m \in DOMAIN new}
<1>9. \A m : m \in made <=> IsCopy(new, m)
  BY DEF IsCopy
<1> HIDE DEF made
<1>10. \A m \in Nodes : IsCopy(new, m) => Original(new, m) \in Nodes
  BY <1>2, <1>7
<1>11. [m \in Nodes |-> heap'[m].kind]
          = [m \in Nodes |-> IF m \in made THEN [i \in Nodes |-> heap[i].kind][Original(new, m)]
                             ELSE [i \in Nodes |-> heap[i].kind][m]]
  BY <1>8, <1>9, <1>10
<1>12. [m \in Nodes |-> heap'[m].key]
          = [m \in Nodes |-> IF m \in made THEN [i \in Nodes |-> heap[i].key][Original(new, m)]
                             ELSE [i \in Nodes |-> heap[i].key][m]]
  BY <1>8, <1>9, <1>10
<1>13. t = [m \in Nodes |-> IF m \in made
                            THEN [i \in DOMAIN s[Original(new, m)] |-> new[s[Original(new, m)][i]]]
                            ELSE s[m]]
  BY <1>9 DEF Copies
<1> HIDE DEF t
<1>14. Trees_!Copy(n, new)
  <2>1. [m \in Nodes |-> heap'[m].kind]
           = [m \in Nodes |-> IF m \in {new[i] : i \in DOMAIN new}
                              THEN [i \in Nodes |-> heap[i].kind][CHOOSE o \in DOMAIN new : new[o] = m]
                              ELSE [i \in Nodes |-> heap[i].kind][m]]
    BY ONLY <1>11 DEF Original, made
  <2>2. [m \in Nodes |-> heap'[m].key]
           = [m \in Nodes |-> IF m \in {new[i] : i \in DOMAIN new}
                              THEN [i \in Nodes |-> heap[i].key][CHOOSE o \in DOMAIN new : new[o] = m]
                              ELSE [i \in Nodes |-> heap[i].key][m]]
    BY ONLY <1>12 DEF Original, made
  <2>3. [m \in Nodes |-> Children(heap', m)]
           = [m \in Nodes |->
                IF m \in {new[i] : i \in DOMAIN new}
                THEN [i \in DOMAIN [j \in Nodes |-> Children(heap, j)]
                                      [CHOOSE o \in DOMAIN new : new[o] = m] |->
                         new[[j \in Nodes |-> Children(heap, j)]
                                [CHOOSE o \in DOMAIN new : new[o] = m][i]]]
                ELSE [j \in Nodes |-> Children(heap, j)][m]]
    BY ONLY <1>6, <1>13 DEF Original, made, s, Kids
  <2>4. \A m, o \in DOMAIN new : new[m] = new[o] => m = o
    BY <1>7
  <2> QED BY ONLY <2>1, <2>2, <2>3, <2>4 DEF Trees_!Copy
<1> QED BY <1>1, <1>6, <1>7, <1>14 DEF F

-----------------------------------------------------------------------------
(* The theorems                                                            *)

\* With all items free there is no list.
LEMMA TreesAtFirst == ListInit => TreeInv
<1> SUFFICES ASSUME ListInit PROVE TreeInv
  OBVIOUS
<1> DEFINE s == [n \in Nodes |-> <<>>]
<1>1. owned = {} /\ heap = [n \in Nodes |-> FreeItem]
  BY DEF ListInit
<1>2. FreeItem \in Item /\ FreeItem.kind = "free" /\ FreeItem.child = NULL
  BY DEF FreeItem, Item, Links
<1>3. heap \in [Nodes -> Item] /\ \A n \in Nodes : heap[n] = FreeItem
  BY <1>1, <1>2
<1>4. s \in [Nodes -> Seq(Nodes)] /\ \A n \in Nodes : Len(s[n]) = 0
  OBVIOUS
<1> HIDE DEF s
<1>5. \A m, p \in Nodes : ~ChildOf(s, m, p)
  BY <1>4 DEF ChildOf
<1>6. Once(s) /\ Rooted(s)
  <2>1. Once(s)
    BY <1>4 DEF Once
  <2>2. ASSUME NEW S \in SUBSET Nodes, S # {}
        PROVE  \E n \in S : \A p \in S : ~ChildOf(s, n, p)
    BY <2>2, <1>5
  <2> QED BY <2>1, <2>2 DEF Rooted
<1>7. Linked(heap, s)
  BY <1>2, <1>3, <1>4 DEF Linked, First
<1>8. Held(heap, s, owned)
  BY <1>1, <1>2, <1>3, <1>4 DEF Held
<1>9. Trees(heap, s, owned)
  BY <1>3, <1>4, <1>6, <1>7, <1>8 DEF Trees, Forest
<1> QED BY <1>9, KidsAre DEF TreeInv, Trees

\* No call breaks the invariant.
LEMMA TreesStay == TreeInv /\ [ListNext]_listVars => TreeInv'
<1> SUFFICES ASSUME TreeInv, [ListNext]_listVars PROVE TreeInv'
  OBVIOUS
<1>1. ASSUME NEW k \in Kinds, Create(k) PROVE TreeInv'
  BY <1>1, CreateStep
<1>2. ASSUME NEW n \in Nodes, Delete(n) PROVE TreeInv'
  BY <1>2, DeleteStep
<1>3. ASSUME NEW n \in Nodes, Duplicate(n) PROVE TreeInv'
  BY <1>3, DuplicateStep
<1>4. ASSUME NEW p \in Nodes, NEW n \in Nodes, AddItemToArray(p, n) PROVE TreeInv'
  <2>1. MayPut(p, n)
    BY <1>4 DEF AddItemToArray
  <2> QED BY <2>1, <1>4, AddToArrayStep
<1>5. ASSUME NEW p \in Nodes, NEW n \in Nodes, NEW name \in Keys, AddItemToObject(p, n, name)
      PROVE  TreeInv'
  <2>1. MayPut(p, n)
    BY <1>5 DEF AddItemToObject
  <2> QED BY <2>1, <1>5, AddToObjectStep
<1>6. ASSUME NEW p \in Nodes, NEW n \in Nodes, NEW name \in Keys, ReplaceItemInObject(p, name, n)
      PROVE  TreeInv'
  <2>1. MayPut(p, n)
    BY <1>6 DEF ReplaceItemInObject
  <2> QED BY <2>1, <1>6, ReplaceInObjectStep
<1>7. ASSUME NEW p \in Nodes, NEW k \in Kinds, NEW name \in Keys, AddNewToObject(p, k, name)
      PROVE  TreeInv'
  BY <1>7, AddNewStep
<1>8. ASSUME NEW p \in Nodes, NEW n \in Nodes, NEW which \in 0 .. Len(Children(heap, p)),
             InsertItemInArray(p, which, n)
      PROVE  TreeInv'
  <2>1. MayPut(p, n)
    BY <1>8 DEF InsertItemInArray
  <2> QED BY <2>1, <1>8, InsertStep
<1>9. ASSUME NEW p \in Nodes, NEW n \in Nodes, NEW which \in 0 .. Len(Children(heap, p)),
             ReplaceItemInArray(p, which, n)
      PROVE  TreeInv'
  <2>1. MayPut(p, n)
    BY <1>9 DEF ReplaceItemInArray
  <2> QED BY <2>1, <1>9, ReplaceInArrayStep
<1>10. ASSUME NEW p \in Nodes, NEW which \in 0 .. Len(Children(heap, p)),
              DetachItemFromArray(p, which)
       PROVE  TreeInv'
  BY <1>10, DetachFromArrayStep
<1>11. ASSUME NEW p \in Nodes, NEW name \in Keys, DetachItemFromObject(p, name)
       PROVE  TreeInv'
  BY <1>11, DetachFromObjectStep
<1>12. ASSUME NEW p \in Nodes, NEW n \in Nodes, ReplaceLosesName(p, n) PROVE TreeInv'
  <2>1. MayPut(p, n)
    BY <1>12 DEF ReplaceLosesName
  <2> QED BY <2>1, <1>12, LosesNameStep
<1>13. CASE UNCHANGED listVars
  BY <1>13 DEF TreeInv, Kids, listVars
<1> QED
  BY <1>1, <1>2, <1>3, <1>4, <1>5, <1>6, <1>7, <1>8, <1>9, <1>10, <1>11, <1>12, <1>13 DEF ListNext

\* What the step lemmas say of the sequences, for every call at once.
LEMMA CallsAre ==
    ASSUME TreeInv
    PROVE  OtherCalls /\ \A p \in Nodes : TakeCalls(p) /\ \A n \in Nodes : PutCalls(p, n)
<1>1. OtherCalls
  BY CreateStep, AddNewStep, DeleteStep, DuplicateStep DEF OtherCalls
<1>2. ASSUME NEW p \in Nodes
      PROVE  TakeCalls(p)
  BY DetachFromArrayStep, DetachFromObjectStep DEF TakeCalls
<1>3. ASSUME NEW p \in Nodes, NEW n \in Nodes
      PROVE  PutCalls(p, n)
  <2> SUFFICES ASSUME MayPut(p, n) PROVE PutCalls(p, n)
    BY DEF PutCalls
  <2> DEFINE last == Len(Children(heap, p)) + 1
  <2>1. /\ AddItemToArray(p, n) => Trees_!Put(p, last, n, heap[n].key)
        /\ ReplaceLosesName(p, n) => Trees_!Rename(n, NoKey)
        /\ \A name \in Keys : AddItemToObject(p, n, name) => Trees_!Put(p, last, n, name)
    BY AddToArrayStep, LosesNameStep, AddToObjectStep
  <2>2. ASSUME NEW which \in 0 .. last - 1
        PROVE  /\ InsertItemInArray(p, which, n) => Trees_!Put(p, which + 1, n, heap[n].key)
               /\ ReplaceItemInArray(p, which, n) => Trees_!Replace(p, which + 1, n, heap[n].key)
    <3>1. Len(Children(heap, p)) \in Nat
      BY FoundIs
    <3>2. which \in 0 .. Len(Children(heap, p))
      BY <3>1
    <3> QED BY <3>2, InsertStep, ReplaceInArrayStep
  <2>3. \A name \in Keys : ReplaceItemInObject(p, name, n) =>
           \/ Position(p, name) = 0 /\ Trees_!Rename(n, name)
           \/ Trees_!Replace(p, Position(p, name), n, name)
    BY ReplaceInObjectStep
  <2> QED BY <2>1, <2>2, <2>3 DEF PutCalls
<1> QED BY <1>1, <1>2, <1>3

\* The lists are sequences of children, no item is in two places or below
\* itself, and the program holds what is in no list, whatever the calls.
THEOREM TreeInvariant == ListSpec => []TreeInv
<1> QED BY TreesAtFirst, TreesStay, PTL DEF ListSpec

\* The last item is found by the first one's prev, so that an append or a
\* detach works on the right items.
THEOREM ListsStayLinked == ListSpec => []ListsAreLinked
<1> QED BY TreeInvariant, TreesAreLinked, PTL

\* cJSON_Delete of all that the program holds frees every item, each once.
THEOREM DeletesFreeAll == ListSpec => []DeleteFreesAll
<1> QED BY TreeInvariant, TreesAreFreed, PTL

\* Every call does to the sequences of children what its name says: the lists
\* implement JsonSeq, call by call.
THEOREM CallsAreOnSequences == ListSpec => ListsAreSequences
<1> DEFINE Calls == OtherCalls /\ \A p \in Nodes : TakeCalls(p) /\ \A n \in Nodes : PutCalls(p, n)
<1>1. TreeInv /\ [ListNext]_listVars => [Calls]_listVars
  BY CallsAre
<1> QED BY <1>1, TreeInvariant, PTL DEF ListSpec, ListsAreSequences

=============================================================================
