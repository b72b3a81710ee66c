-------------------------- MODULE HttpConversionProofs --------------------------
(***************************************************************************)
(* What toHttpRequest and toHttpResponse keep, for every body of POST      *)
(* /invoke and every answer of a service.  The calls of Add are a sequence *)
(* of lines; a value of the header that they build is traced back to its   *)
(* line, and a line to its place in a list of the JSON, both one to one    *)
(* and in order.  Sets of numbers stand for the predicates of an induction.*)
(***************************************************************************)
EXTENDS HttpConversion, TLAPS, FiniteSetTheorems, SequenceTheorems

\* Induction over Nat, for a set in place of a predicate.
LEMMA SetInduction ==
  ASSUME NEW S, 0 \in S, \A n \in Nat : n \in S => n + 1 \in S
  PROVE  Nat \subseteq S
<1> DEFINE R == OpToRel(<, Nat)
           T == Nat \ S
<1>1. SUFFICES ASSUME T # {} PROVE FALSE
  OBVIOUS
<1>2. PICK x \in T : \A y \in T : <<y, x>> \notin R
  <2>1. IsWellFoundedOn(R, Nat)
    BY NatLessThanWellFounded
  <2>2. T \subseteq Nat
    OBVIOUS
  <2> HIDE DEF R, T
  <2> QED
    BY <1>1, <2>1, <2>2, WFMin
<1>3. x \in Nat /\ x # 0 /\ x - 1 \in Nat
  OBVIOUS
<1>4. x - 1 \in T
  BY <1>3
<1>5. <<x - 1, x>> \in R
  BY <1>3 DEF OpToRel
<1> QED
  BY <1>2, <1>4, <1>5

-------------------------------------------------------------------------------
(* http.Header.Add, call after call. *)

\* Each value of a name comes from one of the first n lines, in their order, and each
\* line with that name has given one.
Trace(at, values, lines, n, name) ==
  /\ DOMAIN at = DOMAIN values
  /\ \A i \in DOMAIN at : /\ at[i] \in 1..n
                          /\ Canonical(lines[at[i]][1]) = name
                          /\ lines[at[i]][2] = values[i]
  /\ \A i, j \in DOMAIN at : i < j => at[i] < at[j]
  /\ \A k \in 1..n : Canonical(lines[k][1]) = name => \E i \in DOMAIN at : at[i] = k

Traced(header, lines, n) ==
  /\ DOMAIN header = {Canonical(lines[k][1]) : k \in 1..n}
  /\ \A name \in DOMAIN header : /\ header[name] \in Seq(STRING)
                                 /\ \E at : Trace(at, header[name], lines, n, name)

\* A line with another name leaves the values of a name as they are.
LEMMA TraceStays ==
  ASSUME NEW n \in Nat, NEW lines, NEW name, NEW values, NEW at,
         Trace(at, values, lines, n, name), Canonical(lines[n + 1][1]) # name
  PROVE  Trace(at, values, lines, n + 1, name)
<1>1. \A k \in 1..(n + 1) : k \in 1..n \/ k = n + 1
  OBVIOUS
<1>2. 1..n \subseteq 1..(n + 1)
  OBVIOUS
<1> QED
  BY <1>1, <1>2 DEF Trace

\* A line with this name adds its value at the end.
LEMMA TraceGrows ==
  ASSUME NEW n \in Nat, NEW lines, NEW name, NEW values \in Seq(STRING), NEW at,
         Trace(at, values, lines, n, name), Canonical(lines[n + 1][1]) = name,
         lines[n + 1][2] \in STRING
  PROVE  \E next : Trace(next, Append(values, lines[n + 1][2]), lines, n + 1, name)
<1> DEFINE m == Len(values) + 1
           more == Append(values, lines[n + 1][2])
           next == [i \in 1..m |-> IF i = m THEN n + 1 ELSE at[i]]
<1>1. /\ Len(values) \in Nat /\ DOMAIN at = 1..Len(values)
      /\ 1..m = DOMAIN at \cup {m} /\ m \notin DOMAIN at
      /\ \A i \in DOMAIN at : i < m
  BY DEF Trace
<1>2. /\ DOMAIN more = 1..m /\ more[m] = lines[n + 1][2]
      /\ \A i \in DOMAIN at : more[i] = values[i]
  BY <1>1
<1>3. /\ DOMAIN next = 1..m /\ next[m] = n + 1
      /\ \A i \in DOMAIN at : next[i] = at[i] /\ at[i] \in 1..n
  BY <1>1 DEF Trace
<1>4. 1..(n + 1) = 1..n \cup {n + 1} /\ n + 1 \notin 1..n /\ \A k \in 1..n : k < n + 1
  OBVIOUS
<1>5. m \in Nat /\ DOMAIN at \subseteq Nat
  BY <1>1
<1> HIDE DEF m, more, next
<1>6. ASSUME NEW i \in DOMAIN next
      PROVE  /\ next[i] \in 1..(n + 1)
             /\ Canonical(lines[next[i]][1]) = name
             /\ lines[next[i]][2] = more[i]
  BY <1>1, <1>2, <1>3, <1>4 DEF Trace
<1>7. ASSUME NEW i \in DOMAIN next, NEW j \in DOMAIN next, i < j PROVE next[i] < next[j]
  <2>1. i \in DOMAIN at
    BY <1>1, <1>3, <1>5, <1>7
  <2>2. CASE j \in DOMAIN at
    BY <1>3, <1>7, <2>1, <2>2 DEF Trace
  <2>3. CASE j = m
    BY <1>3, <1>4, <2>1, <2>3
  <2> QED
    BY <1>1, <1>3, <2>2, <2>3
<1>8. ASSUME NEW k \in 1..(n + 1), Canonical(lines[k][1]) = name
      PROVE  \E i \in DOMAIN next : next[i] = k
  BY <1>1, <1>3, <1>4, <1>8 DEF Trace
<1>9. DOMAIN next = DOMAIN more
  BY <1>2, <1>3
<1>10. Trace(next, more, lines, n + 1, name)
  BY <1>6, <1>7, <1>8, <1>9 DEF Trace
<1> QED
  BY <1>10 DEF more

\* What one call of http.Header.Add keeps and adds.
LEMMA AddTraced ==
  ASSUME NEW K, NEW lines \in Seq(K \X STRING), NEW n \in Nat, n < Len(lines),
         NEW header, Traced(header, lines, n)
  PROVE  Traced(Add(header, lines[n + 1][1], lines[n + 1][2]), lines, n + 1)
<1> DEFINE value == lines[n + 1][2]
           given == Canonical(lines[n + 1][1])
           old == IF given \in DOMAIN header THEN header[given] ELSE <<>>
           new == Add(header, lines[n + 1][1], value)
<1>1. value \in STRING
  <2>1. lines[n + 1] \in K \X STRING
    OBVIOUS
  <2> QED
    BY <2>1
<1>2. /\ DOMAIN new = DOMAIN header \cup {given}
      /\ new[given] = Append(old, value)
      /\ \A name \in DOMAIN header \ {given} : new[name] = header[name]
  BY DEF Add
<1> HIDE DEF new
<1>3. DOMAIN new = {Canonical(lines[k][1]) : k \in 1..(n + 1)}
  <2>1. 1..(n + 1) = 1..n \cup {n + 1}
    OBVIOUS
  <2> QED
    BY <1>2, <2>1 DEF Traced
<1>4. ASSUME NEW name \in DOMAIN header \ {given}
      PROVE  new[name] \in Seq(STRING) /\ \E at : Trace(at, new[name], lines, n + 1, name)
  BY <1>2, TraceStays DEF Traced
<1>5. old \in Seq(STRING) /\ \E at : Trace(at, old, lines, n, given)
  <2>1. CASE given \in DOMAIN header
    <3>1. old = header[given]
      BY <2>1
    <3> HIDE DEF old, given
    <3> QED
      BY <2>1, <3>1 DEF Traced
  <2>2. CASE given \notin DOMAIN header
    <3>1. old = <<>>
      BY <2>2
    <3>2. \A k \in 1..n : Canonical(lines[k][1]) # given
      BY <2>2 DEF Traced
    <3> HIDE DEF old, given
    <3>3. Trace(<<>>, old, lines, n, given)
      BY <3>1, <3>2 DEF Trace
    <3> QED
      BY <3>1, <3>3
  <2> QED
    BY <2>1, <2>2
<1> HIDE DEF old
<1>6. new[given] \in Seq(STRING) /\ \E at : Trace(at, new[given], lines, n + 1, given)
  BY <1>1, <1>2, <1>5, TraceGrows
<1> HIDE DEF given
<1>7. Traced(new, lines, n + 1)
  BY <1>2, <1>3, <1>4, <1>6 DEF Traced
<1> QED
  BY <1>7 DEF new

\* The header that the calls of Add build, by induction over the lines.
LEMMA HeaderTraced ==
  ASSUME NEW K, NEW lines \in Seq(K \X STRING)
  PROVE  Traced(HeaderOf(lines), lines, Len(lines))
<1> DEFINE After(m, f) ==
             f = [n \in 0..m |-> IF n = 0 THEN EmptyHeader
                                          ELSE Add(f[n - 1], lines[n][1], lines[n][2])]
           Defined == {m \in Nat : m <= Len(lines) => \E f : After(m, f)}
           after == CHOOSE f : After(Len(lines), f)
           Good == {m \in Nat : m <= Len(lines) => Traced(after[m], lines, m)}
<1>1. Len(lines) \in Nat
  OBVIOUS
<1>2. After(Len(lines), after)
  <2>1. 0 \in Defined
    <3> DEFINE f == [n \in 0..0 |-> EmptyHeader]
    <3>1. After(0, f)
      OBVIOUS
    <3> HIDE DEF f, After
    <3> QED
      BY <3>1
  <2>2. ASSUME NEW m \in Nat, m \in Defined PROVE m + 1 \in Defined
    <3>1. SUFFICES ASSUME m + 1 <= Len(lines) PROVE \E f : After(m + 1, f)
      OBVIOUS
    <3>2. PICK f : After(m, f)
      BY <1>1, <2>2, <3>1
    <3> DEFINE g == [n \in 0..(m + 1) |->
                       IF n = m + 1 THEN Add(f[m], lines[n][1], lines[n][2]) ELSE f[n]]
    <3>3. \A n \in 0..(m + 1) :
            g[n] = IF n = 0 THEN EmptyHeader ELSE Add(g[n - 1], lines[n][1], lines[n][2])
      BY <3>2
    <3>4. g = [n \in 0..(m + 1) |-> g[n]]
      OBVIOUS
    <3> HIDE DEF g
    <3>5. After(m + 1, g)
      BY <3>3, <3>4
    <3> HIDE DEF After
    <3> QED
      BY <3>5
  <2> HIDE DEF Defined
  <2>3. Nat \subseteq Defined
    BY <2>1, <2>2, SetInduction
  <2>4. \E f : After(Len(lines), f)
    BY <1>1, <2>3 DEF Defined
  <2> HIDE DEF After
  <2> QED
    BY <2>4
<1>3. HeaderOf(lines) = after[Len(lines)]
  BY DEF HeaderOf
<1> HIDE DEF after
<1>4. 0 \in Good
  <2>1. after[0] = EmptyHeader
    BY <1>1, <1>2
  <2>2. DOMAIN EmptyHeader = {} /\ 1..0 = {}
    BY DEF EmptyHeader
  <2> QED
    BY <2>1, <2>2 DEF Traced
<1>5. ASSUME NEW m \in Nat, m \in Good PROVE m + 1 \in Good
  <2>1. SUFFICES ASSUME m + 1 <= Len(lines) PROVE Traced(after[m + 1], lines, m + 1)
    OBVIOUS
  <2>2. after[m + 1] = Add(after[m], lines[m + 1][1], lines[m + 1][2])
    <3>1. m + 1 \in 0..Len(lines) /\ m + 1 # 0 /\ (m + 1) - 1 = m
      BY <1>1, <2>1
    <3>2. \A n \in 0..Len(lines) :
            after[n] = IF n = 0 THEN EmptyHeader ELSE Add(after[n - 1], lines[n][1], lines[n][2])
      BY <1>2
    <3> QED
      BY <3>1, <3>2
  <2>3. m < Len(lines) /\ Traced(after[m], lines, m)
    BY <1>1, <1>5, <2>1
  <2> QED
    BY <2>2, <2>3, AddTraced
<1> HIDE DEF Good
<1>6. Nat \subseteq Good
  BY <1>4, <1>5, SetInduction
<1> QED
  BY <1>1, <1>3, <1>6 DEF Good

-------------------------------------------------------------------------------
(* The lists of values, one after the other. *)

\* Each line comes from one place in the first m blocks, each place there has given
\* one, and what follows it in its block follows it.
Spread(from, flat, blocks, m) ==
  /\ DOMAIN from = DOMAIN flat
  /\ \A k \in DOMAIN flat : \E i \in 1..m : \E j \in DOMAIN blocks[i] :
       /\ from[k] = <<i, j>>
       /\ flat[k] = blocks[i][j]
       /\ j + 1 \in DOMAIN blocks[i] => k + 1 \in DOMAIN flat /\ from[k + 1] = <<i, j + 1>>
  /\ \A i \in 1..m : \A j \in DOMAIN blocks[i] : \E k \in DOMAIN flat : from[k] = <<i, j>>
  /\ \A k, l \in DOMAIN flat : from[k] = from[l] => k = l

LEMMA SpreadGrows ==
  ASSUME NEW X, NEW flat \in Seq(X), NEW blocks, NEW m \in Nat, NEW from,
         Spread(from, flat, blocks, m), blocks[m + 1] \in Seq(X)
  PROVE  \E next : Spread(next, flat \o blocks[m + 1], blocks, m + 1)
<1> DEFINE block == blocks[m + 1]
           L == Len(flat)
           more == flat \o block
           next == [k \in 1..(L + Len(block)) |-> IF k <= L THEN from[k] ELSE <<m + 1, k - L>>]
<1>1. /\ L \in Nat /\ DOMAIN flat = 1..L /\ DOMAIN from = 1..L
      /\ Len(block) \in Nat /\ DOMAIN block = 1..Len(block)
  BY DEF Spread
<1>2. /\ DOMAIN more = 1..(L + Len(block))
      /\ \A k \in 1..L : more[k] = flat[k]
      /\ \A j \in DOMAIN block : more[L + j] = block[j]
  BY <1>1
<1>3. /\ DOMAIN next = 1..(L + Len(block))
      /\ \A k \in 1..L : next[k] = from[k]
      /\ \A j \in DOMAIN block : next[L + j] = <<m + 1, j>>
  BY <1>1
<1>4. /\ \A k \in 1..(L + Len(block)) : k \in 1..L \/ \E j \in DOMAIN block : k = L + j
      /\ 1..L \subseteq 1..(L + Len(block))
      /\ \A j \in DOMAIN block : L + j \in 1..(L + Len(block))
  <2>1. ASSUME NEW k \in 1..(L + Len(block)), k \notin 1..L PROVE \E j \in DOMAIN block : k = L + j
    <3>1. k - L \in DOMAIN block /\ k = L + (k - L)
      BY <1>1, <2>1
    <3> QED
      BY <3>1
  <2> QED
    BY <1>1, <2>1
<1>5. /\ 1..(m + 1) = 1..m \cup {m + 1} /\ m + 1 \notin 1..m
      /\ DOMAIN block \subseteq Nat
  BY <1>1
<1>6. ASSUME NEW k \in 1..L
      PROVE  \E i \in 1..m : \E j \in DOMAIN blocks[i] :
               /\ next[k] = <<i, j>>
               /\ more[k] = blocks[i][j]
               /\ j + 1 \in DOMAIN blocks[i] =>
                    k + 1 \in DOMAIN more /\ next[k + 1] = <<i, j + 1>>
  <2>1. PICK i \in 1..m : \E j \in DOMAIN blocks[i] :
          /\ from[k] = <<i, j>>
          /\ flat[k] = blocks[i][j]
          /\ j + 1 \in DOMAIN blocks[i] => k + 1 \in DOMAIN flat /\ from[k + 1] = <<i, j + 1>>
    BY <1>1 DEF Spread
  <2>2. PICK j \in DOMAIN blocks[i] :
          /\ from[k] = <<i, j>>
          /\ flat[k] = blocks[i][j]
          /\ j + 1 \in DOMAIN blocks[i] => k + 1 \in 1..L /\ from[k + 1] = <<i, j + 1>>
    BY <1>1, <2>1
  <2> HIDE DEF more, next, block, L
  <2>3. next[k] = <<i, j>> /\ more[k] = blocks[i][j]
    BY <1>2, <1>3, <2>2
  <2>4. ASSUME j + 1 \in DOMAIN blocks[i]
        PROVE  k + 1 \in DOMAIN more /\ next[k + 1] = <<i, j + 1>>
    BY <1>2, <1>3, <1>4, <2>2, <2>4
  <2> QED
    BY <2>3, <2>4
<1> HIDE DEF more, next, L
<1>7. ASSUME NEW j \in DOMAIN block
      PROVE  /\ next[L + j] = <<m + 1, j>>
             /\ more[L + j] = blocks[m + 1][j]
             /\ j + 1 \in DOMAIN block =>
                  (L + j) + 1 \in DOMAIN more /\ next[(L + j) + 1] = <<m + 1, j + 1>>
  <2>1. (L + j) + 1 = L + (j + 1)
    BY <1>1, <1>5
  <2> QED
    BY <1>2, <1>3, <1>4, <2>1
<1> HIDE DEF block
<1>8. \A k \in DOMAIN more : \E i \in 1..(m + 1) : \E j \in DOMAIN blocks[i] :
        /\ next[k] = <<i, j>>
        /\ more[k] = blocks[i][j]
        /\ j + 1 \in DOMAIN blocks[i] => k + 1 \in DOMAIN more /\ next[k + 1] = <<i, j + 1>>
  <2> SUFFICES ASSUME NEW k \in DOMAIN more
               PROVE  \E i \in 1..(m + 1) : \E j \in DOMAIN blocks[i] :
                        /\ next[k] = <<i, j>>
                        /\ more[k] = blocks[i][j]
                        /\ j + 1 \in DOMAIN blocks[i] =>
                             k + 1 \in DOMAIN more /\ next[k + 1] = <<i, j + 1>>
    OBVIOUS
  <2>1. CASE k \in 1..L
    BY <1>5, <1>6, <2>1
  <2>2. CASE k \notin 1..L
    <3>1. PICK j \in DOMAIN block : k = L + j
      BY <1>2, <1>4, <2>2
    <3>2. m + 1 \in 1..(m + 1)
      BY <1>5
    <3> QED
      BY <1>7, <3>1, <3>2 DEF block
  <2> QED
    BY <2>1, <2>2
<1>9. ASSUME NEW i \in 1..(m + 1), NEW j \in DOMAIN blocks[i]
      PROVE  \E k \in DOMAIN more : next[k] = <<i, j>>
  <2>1. CASE i \in 1..m
    <3>1. PICK k \in DOMAIN flat : from[k] = <<i, j>>
      BY <2>1 DEF Spread
    <3> QED
      BY <1>1, <1>2, <1>3, <1>4, <3>1
  <2>2. CASE i = m + 1
    BY <1>2, <1>4, <1>7, <2>2 DEF block
  <2> QED
    BY <1>5, <2>1, <2>2
<1>10. ASSUME NEW k \in DOMAIN more, NEW l \in DOMAIN more, next[k] = next[l] PROVE k = l
  <2>1. ASSUME NEW x \in 1..L PROVE \E i \in 1..m : \E j : next[x] = <<i, j>>
    BY <1>6, <2>1
  <2>2. CASE k \in 1..L /\ l \in 1..L
    BY <1>1, <1>3, <1>10, <2>2 DEF Spread
  <2>3. CASE k \in 1..L /\ l \notin 1..L
    <3>1. PICK j \in DOMAIN block : l = L + j
      BY <1>2, <1>4, <2>3
    <3>2. next[l] = <<m + 1, j>>
      BY <1>7, <3>1
    <3>3. PICK i \in 1..m : \E n : next[k] = <<i, n>>
      BY <2>1, <2>3
    <3>4. i # m + 1
      BY <1>5
    <3>5. next[k] # next[l]
      BY <3>2, <3>3, <3>4
    <3> QED
      BY <1>10, <3>5
  <2>4. CASE k \notin 1..L /\ l \in 1..L
    <3>1. PICK j \in DOMAIN block : k = L + j
      BY <1>2, <1>4, <2>4
    <3>2. next[k] = <<m + 1, j>>
      BY <1>7, <3>1
    <3>3. PICK i \in 1..m : \E n : next[l] = <<i, n>>
      BY <2>1, <2>4
    <3>4. i # m + 1
      BY <1>5
    <3>5. next[k] # next[l]
      BY <3>2, <3>3, <3>4
    <3> QED
      BY <1>10, <3>5
  <2>5. CASE k \notin 1..L /\ l \notin 1..L
    <3>1. PICK j \in DOMAIN block : k = L + j
      BY <1>2, <1>4, <2>5
    <3>2. PICK n \in DOMAIN block : l = L + n
      BY <1>2, <1>4, <2>5
    <3>3. next[k] = <<m + 1, j>> /\ next[l] = <<m + 1, n>>
      BY <1>7, <3>1, <3>2
    <3> QED
      BY <1>10, <3>1, <3>2, <3>3
  <2> QED
    BY <2>2, <2>3, <2>4, <2>5
<1>11. DOMAIN next = DOMAIN more
  BY <1>2, <1>3
<1>12. Spread(next, more, blocks, m + 1)
  BY <1>8, <1>9, <1>10, <1>11 DEF Spread
<1> QED
  BY <1>12 DEF more, block

\* What FlattenSeq makes of blocks, by induction over them.
LEMMA FlattenSpread ==
  ASSUME NEW X, NEW blocks \in Seq(Seq(X)), blocks # <<>>
  PROVE  /\ FlattenSeq(blocks) \in Seq(X)
         /\ \E from : Spread(from, FlattenSeq(blocks), blocks, Len(blocks))
<1> DEFINE L == Len(blocks)
           Flat(m, f) == f = [i \in 1..m |-> IF i = 1 THEN blocks[i] ELSE f[i - 1] \o blocks[i]]
           Defined == {m \in Nat : m \in 1..L => \E f : Flat(m, f)}
           flatten == CHOOSE f : Flat(L, f)
           Done(m) == /\ flatten[m] \in Seq(X)
                      /\ \E from : Spread(from, flatten[m], blocks, m)
           Good == {m \in Nat : m \in 1..L => Done(m)}
<1>1. L \in Nat /\ L # 0 /\ L \in 1..L /\ \A i \in 1..L : blocks[i] \in Seq(X)
  OBVIOUS
<1>2. FlattenSeq(blocks) = flatten[L]
  BY <1>1 DEF FlattenSeq
<1> HIDE DEF flatten, Flat
<1>3. Flat(L, flatten)
  <2>1. 0 \in Defined
    BY <1>1
  <2>2. ASSUME NEW m \in Nat, m \in Defined PROVE m + 1 \in Defined
    <3>1. SUFFICES ASSUME m + 1 \in 1..L PROVE \E f : Flat(m + 1, f)
      OBVIOUS
    <3>2. CASE m = 0
      <4> DEFINE f == [i \in 1..1 |-> blocks[i]]
      <4>1. Flat(m + 1, f)
        BY <3>2 DEF Flat
      <4> HIDE DEF f
      <4> QED
        BY <4>1
    <3>3. CASE m # 0
      <4>1. m \in 1..L
        BY <1>1, <3>1, <3>3
      <4>2. PICK f : Flat(m, f)
        BY <2>2, <4>1
      <4>3. \A i \in 1..m : f[i] = IF i = 1 THEN blocks[i] ELSE f[i - 1] \o blocks[i]
        BY <4>2 DEF Flat
      <4> DEFINE g == [i \in 1..(m + 1) |-> IF i = m + 1 THEN f[m] \o blocks[i] ELSE f[i]]
      <4>4. \A i \in 1..m : g[i] = f[i]
        OBVIOUS
      <4>5. g[m + 1] = f[m] \o blocks[m + 1]
        <5>1. m + 1 \in 1..(m + 1)
          OBVIOUS
        <5> QED
          BY <5>1
      <4>6. (m + 1) - 1 = m /\ m + 1 # 1 /\ m \in 1..m
        BY <3>3
      <4>7. g = [i \in 1..(m + 1) |-> g[i]]
        OBVIOUS
      <4> HIDE DEF g
      <4>8. ASSUME NEW i \in 1..(m + 1)
            PROVE  g[i] = IF i = 1 THEN blocks[i] ELSE g[i - 1] \o blocks[i]
        <5>1. CASE i = m + 1
          BY <4>4, <4>5, <4>6, <5>1
        <5>2. CASE i # m + 1
          <6>1. i \in 1..m /\ (i # 1 => i - 1 \in 1..m)
            BY <5>2
          <6> QED
            BY <4>3, <4>4, <6>1
        <5> QED
          BY <5>1, <5>2
      <4>9. Flat(m + 1, g)
        BY <4>7, <4>8 DEF Flat
      <4> QED
        BY <4>9
    <3> QED
      BY <3>2, <3>3
  <2> HIDE DEF Defined
  <2>3. Nat \subseteq Defined
    BY <2>1, <2>2, SetInduction
  <2>4. \E f : Flat(L, f)
    BY <1>1, <2>3 DEF Defined
  <2> QED
    BY <2>4 DEF flatten
<1>4. \A i \in 1..L : flatten[i] = IF i = 1 THEN blocks[i] ELSE flatten[i - 1] \o blocks[i]
  BY <1>3 DEF Flat
<1> HIDE DEF L
<1>5. 0 \in Good
  BY <1>1
<1>6. ASSUME NEW m \in Nat, m \in Good PROVE m + 1 \in Good
  <2>1. SUFFICES ASSUME m + 1 \in 1..L PROVE Done(m + 1)
    OBVIOUS
  <2>2. blocks[m + 1] \in Seq(X)
    BY <1>1, <2>1
  <2>3. CASE m = 0
    <3>1. m + 1 = 1
      BY <2>3
    <3>2. flatten[m + 1] = blocks[m + 1]
      BY <1>4, <2>1, <3>1
    <3>3. flatten[m + 1] = <<>> \o blocks[m + 1]
      BY <2>2, <3>2
    <3>4. Spread(<<>>, <<>>, blocks, m) /\ <<>> \in Seq(X)
      BY <2>3 DEF Spread
    <3>5. \E from : Spread(from, <<>> \o blocks[m + 1], blocks, m + 1)
      BY <2>2, <3>4, SpreadGrows
    <3> QED
      BY <2>2, <3>2, <3>3, <3>5
  <2>4. CASE m # 0
    <3>1. m \in 1..L /\ (m + 1) - 1 = m /\ m + 1 # 1
      BY <1>1, <2>1, <2>4
    <3>2. flatten[m + 1] = flatten[m] \o blocks[m + 1]
      BY <1>4, <2>1, <3>1
    <3>3. Done(m)
      BY <1>6, <3>1
    <3>4. flatten[m] \o blocks[m + 1] \in Seq(X)
      BY <2>2, <3>3
    <3>5. \E from : Spread(from, flatten[m] \o blocks[m + 1], blocks, m + 1)
      BY <2>2, <3>3, SpreadGrows
    <3> QED
      BY <3>2, <3>4, <3>5
  <2> QED
    BY <2>3, <2>4
<1> HIDE DEF Good
<1>7. Nat \subseteq Good
  BY <1>5, <1>6, SetInduction
<1> QED
  BY <1>1, <1>2, <1>7 DEF Good, L

-------------------------------------------------------------------------------
(* The loops of toHttpRequest. *)

\* A loop over a map visits every key, once.
LEMMA MapVisited ==
  ASSUME NEW S, IsFiniteSet(S), NEW p \in SetToSeqs(S)
  PROVE  /\ p \in Seq(S)
         /\ \A i, j \in DOMAIN p : p[i] = p[j] => i = j
         /\ \A x \in S : \E i \in DOMAIN p : p[i] = x
<1> DEFINE D == 1..Cardinality(S)
<1>1. Cardinality(S) \in Nat
  BY FS_CardinalityType
<1>2. p \in [D -> S] /\ \A i, j \in D : p[i] = p[j] => i = j
  BY DEF SetToSeqs
<1>3. p \in Seq(S)
  BY <1>1, <1>2
<1>4. IsFiniteSet(D) /\ Cardinality(D) = Cardinality(S)
  BY <1>1, FS_Interval
<1> HIDE DEF D
<1>5. p \in Injection(D, S)
  BY <1>2 DEF Injection, IsInjective
<1>6. p \in Surjection(D, S)
  BY <1>4, <1>5, FS_Injection
<1> QED
  BY <1>2, <1>3, <1>6 DEF Surjection

LEMMA Concatenated ==
  ASSUME NEW X, NEW s \in Seq(X), NEW t \in Seq(X)
  PROVE  /\ s \o t \in Seq(X) /\ Len(s \o t) = Len(s) + Len(t)
         /\ \A i \in 1..Len(s) : (s \o t)[i] = s[i]
         /\ \A i \in 1..Len(t) : (s \o t)[Len(s) + i] = t[i]
OBVIOUS

\* The three loops visit every list, once.
LEMMA ListsVisited ==
  ASSUME NEW data, IsHTTPRequest(data), NEW visit \in Visits(data)
  PROVE  /\ visit \in Seq(Lists(data)) /\ visit # <<>>
         /\ \A i, j \in DOMAIN visit : visit[i] = visit[j] => i = j
         /\ \A list \in Lists(data) : \E i \in DOMAIN visit : visit[i] = list
<1>1. PICK p \in SetToSeqs(DOMAIN data.headers), q \in SetToSeqs(DOMAIN data.multiValueHeaders) :
        visit = <<<<"cookies", "Cookie">>>> \o [i \in DOMAIN p |-> <<"headers", p[i]>>]
                                            \o [i \in DOMAIN q |-> <<"multiValueHeaders", q[i]>>]
  <2>1. \E p \in SetToSeqs(DOMAIN data.headers), q \in SetToSeqs(DOMAIN data.multiValueHeaders) :
          visit = Visit(p, q)
    BY DEF Visits
  <2> QED
    BY <2>1 DEF Visit
<1> DEFINE a == <<<<"cookies", "Cookie">>>>
           b == [i \in DOMAIN p |-> <<"headers", p[i]>>]
           c == [i \in DOMAIN q |-> <<"multiValueHeaders", q[i]>>]
           m == Len(p)
           n == Len(q)
<1>2. /\ p \in Seq(DOMAIN data.headers)
      /\ \A i, j \in DOMAIN p : p[i] = p[j] => i = j
      /\ \A x \in DOMAIN data.headers : \E i \in DOMAIN p : p[i] = x
  BY MapVisited DEF IsHTTPRequest
<1>3. /\ q \in Seq(DOMAIN data.multiValueHeaders)
      /\ \A i, j \in DOMAIN q : q[i] = q[j] => i = j
      /\ \A x \in DOMAIN data.multiValueHeaders : \E i \in DOMAIN q : q[i] = x
  BY MapVisited DEF IsHTTPRequest
<1>4. m \in Nat /\ n \in Nat /\ DOMAIN p = 1..m /\ DOMAIN q = 1..n
  BY <1>2, <1>3
<1>5. /\ a \in Seq(Lists(data)) /\ Len(a) = 1
      /\ b \in Seq(Lists(data)) /\ Len(b) = m
      /\ c \in Seq(Lists(data)) /\ Len(c) = n
  <2>1. \A i \in 1..m : b[i] \in Lists(data)
    BY <1>2, <1>4 DEF Lists
  <2>2. \A i \in 1..n : c[i] \in Lists(data)
    BY <1>3, <1>4 DEF Lists
  <2>3. a[1] \in Lists(data)
    BY DEF Lists
  <2> QED
    BY <1>4, <2>1, <2>2, <2>3
<1>6. visit = a \o b \o c
  BY <1>1
<1>7. /\ visit \in Seq(Lists(data)) /\ DOMAIN visit = 1..(1 + m + n)
      /\ visit[1] = <<"cookies", "Cookie">>
      /\ \A i \in 1..m : visit[1 + i] = <<"headers", p[i]>>
      /\ \A i \in 1..n : visit[1 + m + i] = <<"multiValueHeaders", q[i]>>
  <2>1. \A i \in 1..m : b[i] = <<"headers", p[i]>>
    BY <1>4
  <2>2. \A i \in 1..n : c[i] = <<"multiValueHeaders", q[i]>>
    BY <1>4
  <2>3. a[1] = <<"cookies", "Cookie">>
    OBVIOUS
  <2> HIDE DEF a, b, c
  <2>0. a \in Seq(Lists(data)) /\ b \in Seq(Lists(data)) /\ c \in Seq(Lists(data))
    BY <1>5
  <2> DEFINE ab == a \o b
  <2>4. /\ ab \in Seq(Lists(data)) /\ Len(ab) = 1 + m
        /\ ab[1] = a[1]
        /\ \A i \in 1..m : ab[1 + i] = b[i]
    <3>1. /\ a \o b \in Seq(Lists(data)) /\ Len(a \o b) = Len(a) + Len(b)
          /\ \A i \in 1..Len(a) : (a \o b)[i] = a[i]
          /\ \A i \in 1..Len(b) : (a \o b)[Len(a) + i] = b[i]
      BY <2>0, Concatenated
    <3>2. 1 \in 1..1 /\ Len(a) = 1 /\ Len(b) = m
      BY <1>5
    <3> HIDE DEF ab, m
    <3> QED
      BY <3>1, <3>2 DEF ab
  <2> HIDE DEF ab
  <2>5. /\ ab \o c \in Seq(Lists(data)) /\ Len(ab \o c) = 1 + m + n
        /\ \A i \in 1..(1 + m) : (ab \o c)[i] = ab[i]
        /\ \A i \in 1..n : (ab \o c)[1 + m + i] = c[i]
    <3>0. ab \in Seq(Lists(data))
      BY <2>4
    <3>1. /\ ab \o c \in Seq(Lists(data)) /\ Len(ab \o c) = Len(ab) + Len(c)
          /\ \A i \in 1..Len(ab) : (ab \o c)[i] = ab[i]
          /\ \A i \in 1..Len(c) : (ab \o c)[Len(ab) + i] = c[i]
      BY <2>0, <3>0, Concatenated
    <3>2. Len(ab) = 1 + m /\ Len(c) = n
      BY <1>5, <2>4
    <3> HIDE DEF m, n
    <3> QED
      BY <3>1, <3>2
  <2>6. 1 \in 1..(1 + m) /\ \A i \in 1..m : 1 + i \in 1..(1 + m)
    BY <1>4
  <2>7. visit = ab \o c
    BY <1>6 DEF ab
  <2>8. visit \in Seq(Lists(data)) /\ DOMAIN visit = 1..(1 + m + n)
    BY <2>5, <2>7
  <2>9. visit[1] = <<"cookies", "Cookie">>
    BY <2>3, <2>4, <2>5, <2>6, <2>7 DEF ab
  <2>10. \A i \in 1..m : visit[1 + i] = <<"headers", p[i]>>
    BY <2>1, <2>4, <2>5, <2>6, <2>7 DEF ab
  <2>11. \A i \in 1..n : visit[1 + m + i] = <<"multiValueHeaders", q[i]>>
    BY <2>2, <2>5, <2>7
  <2> QED
    BY <2>8, <2>9, <2>10, <2>11
<1> HIDE DEF a, b, c
<1>8. \A i \in DOMAIN visit : \/ i = 1
                              \/ \E j \in 1..m : i = 1 + j
                              \/ \E j \in 1..n : i = 1 + m + j
  <2> SUFFICES ASSUME NEW i \in 1..(1 + m + n), i # 1, i \notin 2..(1 + m)
               PROVE  \E j \in 1..n : i = 1 + m + j
    <3>1. \A i \in 2..(1 + m) : i - 1 \in 1..m /\ i = 1 + (i - 1)
      BY <1>4
    <3> QED
      BY <1>7, <3>1
  <2>1. i - (1 + m) \in 1..n /\ i = 1 + m + (i - (1 + m))
    BY <1>4
  <2> QED
    BY <2>1
<1>9. /\ 1 \in DOMAIN visit
      /\ \A i \in 1..m : 1 + i \in DOMAIN visit
      /\ \A i \in 1..n : 1 + m + i \in DOMAIN visit
  BY <1>4, <1>7
<1>10. \A list \in Lists(data) : \E i \in DOMAIN visit : visit[i] = list
  <2>1. ASSUME NEW key \in DOMAIN data.headers
        PROVE  \E i \in DOMAIN visit : visit[i] = <<"headers", key>>
    <3>1. PICK i \in 1..m : p[i] = key
      BY <1>2, <1>4
    <3> QED
      BY <1>7, <1>9, <3>1
  <2>2. ASSUME NEW key \in DOMAIN data.multiValueHeaders
        PROVE  \E i \in DOMAIN visit : visit[i] = <<"multiValueHeaders", key>>
    <3>1. PICK i \in 1..n : q[i] = key
      BY <1>3, <1>4
    <3> QED
      BY <1>7, <1>9, <3>1
  <2>3. visit[1] = <<"cookies", "Cookie">> /\ 1 \in DOMAIN visit
    BY <1>7, <1>9
  <2>4. ASSUME NEW list \in Lists(data)
        PROVE  \/ list = <<"cookies", "Cookie">>
               \/ \E key \in DOMAIN data.headers : list = <<"headers", key>>
               \/ \E key \in DOMAIN data.multiValueHeaders : list = <<"multiValueHeaders", key>>
    BY DEF Lists
  <2> QED
    BY <2>1, <2>2, <2>3, <2>4
<1>11. \A i, j \in DOMAIN visit : visit[i] = visit[j] => i = j
  <2> HIDE DEF m, n
  <2> SUFFICES ASSUME NEW i \in DOMAIN visit, NEW j \in DOMAIN visit, visit[i] = visit[j]
               PROVE  i = j
    OBVIOUS
  <2>1. CASE i = 1
    BY <1>7, <1>8, <2>1
  <2>2. CASE \E k \in 1..m : i = 1 + k
    <3>1. PICK k \in 1..m : i = 1 + k
      BY <2>2
    <3>2. \E l \in 1..m : j = 1 + l
      BY <1>7, <1>8, <3>1
    <3>3. PICK l \in 1..m : j = 1 + l
      BY <3>2
    <3>4. p[k] = p[l]
      BY <1>7, <3>1, <3>3
    <3> QED
      BY <1>2, <1>4, <3>1, <3>3, <3>4
  <2>3. CASE \E k \in 1..n : i = 1 + m + k
    <3>1. PICK k \in 1..n : i = 1 + m + k
      BY <2>3
    <3>2. \E l \in 1..n : j = 1 + m + l
      BY <1>7, <1>8, <3>1
    <3>3. PICK l \in 1..n : j = 1 + m + l
      BY <3>2
    <3>4. q[k] = q[l]
      BY <1>7, <3>1, <3>3
    <3> QED
      BY <1>3, <1>4, <3>1, <3>3, <3>4
  <2> QED
    BY <1>8, <2>1, <2>2, <2>3
<1>12. visit # <<>>
  BY <1>9
<1> QED
  BY <1>7, <1>10, <1>11, <1>12

\* Each call of Add has its value from a list, each value of a list has a call, and what
\* follows it in its list follows it.
Sourced(from, lines, data) ==
  /\ DOMAIN from = DOMAIN lines
  /\ \A k \in DOMAIN lines : \E list \in Lists(data) : \E n \in DOMAIN Values(data, list) :
       /\ from[k] = <<list, n>>
       /\ lines[k] = <<list[2], Values(data, list)[n]>>
       /\ n + 1 \in DOMAIN Values(data, list) =>
            k + 1 \in DOMAIN lines /\ from[k + 1] = <<list, n + 1>>
  /\ \A list \in Lists(data) : \A n \in DOMAIN Values(data, list) :
       \E k \in DOMAIN lines : from[k] = <<list, n>>
  /\ \A k, l \in DOMAIN lines : from[k] = from[l] => k = l

LEMMA ValuesTyped ==
  ASSUME NEW data, IsHTTPRequest(data), NEW list \in Lists(data)
  PROVE  Values(data, list) \in Seq(STRING)
<1>1. CASE list = <<"cookies", "Cookie">>
  <2>1. list[1] = "cookies"
    BY <1>1
  <2>2. Values(data, list) = data.cookies
    BY <2>1 DEF Values
  <2>3. data.cookies \in Seq(STRING)
    BY DEF IsHTTPRequest
  <2> QED
    BY <2>2, <2>3
<1>2. ASSUME NEW key \in DOMAIN data.headers, list = <<"headers", key>>
      PROVE  Values(data, list) \in Seq(STRING)
  <2>0. list[1] = "headers" /\ list[2] = key
    BY <1>2
  <2>1. Values(data, list) = <<data.headers[key]>>
    BY <2>0 DEF Values
  <2>2. data.headers[key] \in STRING
    BY DEF IsHTTPRequest
  <2> DEFINE value == data.headers[key]
  <2>3. <<value>> \in Seq(STRING)
    <3> HIDE DEF value
    <3> SUFFICES ASSUME value \in STRING PROVE <<value>> \in Seq(STRING)
      BY <2>2 DEF value
    <3> QED
      OBVIOUS
  <2> QED
    BY <2>0, <2>1, <2>2, <2>3
<1>3. ASSUME NEW key \in DOMAIN data.multiValueHeaders, list = <<"multiValueHeaders", key>>
      PROVE  Values(data, list) \in Seq(STRING)
  <2>1. list[1] = "multiValueHeaders" /\ list[2] = key
    BY <1>3
  <2>2. Values(data, list) = data.multiValueHeaders[key]
    BY <2>1 DEF Values
  <2>3. data.multiValueHeaders[key] \in Seq(STRING)
    BY DEF IsHTTPRequest
  <2> QED
    BY <2>1, <2>2, <2>3
<1> QED
  BY <1>1, <1>2, <1>3 DEF Lists

Keys(data) == {list[2] : list \in Lists(data)}

LEMMA LinesSourced ==
  ASSUME NEW data, IsHTTPRequest(data), NEW visit \in Visits(data)
  PROVE  /\ Lines(data, visit) \in Seq(Keys(data) \X STRING)
         /\ \E from : Sourced(from, Lines(data, visit), data)
<1> DEFINE values(i) == Values(data, visit[i])
           block(i) == [j \in DOMAIN values(i) |-> <<visit[i][2], values(i)[j]>>]
           blocks == [i \in DOMAIN visit |-> block(i)]
           lines == Lines(data, visit)
<1>1. lines = FlattenSeq(blocks)
  BY DEF Lines
<1>2. /\ visit \in Seq(Lists(data)) /\ visit # <<>>
      /\ \A i, j \in DOMAIN visit : visit[i] = visit[j] => i = j
      /\ \A list \in Lists(data) : \E i \in DOMAIN visit : visit[i] = list
  BY ListsVisited
<1>3. ASSUME NEW i \in DOMAIN visit
      PROVE  /\ block(i) \in Seq(Keys(data) \X STRING)
             /\ visit[i] \in Lists(data)
  <2>1. visit[i] \in Lists(data)
    BY <1>2
  <2>2. values(i) \in Seq(STRING) /\ visit[i][2] \in Keys(data)
    BY <2>1, ValuesTyped DEF Keys
  <2> HIDE DEF values
  <2> QED
    BY <2>1, <2>2
<1>4. Len(visit) \in Nat /\ DOMAIN visit = 1..Len(visit) /\ Len(visit) # 0
  BY <1>2
<1>5. blocks \in Seq(Seq(Keys(data) \X STRING)) /\ blocks # <<>> /\ Len(blocks) = Len(visit)
  <2> HIDE DEF block
  <2> QED
    BY <1>3, <1>4
<1>6. /\ FlattenSeq(blocks) \in Seq(Keys(data) \X STRING)
      /\ \E at : Spread(at, FlattenSeq(blocks), blocks, Len(blocks))
  <2> HIDE DEF blocks
  <2> QED
    BY <1>5, FlattenSpread
<1>7. PICK at : Spread(at, lines, blocks, Len(visit))
  BY <1>1, <1>5, <1>6
<1>8. \A i \in 1..Len(visit) :
        /\ DOMAIN blocks[i] = DOMAIN Values(data, visit[i])
        /\ \A j \in DOMAIN blocks[i] : blocks[i][j] = <<visit[i][2], Values(data, visit[i])[j]>>
  BY <1>4
<1> HIDE DEF blocks, lines
<1> DEFINE from == [k \in DOMAIN lines |-> <<visit[at[k][1]], at[k][2]>>]
<1>9. DOMAIN from = DOMAIN lines
  OBVIOUS
<1>10. \A k \in DOMAIN lines : \A i, j : at[k] = <<i, j>> => from[k] = <<visit[i], j>>
  OBVIOUS
<1> HIDE DEF from
<1>11. ASSUME NEW k \in DOMAIN lines
       PROVE  \E i \in 1..Len(visit) : \E j \in DOMAIN Values(data, visit[i]) :
                /\ at[k] = <<i, j>>
                /\ from[k] = <<visit[i], j>>
                /\ lines[k] = <<visit[i][2], Values(data, visit[i])[j]>>
                /\ j + 1 \in DOMAIN Values(data, visit[i]) =>
                     k + 1 \in DOMAIN lines /\ from[k + 1] = <<visit[i], j + 1>>
  <2>1. PICK i \in 1..Len(visit) : \E j \in DOMAIN blocks[i] :
          /\ at[k] = <<i, j>>
          /\ lines[k] = blocks[i][j]
          /\ j + 1 \in DOMAIN blocks[i] => k + 1 \in DOMAIN lines /\ at[k + 1] = <<i, j + 1>>
    BY <1>7 DEF Spread
  <2>2. PICK j \in DOMAIN blocks[i] :
          /\ at[k] = <<i, j>>
          /\ lines[k] = blocks[i][j]
          /\ j + 1 \in DOMAIN blocks[i] => k + 1 \in DOMAIN lines /\ at[k + 1] = <<i, j + 1>>
    BY <2>1
  <2> QED
    BY <1>8, <1>10, <2>2
<1>12. ASSUME NEW list \in Lists(data), NEW n \in DOMAIN Values(data, list)
       PROVE  \E k \in DOMAIN lines : from[k] = <<list, n>>
  <2>1. PICK i \in 1..Len(visit) : visit[i] = list
    BY <1>2, <1>4
  <2>2. n \in DOMAIN blocks[i]
    BY <1>8, <2>1
  <2>3. PICK k \in DOMAIN lines : at[k] = <<i, n>>
    BY <1>7, <2>2 DEF Spread
  <2> QED
    BY <1>10, <2>1, <2>3
<1>13. ASSUME NEW k \in DOMAIN lines, NEW l \in DOMAIN lines, from[k] = from[l] PROVE k = l
  <2>1. PICK i \in 1..Len(visit) : \E j : at[k] = <<i, j>> /\ from[k] = <<visit[i], j>>
    BY <1>11
  <2>2. PICK j : at[k] = <<i, j>> /\ from[k] = <<visit[i], j>>
    BY <2>1
  <2>3. PICK x \in 1..Len(visit) : \E y : at[l] = <<x, y>> /\ from[l] = <<visit[x], y>>
    BY <1>11
  <2>4. PICK y : at[l] = <<x, y>> /\ from[l] = <<visit[x], y>>
    BY <2>3
  <2>5. <<visit[i], j>> = <<visit[x], y>>
    BY <1>13, <2>2, <2>4
  <2>6. visit[i] = visit[x] /\ j = y
    BY <2>5
  <2>7. at[k] = at[l]
    BY <1>2, <1>4, <2>2, <2>4, <2>6
  <2> QED
    BY <1>7, <2>7 DEF Spread
<1>14. \A k \in DOMAIN lines : \E list \in Lists(data) : \E n \in DOMAIN Values(data, list) :
         /\ from[k] = <<list, n>>
         /\ lines[k] = <<list[2], Values(data, list)[n]>>
         /\ n + 1 \in DOMAIN Values(data, list) =>
              k + 1 \in DOMAIN lines /\ from[k + 1] = <<list, n + 1>>
  <2> SUFFICES ASSUME NEW k \in DOMAIN lines
               PROVE  \E list \in Lists(data) : \E n \in DOMAIN Values(data, list) :
                        /\ from[k] = <<list, n>>
                        /\ lines[k] = <<list[2], Values(data, list)[n]>>
                        /\ n + 1 \in DOMAIN Values(data, list) =>
                             k + 1 \in DOMAIN lines /\ from[k + 1] = <<list, n + 1>>
    OBVIOUS
  <2>1. PICK i \in 1..Len(visit) : \E j \in DOMAIN Values(data, visit[i]) :
          /\ from[k] = <<visit[i], j>>
          /\ lines[k] = <<visit[i][2], Values(data, visit[i])[j]>>
          /\ j + 1 \in DOMAIN Values(data, visit[i]) =>
               k + 1 \in DOMAIN lines /\ from[k + 1] = <<visit[i], j + 1>>
    BY <1>11
  <2>2. visit[i] \in Lists(data)
    BY <1>3, <1>4
  <2> QED
    BY <2>1, <2>2
<1>15. Sourced(from, lines, data)
  BY <1>9, <1>12, <1>13, <1>14 DEF Sourced
<1> QED
  BY <1>1, <1>6, <1>15 DEF lines

-------------------------------------------------------------------------------
(* The header of the request, and the JSON of the answer. *)

\* Every value that the JSON gives for a header is in the header that toHttpRequest
\* builds, as often as it is given and nothing else, whatever the order of the loops.
THEOREM HeadersConveyed ==
  ASSUME NEW data, IsHTTPRequest(data), NEW sent \in ToHttpRequest(data)
  PROVE  Conveys(data, sent)
<1>0. PICK built \in HeadersOf(data) : sent.header = built
  <2> DEFINE Sent(header) == [method |-> IF data.httpMethod = "" THEN "GET" ELSE data.httpMethod,
                              path   |-> Escape(data.rawPath),
                              header |-> header,
                              body   |-> IF IsEncoded(data) THEN "bytes" ELSE data.body]
  <2>1. sent \in {Sent(header) : header \in IF Refused(data) THEN {} ELSE HeadersOf(data)}
    BY DEF ToHttpRequest
  <2>2. \A header : Sent(header).header = header
    OBVIOUS
  <2> HIDE DEF Sent
  <2> QED
    BY <2>1, <2>2
<1>1. PICK visit \in Visits(data) : sent.header = HeaderOf(Lines(data, visit))
  BY <1>0 DEF HeadersOf
<1> DEFINE header == sent.header
           lines == Lines(data, visit)
<1>2. lines \in Seq(Keys(data) \X STRING) /\ DOMAIN lines = 1..Len(lines) /\ Len(lines) \in Nat
  BY LinesSourced
<1>3. PICK from : Sourced(from, lines, data)
  BY LinesSourced
<1>4. Traced(header, lines, Len(lines))
  BY <1>1, <1>2, HeaderTraced
<1> HIDE DEF header, lines
<1>5. \A list \in Lists(data) :
        /\ Values(data, list) \in Seq(STRING)
        /\ DOMAIN Values(data, list) = 1..Len(Values(data, list))
        /\ Len(Values(data, list)) \in Nat
        /\ Values(data, list) # <<>> <=> DOMAIN Values(data, list) # {}
  <2>1. ASSUME NEW values \in Seq(STRING)
        PROVE  /\ DOMAIN values = 1..Len(values)
               /\ Len(values) \in Nat
               /\ values # <<>> <=> DOMAIN values # {}
    OBVIOUS
  <2> QED
    BY <2>1, ValuesTyped
<1>6. DOMAIN header =
        {Canonical(list[2]) : list \in {list \in Lists(data) : Values(data, list) # <<>>}}
  <2>1. ASSUME NEW k \in DOMAIN lines
        PROVE  \E list \in Lists(data) :
                 Values(data, list) # <<>> /\ Canonical(lines[k][1]) = Canonical(list[2])
    <3>1. PICK list \in Lists(data) : \E n \in DOMAIN Values(data, list) :
            lines[k] = <<list[2], Values(data, list)[n]>>
      BY <1>3 DEF Sourced
    <3> QED
      BY <1>5, <3>1
  <2>2. ASSUME NEW list \in Lists(data), Values(data, list) # <<>>
        PROVE  \E k \in DOMAIN lines : Canonical(lines[k][1]) = Canonical(list[2])
    <3>1. PICK n \in DOMAIN Values(data, list) : TRUE
      BY <1>5, <2>2
    <3>2. PICK k \in DOMAIN lines : from[k] = <<list, n>>
      BY <1>3 DEF Sourced
    <3>3. PICK other \in Lists(data) : \E x \in DOMAIN Values(data, other) :
            from[k] = <<other, x>> /\ lines[k] = <<other[2], Values(data, other)[x]>>
      BY <1>3 DEF Sourced
    <3>4. other = list
      BY <3>2, <3>3
    <3> QED
      BY <3>3, <3>4
  <2> QED
    BY <1>2, <1>4, <2>1, <2>2 DEF Traced
<1>7. ASSUME NEW name \in DOMAIN header
      PROVE  \E of \in Bijection(DOMAIN header[name], Given(data, name)) :
               \A i \in DOMAIN of :
                 LET list == of[i][1]
                     n == of[i][2]
                 IN  /\ header[name][i] = Values(data, list)[n]
                     /\ n < Len(Values(data, list)) =>
                          i + 1 \in DOMAIN of /\ of[i + 1] = <<list, n + 1>>
  <2> DEFINE values == header[name]
  <2>1. values \in Seq(STRING)
    BY <1>4 DEF Traced
  <2>2. PICK at : Trace(at, values, lines, Len(lines), name)
    BY <1>4 DEF Traced
  <2> HIDE DEF values
  <2>3. /\ DOMAIN at = DOMAIN values
        /\ DOMAIN at = 1..Len(values) /\ Len(values) \in Nat
        /\ \A i \in DOMAIN at : /\ at[i] \in DOMAIN lines
                                /\ Canonical(lines[at[i]][1]) = name
                                /\ lines[at[i]][2] = values[i]
        /\ \A i, j \in DOMAIN at : i < j => at[i] < at[j]
        /\ \A k \in DOMAIN lines : Canonical(lines[k][1]) = name => \E i \in DOMAIN at : at[i] = k
    BY <1>2, <2>1, <2>2 DEF Trace
  <2> DEFINE of == [i \in DOMAIN values |-> from[at[i]]]
  <2>4. DOMAIN of = DOMAIN values /\ \A i \in DOMAIN values : of[i] = from[at[i]]
    OBVIOUS
  <2> HIDE DEF of
  <2>5. ASSUME NEW i \in DOMAIN values
        PROVE  \E list \in Lists(data) : \E n \in DOMAIN Values(data, list) :
                 /\ of[i] = <<list, n>>
                 /\ Canonical(list[2]) = name
                 /\ values[i] = Values(data, list)[n]
                 /\ n + 1 \in DOMAIN Values(data, list) =>
                      i + 1 \in DOMAIN values /\ of[i + 1] = <<list, n + 1>>
    <3> DEFINE k == at[i]
    <3>1. PICK list \in Lists(data) : \E n \in DOMAIN Values(data, list) :
            /\ from[k] = <<list, n>>
            /\ lines[k] = <<list[2], Values(data, list)[n]>>
            /\ n + 1 \in DOMAIN Values(data, list) =>
                 k + 1 \in DOMAIN lines /\ from[k + 1] = <<list, n + 1>>
      BY <1>3, <2>3 DEF Sourced
    <3>2. PICK n \in DOMAIN Values(data, list) :
            /\ from[k] = <<list, n>>
            /\ lines[k] = <<list[2], Values(data, list)[n]>>
            /\ n + 1 \in DOMAIN Values(data, list) =>
                 k + 1 \in DOMAIN lines /\ from[k + 1] = <<list, n + 1>>
      BY <3>1
    <3>3. /\ of[i] = <<list, n>>
          /\ Canonical(list[2]) = name
          /\ values[i] = Values(data, list)[n]
      BY <2>3, <2>4, <3>2
    <3>4. ASSUME n + 1 \in DOMAIN Values(data, list)
          PROVE  i + 1 \in DOMAIN values /\ of[i + 1] = <<list, n + 1>>
      <4>1. k + 1 \in DOMAIN lines /\ from[k + 1] = <<list, n + 1>>
        BY <3>2, <3>4
      <4>2. PICK other \in Lists(data) : \E x \in DOMAIN Values(data, other) :
              from[k + 1] = <<other, x>> /\ lines[k + 1] = <<other[2], Values(data, other)[x]>>
        BY <1>3, <4>1 DEF Sourced
      <4>3. other = list /\ Canonical(lines[k + 1][1]) = name
        BY <3>3, <4>1, <4>2
      <4>4. PICK j \in DOMAIN at : at[j] = k + 1
        BY <2>3, <4>1, <4>3
      <4>5. j = i + 1
        <5>1. i \in Nat /\ j \in Nat /\ k \in Nat
          BY <1>2, <2>3
        <5>2. ~(j < i) /\ j # i
          BY <1>2, <2>3, <4>4, <5>1
        <5>3. i + 1 \in DOMAIN at
          BY <2>3, <5>1, <5>2
        <5>4. at[i + 1] \in Nat /\ k < at[i + 1]
          BY <1>2, <2>3, <5>1, <5>3
        <5>5. ~(i + 1 < j)
          BY <2>3, <4>4, <5>1, <5>3, <5>4
        <5> QED
          BY <5>1, <5>2, <5>5
      <4> QED
        BY <2>3, <2>4, <4>1, <4>4, <4>5
    <3> QED
      BY <3>3, <3>4
  <2>6. of \in [DOMAIN values -> Given(data, name)]
    <3>1. ASSUME NEW i \in DOMAIN values PROVE of[i] \in Given(data, name)
      <4>1. PICK list \in Lists(data) : \E n \in DOMAIN Values(data, list) :
              of[i] = <<list, n>> /\ Canonical(list[2]) = name
        BY <2>5
      <4>2. PICK n \in DOMAIN Values(data, list) : of[i] = <<list, n>>
        BY <4>1
      <4> QED
        BY <4>1, <4>2 DEF Given
    <3>2. of = [i \in DOMAIN values |-> of[i]]
      BY <2>4 DEF of
    <3> QED
      BY <3>1, <3>2
  <2>7. \A i, j \in DOMAIN values : of[i] = of[j] => i = j
    <3> SUFFICES ASSUME NEW i \in DOMAIN values, NEW j \in DOMAIN values, of[i] = of[j]
                 PROVE  i = j
      OBVIOUS
    <3>1. at[i] = at[j]
      BY <1>3, <2>3, <2>4 DEF Sourced
    <3>2. at[i] \in Nat /\ i \in Nat /\ j \in Nat
      BY <1>2, <2>3
    <3> QED
      BY <2>3, <3>1, <3>2
  <2>8. \A place \in Given(data, name) : \E i \in DOMAIN values : of[i] = place
    <3> SUFFICES ASSUME NEW list \in Lists(data), Canonical(list[2]) = name,
                        NEW n \in DOMAIN Values(data, list)
                 PROVE  \E i \in DOMAIN values : of[i] = <<list, n>>
      BY DEF Given
    <3>1. PICK k \in DOMAIN lines : from[k] = <<list, n>>
      BY <1>3 DEF Sourced
    <3>2. PICK other \in Lists(data) : \E x \in DOMAIN Values(data, other) :
            from[k] = <<other, x>> /\ lines[k] = <<other[2], Values(data, other)[x]>>
      BY <1>3 DEF Sourced
    <3>3. other = list /\ Canonical(lines[k][1]) = name
      BY <3>1, <3>2
    <3> QED
      BY <2>3, <2>4, <3>1, <3>3
  <2>9. of \in Bijection(DOMAIN values, Given(data, name))
    BY <2>6, <2>7, <2>8 DEF Bijection, Injection, Surjection, IsInjective
  <2>10. ASSUME NEW i \in DOMAIN of
         PROVE  /\ values[i] = Values(data, of[i][1])[of[i][2]]
                /\ of[i][2] < Len(Values(data, of[i][1])) =>
                     i + 1 \in DOMAIN of /\ of[i + 1] = <<of[i][1], of[i][2] + 1>>
    <3>1. PICK list \in Lists(data) : \E n \in DOMAIN Values(data, list) :
            /\ of[i] = <<list, n>>
            /\ values[i] = Values(data, list)[n]
            /\ n + 1 \in DOMAIN Values(data, list) =>
                 i + 1 \in DOMAIN values /\ of[i + 1] = <<list, n + 1>>
      BY <2>4, <2>5
    <3>2. PICK n \in DOMAIN Values(data, list) :
            /\ of[i] = <<list, n>>
            /\ values[i] = Values(data, list)[n]
            /\ n + 1 \in DOMAIN Values(data, list) =>
                 i + 1 \in DOMAIN values /\ of[i + 1] = <<list, n + 1>>
      BY <3>1
    <3>3. n < Len(Values(data, list)) => n + 1 \in DOMAIN Values(data, list)
      BY <1>5
    <3>4. of[i][1] = list /\ of[i][2] = n
      BY <3>2
    <3> QED
      BY <2>4, <3>2, <3>3, <3>4
  <2> QED
    BY <2>9, <2>10 DEF values
<1> QED
  BY <1>6, <1>7 DEF Conveys, header

\* toHttpResponse puts every header in one of two places, where its values can be
\* read off again, for any header that a service may send.
LEMMA HeadersRecovered ==
  ASSUME NEW response, response.header \in [DOMAIN response.header -> Seq(STRING)]
  PROVE  Recovers(response, ToHttpResponse(response))
<1> DEFINE header == response.header
           single == {key \in DOMAIN header : IsSingle(header[key])}
           lone == [key \in single |-> Head(header[key])]
           others == Restrict(header, DOMAIN header \ single)
<1>1. /\ ToHttpResponse(response).headers = lone
      /\ ToHttpResponse(response).multiValueHeaders = others
  BY DEF ToHttpResponse
<1>2. DOMAIN lone = single /\ DOMAIN others = DOMAIN header \ single
  BY DEF Restrict
<1>3. ASSUME NEW key \in single PROVE <<lone[key]>> = header[key]
  <2>1. header[key] \in Seq(STRING) /\ Len(header[key]) = 1
    BY DEF IsSingle
  <2> QED
    BY <2>1
<1>4. \A key \in DOMAIN others : header[key] = others[key]
  BY DEF Restrict
<1> QED
  BY <1>1, <1>2, <1>3, <1>4 DEF Recovers

================================================================================
