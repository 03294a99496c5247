--------------------------- MODULE ChannelOrderProofs ---------------------------
(****************************************************************************)
(* Proofs about Channel, continued: what is on its way to the client, from  *)
(* the worker that writes it to the wire, and in which order.               *)
(****************************************************************************)
EXTENDS ChannelOutputProofs

----------------------------------------------------------------------------
(* How far a response has been written *)

\* f[i] is the size of the first i writes, for each i up to k.
Sums(f, ws, k) ==
    f = [i \in 0 .. k |-> IF i = 0 THEN 0 ELSE f[i - 1] + ws[i].size]

LEMMA SumsExists ==
    ASSUME NEW ws \in Seq(Writes), NEW k \in Nat, k =< Len(ws)
    PROVE  \E f : Sums(f, ws, k)
<1> DEFINE T == {j \in Nat : j =< Len(ws) /\ ~\E f : Sums(f, ws, j)}
<1>1. SUFFICES ASSUME T # {} PROVE FALSE
  OBVIOUS
<1>2. PICK j \in T : \A y \in T : j =< y
  <2>1. T \in SUBSET Nat
    OBVIOUS
  <2> HIDE DEF T
  <2> QED
    BY <1>1, <2>1, LeastOf
<1>3. CASE j = 0
  <2>1. Sums([i \in 0 .. 0 |-> 0], ws, 0)
    BY DEF Sums
  <2> QED
    BY <1>3, <2>1
<1>4. CASE j # 0
  <2>1. j \in Nat /\ j - 1 \in Nat /\ j - 1 =< Len(ws) /\ ~(j =< j - 1)
    BY <1>4, LenProperties
  <2>2. PICK g : Sums(g, ws, j - 1)
    BY <1>2, <2>1
  <2> DEFINE f == [i \in 0 .. j |-> IF i < j THEN g[i] ELSE g[j - 1] + ws[j].size]
  <2>3. ASSUME NEW i \in 0 .. j
        PROVE  f[i] = IF i = 0 THEN 0 ELSE f[i - 1] + ws[i].size
    <3>1. CASE i < j
      <4>1. i \in 0 .. j - 1 /\ (i # 0 => i - 1 \in 0 .. j /\ i - 1 < j)
        BY <2>1, <3>1
      <4>2. f[i] = g[i] /\ (i # 0 => f[i - 1] = g[i - 1])
        BY <3>1, <4>1
      <4> QED
        BY <2>2, <4>1, <4>2 DEF Sums
    <3>2. CASE i = j
      <4>1. i # 0 /\ j - 1 \in 0 .. j /\ j - 1 < j /\ ~(j < j)
        BY <1>4, <2>1, <3>2
      <4> QED
        BY <3>2, <4>1
    <3> QED
      BY <2>1, <3>1, <3>2
  <2>4. Sums(f, ws, j)
    BY <2>3 DEF Sums
  <2> QED
    BY <2>4
<1> QED
  BY <1>3, <1>4

LEMMA WrittenIs ==
    ASSUME NEW ws \in Seq(Writes)
    PROVE  /\ Written(ws)[0] = 0
           /\ \A i \in 1 .. Len(ws) : Written(ws)[i] = Written(ws)[i - 1] + ws[i].size
<1> DEFINE c == CHOOSE f : Sums(f, ws, Len(ws))
<1>1. Len(ws) \in Nat
  BY LenProperties
<1>2. Sums(c, ws, Len(ws))
  BY <1>1, SumsExists
<1>3. Written(ws) = c
  BY DEF Written, Sums
<1> HIDE DEF c
<1>4. 0 \in 0 .. Len(ws)
  BY <1>1
<1>5. c[0] = 0
  BY <1>2, <1>4 DEF Sums
<1>6. ASSUME NEW i \in 1 .. Len(ws) PROVE c[i] = c[i - 1] + ws[i].size
  <2>1. i \in 0 .. Len(ws) /\ i # 0
    BY <1>1
  <2> QED
    BY <1>2, <2>1 DEF Sums
<1> QED
  BY <1>3, <1>5, <1>6

\* It grows with each write.
LEMMA WrittenGrows ==
    ASSUME NEW ws \in Seq(Writes)
    PROVE  /\ \A i \in 0 .. Len(ws) : Written(ws)[i] \in Nat
           /\ \A i \in 0 .. Len(ws) : i # 0 => Written(ws)[i] > 0
           /\ \A i \in 0 .. Len(ws) : Written(ws)[i] =< Written(ws)[Len(ws)]
           /\ \A i \in 0 .. Len(ws) : i # Len(ws) => Written(ws)[i] < Written(ws)[Len(ws)]
<1> DEFINE f == Written(ws)
           n == Len(ws)
<1>1. n \in Nat
  BY LenProperties
<1>2. f[0] = 0 /\ \A i \in 1 .. n : f[i] = f[i - 1] + ws[i].size
  BY WrittenIs
<1>3. \A i \in 1 .. n : ws[i].size \in Nat \ {0}
  <2> TAKE i \in 1 .. n
  <2>1. ws[i] \in Writes
    BY ElementOfSeq
  <2> QED
    BY <2>1 DEF Writes
<1> HIDE DEF f, n
<1>4. \A i \in 0 .. n : f[i] \in Nat /\ (i # 0 => f[i] > 0)
  <2> DEFINE T == {i \in 0 .. n : ~(f[i] \in Nat /\ (i # 0 => f[i] > 0))}
  <2>1. SUFFICES ASSUME T # {} PROVE FALSE
    OBVIOUS
  <2>2. PICK i \in T : \A y \in T : i =< y
    <3>1. T \in SUBSET Nat
      OBVIOUS
    <3> HIDE DEF T
    <3> QED
      BY <2>1, <3>1, LeastOf
  <2>3. i # 0
    BY <1>2
  <2>4. i \in 1 .. n /\ i - 1 \in 0 .. n /\ ~(i =< i - 1)
    BY <1>1, <2>3
  <2>5. f[i - 1] \in Nat
    BY <2>2, <2>4
  <2>6. f[i] = f[i - 1] + ws[i].size /\ ws[i].size \in Nat \ {0}
    BY <1>2, <1>3, <2>4
  <2> QED
    BY <2>5, <2>6
<1>5. \A i \in 0 .. n : f[i] =< f[n] /\ (i # n => f[i] < f[n])
  <2> DEFINE T == {d \in 0 .. n : ~(f[n - d] =< f[n] /\ (n - d # n => f[n - d] < f[n]))}
  <2>1. T = {}
    <3>1. SUFFICES ASSUME T # {} PROVE FALSE
      OBVIOUS
    <3>2. PICK d \in T : \A y \in T : d =< y
      <4>1. T \in SUBSET Nat
        OBVIOUS
      <4> HIDE DEF T
      <4> QED
        BY <3>1, <4>1, LeastOf
    <3>3. n \in 0 .. n /\ n - 0 = n /\ f[n] \in Nat
      BY <1>1, <1>4
    <3>4. d # 0
      BY <3>3
    <3>5. /\ d - 1 \in 0 .. n /\ ~(d =< d - 1) /\ n - d \in 0 .. n
          /\ n - (d - 1) \in 1 .. n /\ n - (d - 1) \in 0 .. n /\ (n - (d - 1)) - 1 = n - d
      BY <1>1, <3>4
    <3>6. f[n - (d - 1)] =< f[n]
      BY <3>2, <3>5
    <3>7. f[n - (d - 1)] = f[n - d] + ws[n - (d - 1)].size
      BY <1>2, <3>5
    <3>8. ws[n - (d - 1)].size \in Nat \ {0} /\ f[n - d] \in Nat /\ f[n - (d - 1)] \in Nat
      BY <1>3, <1>4, <3>5
    <3>9. f[n - d] < f[n]
      <4> DEFINE a == f[n - d]
                 b == f[n - (d - 1)]
                 c == ws[n - (d - 1)].size
                 e == f[n]
      <4>1. a \in Nat /\ b \in Nat /\ c \in Nat \ {0} /\ e \in Nat /\ b = a + c /\ b =< e
        BY <3>3, <3>6, <3>7, <3>8
      <4> HIDE DEF a, b, c, e
      <4>2. a < e
        BY <4>1
      <4> QED
        BY <4>2 DEF a, e
    <3>10. f[n - d] =< f[n]
      BY <3>3, <3>8, <3>9
    <3> QED
      BY <3>9, <3>10
  <2> TAKE i \in 0 .. n
  <2>2. n - i \in 0 .. n /\ n - (n - i) = i
    BY <1>1
  <2>3. n - i \notin T
    BY <2>1
  <2> HIDE DEF T
  <2>4. f[n - (n - i)] =< f[n] /\ (n - (n - i) # n => f[n - (n - i)] < f[n])
    BY <2>2, <2>3 DEF T
  <2> QED
    BY <2>2, <2>4
<1> QED
  BY <1>4, <1>5 DEF f, n

----------------------------------------------------------------------------
(* Tokens in the order of the responses *)

\* b is the next request after a that gets a response.
After(a, b) == a < b /\ \A id \in a + 1 .. b - 1 : ~Responds(id)

\* Token b may come after the tokens s.
Ready(s, b) ==
    IF s = <<>> THEN b[2] \in {0, 1} /\ \A id \in 1 .. b[1] - 1 : ~Responds(id)
                ELSE FollowsOnWire(s[Len(s)], b)

\* Tokens that follow one another.
Chained(s) ==
    /\ \A i \in 1 .. Len(s) - 1 : FollowsOnWire(s[i], s[i + 1])
    /\ \A i \in 1 .. Len(s) : s[i][2] = 0 => script[s[i][1]].expect

\* What ResponsesInOrder says of the wire.
InOrder(s) == Chained(s) /\ (s # <<>> => Ready(<<>>, s[1]))

LEMMA OrderOnWire ==
    ASSUME wire \in Seq(Token), InOrder(wire)
    PROVE  ResponsesInOrder
<1>1. DOMAIN wire = 1 .. Len(wire)
  BY LenProperties
<1> QED
  BY <1>1 DEF ResponsesInOrder, InOrder, Chained, Ready

LEMMA OrderConcat ==
    ASSUME NEW s \in Seq(Token), NEW x \in Seq(Token), InOrder(s), Chained(x),
           x # <<>> => Ready(s, x[1])
    PROVE  s \o x \in Seq(Token) /\ InOrder(s \o x)
<1> DEFINE q == s \o x
           m == Len(s)
           n == Len(x)
<1>1. m \in Nat /\ n \in Nat
  BY LenProperties
<1>2. q \in Seq(Token) /\ Len(q) = m + n
      /\ \A i \in 1 .. m + n : q[i] = IF i =< m THEN s[i] ELSE x[i - m]
  BY ConcatProperties
<1>3. (s = <<>> <=> m = 0) /\ (x = <<>> <=> n = 0) /\ (q = <<>> <=> m + n = 0)
  BY <1>2, EmptySeq
<1>4. /\ \A i \in 1 .. m - 1 : FollowsOnWire(s[i], s[i + 1])
      /\ \A i \in 1 .. m : s[i][2] = 0 => script[s[i][1]].expect
      /\ \A i \in 1 .. n - 1 : FollowsOnWire(x[i], x[i + 1])
      /\ \A i \in 1 .. n : x[i][2] = 0 => script[x[i][1]].expect
      /\ m # 0 => Ready(<<>>, s[1])
  BY <1>3 DEF InOrder, Chained
<1>5. m # 0 /\ n # 0 => FollowsOnWire(s[m], x[1])
  BY <1>3 DEF Ready
<1>6. m = 0 /\ n # 0 => Ready(<<>>, x[1])
  BY <1>3
<1> HIDE DEF q, m, n
<1>7. ASSUME NEW i \in 1 .. m + n - 1 PROVE FollowsOnWire(q[i], q[i + 1])
  <2>1. CASE i < m
    <3>1. i \in 1 .. m - 1 /\ i \in 1 .. m + n /\ i + 1 \in 1 .. m + n /\ i =< m /\ i + 1 =< m
      BY <1>1, <2>1
    <3> QED
      BY <1>2, <1>4, <3>1
  <2>2. CASE i = m
    <3>1. i \in 1 .. m + n /\ i + 1 \in 1 .. m + n /\ i =< m /\ ~(i + 1 =< m) /\ (i + 1) - m = 1
          /\ m # 0 /\ n # 0
      BY <1>1, <2>2
    <3> QED
      BY <1>2, <1>5, <2>2, <3>1
  <2>3. CASE i > m
    <3>1. /\ i \in 1 .. m + n /\ i + 1 \in 1 .. m + n /\ ~(i =< m) /\ ~(i + 1 =< m)
          /\ i - m \in 1 .. n - 1 /\ (i + 1) - m = (i - m) + 1
      BY <1>1, <2>3
    <3>2. q[i] = x[i - m] /\ q[i + 1] = x[(i - m) + 1]
      BY <1>2, <3>1
    <3> QED
      BY <1>4, <3>1, <3>2
  <2> QED
    BY <1>1, <2>1, <2>2, <2>3
<1>8. ASSUME NEW i \in 1 .. m + n, q[i][2] = 0 PROVE script[q[i][1]].expect
  <2>1. CASE i =< m
    <3>1. i \in 1 .. m /\ q[i] = s[i]
      BY <1>1, <1>2, <2>1
    <3> QED
      BY <1>4, <1>8, <3>1
  <2>2. CASE ~(i =< m)
    <3>1. i - m \in 1 .. n /\ q[i] = x[i - m]
      BY <1>1, <1>2, <2>2
    <3> QED
      BY <1>4, <1>8, <3>1
  <2> QED
    BY <2>1, <2>2
<1>9. ASSUME m + n # 0 PROVE Ready(<<>>, q[1])
  <2>1. CASE m # 0
    <3>1. 1 \in 1 .. m + n /\ 1 =< m
      BY <1>1, <2>1
    <3> QED
      BY <1>2, <1>4, <2>1, <3>1
  <2>2. CASE m = 0
    <3>1. 1 \in 1 .. m + n /\ ~(1 =< m) /\ 1 - m = 1 /\ n # 0
      BY <1>1, <1>9, <2>2
    <3> QED
      BY <1>2, <1>6, <2>2, <3>1
  <2> QED
    BY <2>1, <2>2
<1>10. InOrder(q)
  <2>1. Len(q) = m + n
    BY <1>2
  <2>2. \A i \in 1 .. m + n - 1 : FollowsOnWire(q[i], q[i + 1])
    BY <1>7
  <2>3. \A i \in 1 .. m + n : q[i][2] = 0 => script[q[i][1]].expect
    BY <1>8
  <2>4. Chained(q)
    <3> DEFINE l == Len(q)
    <3>1. l = m + n
      BY <2>1
    <3> HIDE DEF l
    <3>2. \A i \in 1 .. l - 1 : FollowsOnWire(q[i], q[i + 1])
      BY <1>1, <2>2, <3>1
    <3>3. \A i \in 1 .. l : q[i][2] = 0 => script[q[i][1]].expect
      BY <2>3, <3>1
    <3> QED
      BY <3>2, <3>3 DEF Chained, l
  <2>5. q # <<>> => Ready(<<>>, q[1])
    BY <1>3, <1>9
  <2> QED
    BY <2>4, <2>5 DEF InOrder
<1> QED
  BY <1>2, <1>10 DEF q

LEMMA OrderPrefix ==
    ASSUME NEW s \in Seq(Token), NEW x \in Seq(Token), InOrder(s \o x)
    PROVE  InOrder(s)
<1> DEFINE q == s \o x
           m == Len(s)
           n == Len(x)
<1>1. m \in Nat /\ n \in Nat
  BY LenProperties
<1>2. q \in Seq(Token) /\ Len(q) = m + n
      /\ \A i \in 1 .. m + n : q[i] = IF i =< m THEN s[i] ELSE x[i - m]
  BY ConcatProperties
<1>3. (s = <<>> <=> m = 0) /\ (q = <<>> <=> m + n = 0)
  BY <1>2, EmptySeq
<1>4. /\ \A i \in 1 .. m + n - 1 : FollowsOnWire(q[i], q[i + 1])
      /\ \A i \in 1 .. m + n : q[i][2] = 0 => script[q[i][1]].expect
      /\ m + n # 0 => Ready(<<>>, q[1])
  BY <1>2, <1>3 DEF InOrder, Chained
<1>5. Len(s) = m
  OBVIOUS
<1> HIDE DEF q, m, n
<1>6. \A i \in 1 .. m : i \in 1 .. m + n /\ q[i] = s[i]
  BY <1>1, <1>2
<1>7. \A i \in 1 .. m - 1 : i \in 1 .. m + n - 1 /\ i \in 1 .. m /\ i + 1 \in 1 .. m
  BY <1>1
<1>8. m # 0 => 1 \in 1 .. m /\ m + n # 0
  BY <1>1
<1>9. \A i \in 1 .. m - 1 : FollowsOnWire(s[i], s[i + 1])
  BY <1>4, <1>6, <1>7
<1>10. \A i \in 1 .. m : s[i][2] = 0 => script[s[i][1]].expect
  BY <1>4, <1>6
<1>11. m # 0 => Ready(<<>>, s[1])
  BY <1>4, <1>6, <1>8
<1> QED
  BY <1>3, <1>5, <1>9, <1>10, <1>11 DEF InOrder, Chained

\* A request that is not blank has something in its response.
LEMMA ResponsePositive ==
    ASSUME script \in Scripts, NEW id \in 1 .. Len(script)
    PROVE  /\ script[id] \in Requests /\ script[id].writes \in Seq(Writes)
           /\ ResponseLen(id) \in Nat
           /\ Responds(id) => script[id].writes # <<>> /\ ResponseLen(id) > 0
           /\ script[id].expect => Responds(id)
<1> DEFINE ws == script[id].writes
<1>1. script \in Seq(Requests) /\ id \in DOMAIN script /\ script[id] \in Requests
  <2>1. script \in Seq(Requests)
    BY ScriptsShape
  <2> QED
    BY <2>1, ElementOfSeq, LenProperties
<1>2. ws \in Seq(Writes)
  BY <1>1 DEF Requests
<1>3. Responds(id) => ws # <<>>
  BY <1>1, ScriptsShape DEF Responds, Requests
<1>4. script[id].expect => Responds(id)
  BY <1>1, ScriptsShape DEF Responds, Requests
<1>5. ResponseLen(id) = Written(ws)[Len(ws)]
  BY DEF ResponseLen
<1> HIDE DEF ws
<1>6. Len(ws) \in 0 .. Len(ws) /\ (ws # <<>> => Len(ws) # 0)
  BY <1>2, LenProperties, EmptySeq
<1>7. Written(ws)[Len(ws)] \in Nat /\ (ws # <<>> => Written(ws)[Len(ws)] > 0)
  BY <1>2, <1>6, WrittenGrows
<1> QED
  BY <1>1, <1>2, <1>3, <1>4, <1>5, <1>7 DEF ws

\* A chunk of a response follows itself.
LEMMA ChunkChained ==
    ASSUME NEW id \in Nat, NEW k \in Nat, NEW size \in Nat \ {0}, k # 0,
           ResponseLen(id) \in Nat, k + size - 1 =< ResponseLen(id)
    PROVE  /\ Chained(Tokens(id, k, size)) /\ Tokens(id, k, size) # <<>>
           /\ Tokens(id, k, size)[1] = <<id, k>>
           /\ Tokens(id, k, size)[size] = <<id, k + size - 1>>
<1> DEFINE x == Tokens(id, k, size)
           r == ResponseLen(id)
<1>1. x \in Seq(Token) /\ Len(x) = size
  BY TokensTyped
<1>2. \A i \in 1 .. size : x[i] = <<id, k + i - 1>>
  BY DEF Tokens
<1>3. x # <<>>
  BY <1>1, EmptySeq
<1> HIDE DEF x
<1>4. 1 \in 1 .. size /\ size \in 1 .. size /\ k + 1 - 1 = k
  OBVIOUS
<1>5. ASSUME NEW i \in 1 .. size - 1 PROVE FollowsOnWire(x[i], x[i + 1])
  <2>1. i \in 1 .. size /\ i + 1 \in 1 .. size
    OBVIOUS
  <2> DEFINE a == k + i - 1
  <2>2. x[i] = <<id, a>> /\ x[i + 1] = <<id, k + (i + 1) - 1>>
    BY <1>2, <2>1
  <2>3. k + (i + 1) - 1 = a + 1 /\ a < r
    <3>1. r \in Nat /\ k + size - 1 =< r
      OBVIOUS
    <3> HIDE DEF r
    <3> QED
      BY <3>1
  <2> HIDE DEF a
  <2> QED
    BY <2>2, <2>3 DEF FollowsOnWire, r
<1>6. ASSUME NEW i \in 1 .. size PROVE x[i][2] # 0
  <2>1. x[i][2] = k + i - 1 /\ k + i - 1 # 0
    BY <1>2
  <2> QED
    BY <2>1
<1> QED
  BY <1>1, <1>2, <1>3, <1>4, <1>5, <1>6 DEF Chained, x

LEMMA SplitAt ==
    ASSUME NEW S, NEW s \in Seq(S), NEW n \in 0 .. Len(s)
    PROVE  /\ SubSeq(s, 1, n) \in Seq(S) /\ SubSeq(s, n + 1, Len(s)) \in Seq(S)
           /\ SubSeq(s, 1, n) \o SubSeq(s, n + 1, Len(s)) = s
<1>1. Len(s) \in Nat /\ n \in Nat /\ n =< Len(s)
  BY LenProperties
<1>2. 1 \in 1 .. Len(s) + 1 /\ n \in 1 - 1 .. Len(s) /\ Len(s) \in n .. Len(s)
  BY <1>1
<1>3. SubSeq(s, 1, n) \o SubSeq(s, n + 1, Len(s)) = SubSeq(s, 1, Len(s))
  BY <1>2, ConcatAdjacentSubSeq
<1>4. SubSeq(s, 1, n) \in Seq(S)
  <2>1. \A i \in 1 .. n : s[i] \in S
    BY <1>1, ElementOfSeq
  <2> QED
    BY <1>1, <2>1, SubSeqProperties
<1>5. SubSeq(s, n + 1, Len(s)) \in Seq(S)
  <2>1. \A i \in n + 1 .. Len(s) : s[i] \in S
    BY <1>1, ElementOfSeq
  <2>2. n + 1 \in Int /\ Len(s) \in Int
    BY <1>1
  <2> QED
    BY <2>1, <2>2, SubSeqProperties
<1> QED
  BY <1>3, <1>4, <1>5, SubSeqFull

LEMMA RestOfConcat ==
    ASSUME NEW d \in Seq(Token), NEW r \in Seq(Token), NEW n \in 0 .. Len(d)
    PROVE  /\ d \o r \in Seq(Token) /\ n \in 0 .. Len(d \o r)
           /\ SubSeq(d \o r, n + 1, Len(d \o r)) = SubSeq(d, n + 1, Len(d)) \o r
<1> DEFINE whole == d \o r
<1>1. Len(d) \in Nat /\ Len(r) \in Nat /\ whole \in Seq(Token) /\ Len(whole) = Len(d) + Len(r)
  BY LenProperties, ConcatProperties
<1>2. n \in 0 .. Len(whole)
  BY <1>1
<1>3. CASE n = 0
  <2>1. SubSeq(d, 1, Len(d)) = d /\ SubSeq(whole, 1, Len(whole)) = whole
    BY <1>1, SubSeqFull
  <2> QED
    BY <1>1, <1>2, <1>3, <2>1, SMTT(30)
<1>4. CASE n # 0
  <2> DEFINE p == SubSeq(d, 1, n)
             q == SubSeq(d, n + 1, Len(d))
             v == SubSeq(whole, n + 1, Len(whole))
  <2>1. p \in Seq(Token) /\ q \in Seq(Token) /\ p \o q = d
    BY SplitAt
  <2>2. v \in Seq(Token) /\ SubSeq(whole, 1, n) \o v = whole
    <3> HIDE DEF whole
    <3> QED
      BY <1>1, <1>2, SplitAt
  <2>3. SubSeq(whole, 1, n) = p
    <3>1. 1 \in 1 .. Len(d) /\ n \in 1 .. Len(d)
      BY <1>1, <1>4
    <3> QED
      BY <3>1, SubSeqOfConcat1
  <2> HIDE DEF p, q, v
  <2>4. q \o r \in Seq(Token) /\ p \o (q \o r) = whole
    <3>1. Associate(p, q, r)
      BY <2>1, TokensAssociate
    <3>2. q \o r \in Seq(Token)
      BY <2>1, ConcatProperties
    <3> QED
      BY <2>1, <3>1, <3>2 DEF Associate
  <2>5. p \o v = p \o (q \o r)
    BY <2>2, <2>3, <2>4
  <2>6. v = q \o r
    BY <2>1, <2>2, <2>4, <2>5, ConcatSimplifications
  <2> QED
    BY <1>1, <1>2, <2>6 DEF q, v
<1> QED
  BY <1>3, <1>4

----------------------------------------------------------------------------
(* What is on its way to the client *)

\* The thread whose send() has returned, while it has not called skip() yet.
Skipping == {t \in Threads : pc[t] = "skip"}

\* How much of what the buffers hold has been sent already.
Unskipped == IF Skipping = {} THEN 0 ELSE flush[CHOOSE t \in Skipping : TRUE].num

\* What the client has been sent, and what it will be.
StreamOf(w, bs, n) == w \o SubSeq(Held(bs), n + 1, Len(Held(bs)))

Stream == StreamOf(wire, outbufs, Unskipped)

WireTyped == wire \in Seq(Token)

LEMMA SkippingOne ==
    ASSUME IInv, FInv
    PROVE  \A t \in Threads : pc[t] = "skip" => Skipping = {t} /\ Unskipped = flush[t].num
<1> TAKE t \in Threads
<1>1. HAVE pc[t] = "skip"
<1>2. \A u \in Threads : pc[u] = "skip" => u = t
  BY <1>1, OneUser DEF UsingOutbufs, Flushing
<1> QED
  BY <1>1, <1>2 DEF Skipping, Unskipped

\* The first of the buffers, which the flush works on, and the others.
LEMMA HeldFirst ==
    ASSUME NEW bs \in Seq(Buffer), NEW as \in Seq(Buffer), Len(as) = Len(bs), 1 \in 1 .. Len(bs),
           \A j \in 1 .. Len(bs) : j # 1 => as[j] = bs[j]
    PROVE  \E y \in Seq(Token) :
              /\ bs[1].data \in Seq(Token) /\ as[1].data \in Seq(Token)
              /\ Held(bs) = bs[1].data \o y /\ Held(as) = as[1].data \o y
<1>1. PICK x \in Seq(Token), y \in Seq(Token) :
          /\ Held(bs) = x \o (bs[1].data \o y) /\ Held(as) = x \o (as[1].data \o y)
          /\ bs[1].data \in Seq(Token) /\ as[1].data \in Seq(Token) /\ x = <<>>
  <2>1. PICK i \in 1 .. Len(bs) : i = 1
    OBVIOUS
  <2>2. i \in 1 .. Len(as) /\ \A j \in 1 .. Len(bs) : j # i => as[j] = bs[j]
    BY <2>1
  <2>3. \E x \in Seq(Token), y \in Seq(Token) :
              /\ Held(bs) = x \o (bs[i].data \o y) /\ Held(as) = x \o (as[i].data \o y)
              /\ bs[i].data \in Seq(Token) /\ as[i].data \in Seq(Token)
              /\ i = 1 => x = <<>>
              /\ i = Len(bs) => y = <<>>
    BY <2>2, HeldSame
  <2> QED
    BY <2>1, <2>3
<1>2. bs[1].data \o y \in Seq(Token) /\ as[1].data \o y \in Seq(Token)
  BY <1>1, ConcatProperties
<1> QED
  BY <1>1, <1>2, ConcatEmptySeq

LEMMA SendShows ==
    ASSUME Shapes, BuffersTyped, FlagsTyped, NEW t \in Threads, Working(t), send_some(t)
    PROVE  \E n \in 1 .. Len(outbufs[1].data) :
              /\ wire' = wire \o SubSeq(outbufs[1].data, 1, n)
              /\ flush'[t].num = n /\ pc'[t] = "skip" /\ UNCHANGED outbufs
<1>1. pc[t] = "send" /\ flush[t].ref = popped + 1 /\ popped \in Nat
      /\ pc' = [pc EXCEPT ![t] = "skip"] /\ outbufs' = outbufs
  BY DEF send_some, Working, BuffersTyped, buffers, Go
<1>2. flush[t].ref - popped = 1
  BY <1>1
<1>3. Current(t) = outbufs[1]
  BY <1>2 DEF Current
<1>4. outbufs[1] \in Buffer /\ Len(outbufs[1].data) \in Nat
  <2>1. outbufs \in Seq(Buffer) /\ 1 \in 1 .. Len(outbufs)
    BY BufferedTyped DEF BuffersTyped
  <2>2. outbufs[1] \in Buffer
    BY <2>1, ElementOfSeq
  <2> QED
    BY <2>2, LenProperties DEF Buffer
<1>5. PICK n \in 1 .. Min({room, Len(outbufs[1].data)}) :
          wire' = wire \o SubSeq(outbufs[1].data, 1, n) /\ flush' = [flush EXCEPT ![t].num = n]
  BY <1>3 DEF send_some
<1>6. flush'[t].num = n /\ pc'[t] = "skip"
  BY <1>1, <1>5 DEF Shapes, FlushFields
<1>7. n \in 1 .. Len(outbufs[1].data)
  <2> DEFINE l == Len(outbufs[1].data)
             m == Min({room, l})
  <2>1. room \in Int /\ l \in Nat
    BY <1>4, LimitsTyped DEF FlagsTyped
  <2> HIDE DEF l
  <2>2. m =< l /\ m \in {room, l}
    BY <2>1, MinOfTwo
  <2> HIDE DEF m
  <2>4. n \in 1 .. m
    BY <1>5 DEF m, l
  <2> QED
    BY <2>1, <2>2, <2>4 DEF l
<1> QED
  BY <1>1, <1>5, <1>6, <1>7

LEMMA StreamZero ==
    ASSUME NEW w \in Seq(Token), NEW bs \in Seq(Buffer)
    PROVE  StreamOf(w, bs, 0) = w \o Held(bs) /\ StreamOf(w, bs, 0) \in Seq(Token)
<1> DEFINE h == Held(bs)
<1>1. h \in Seq(Token)
  BY HeldTyped
<1> HIDE DEF h
<1>2. SubSeq(h, 1, Len(h)) = h
  BY <1>1, SubSeqFull
<1>3. SubSeq(h, 0 + 1, Len(h)) = h
  BY <1>2
<1>4. StreamOf(w, bs, 0) = w \o h
  BY <1>3 DEF StreamOf, h
<1> QED
  BY <1>1, <1>4, ConcatProperties DEF h

\* The first n tokens of d have been sent.
LEMMA SentPart ==
    ASSUME NEW w \in Seq(Token), NEW d \in Seq(Token), NEW y \in Seq(Token), NEW n \in 0 .. Len(d)
    PROVE  /\ (w \o SubSeq(d, 1, n)) \o SubSeq(d \o y, n + 1, Len(d \o y)) = w \o (d \o y)
           /\ SubSeq(d \o y, n + 1, Len(d \o y)) = SubSeq(d, n + 1, Len(d)) \o y
           /\ w \o SubSeq(d \o y, n + 1, Len(d \o y)) \in Seq(Token)
<1> DEFINE front == SubSeq(d, 1, n)
           back == SubSeq(d, n + 1, Len(d))
           rest == SubSeq(d \o y, n + 1, Len(d \o y))
<1>1. front \in Seq(Token) /\ back \in Seq(Token) /\ front \o back = d
  BY SplitAt
<1>2. rest = back \o y
  BY RestOfConcat
<1> HIDE DEF front, back, rest
<1>3. (w \o front) \o rest = w \o (d \o y)
  <2>1. back \o y \in Seq(Token)
    BY <1>1, ConcatProperties
  <2>2. front \in Seq(Token) /\ back \in Seq(Token) /\ rest \in Seq(Token)
    BY <1>1, <1>2, <2>1
  <2>3. Associate(w, front, rest) /\ Associate(front, back, y)
    BY <2>2, TokensAssociate
  <2> QED
    BY <1>1, <1>2, <2>3 DEF Associate
<1>4. back \o y \in Seq(Token)
  BY <1>1, ConcatProperties
<1>5. w \o rest \in Seq(Token)
  <2>1. rest \in Seq(Token)
    BY <1>2, <1>4
  <2> QED
    BY <2>1, ConcatProperties
<1> QED
  BY <1>1, <1>2, <1>3, <1>5 DEF front, back, rest

\* What has been sent of the first buffer, and not been skipped yet.
PartSent(w, bs, d, y, n) ==
    /\ StreamOf(w \o SubSeq(d, 1, n), bs, n) = w \o Held(bs)
    /\ StreamOf(w, bs, n) = w \o (SubSeq(d, n + 1, Len(d)) \o y)
    /\ StreamOf(w, bs, n) \in Seq(Token)

LEMMA StreamSent ==
    ASSUME NEW w \in Seq(Token), NEW bs, NEW d \in Seq(Token), NEW y \in Seq(Token),
           Held(bs) = d \o y, NEW n \in 0 .. Len(d)
    PROVE  PartSent(w, bs, d, y, n)
<1>1. /\ (w \o SubSeq(d, 1, n)) \o SubSeq(d \o y, n + 1, Len(d \o y)) = w \o (d \o y)
      /\ SubSeq(d \o y, n + 1, Len(d \o y)) = SubSeq(d, n + 1, Len(d)) \o y
      /\ w \o SubSeq(d \o y, n + 1, Len(d \o y)) \in Seq(Token)
  BY SentPart
<1> QED
  BY <1>1 DEF StreamOf, PartSent

LEMMA WhoSends ==
    ASSUME [Next]_vars
    PROVE  wire' = wire \/ \E t \in Threads : send_some(t)
<1>1. CASE UNCHANGED vars \/ ClientStep
  BY <1>1 DEF vars, ClientStep, client_sends, client_reads, client_leaves,
              time_passes, server
<1>2. ASSUME NEW t, flush_top(t) \/ send_nothing(t) \/ flush_skip(t) \/ flush_deduct(t)
                    \/ flush_return(t) \/ flush_raise(t) \/ send_continue(t) \/ handle_close(t) \/ dispatcher_close(t)
      PROVE  wire' = wire
  BY <1>2 DEF flush_top, send_nothing,
     flush_skip, flush_deduct, SentOn, flush_return, flush_raise,
     send_continue, handle_close, dispatcher_close
<1>3. CASE \/ server_readable \/ readable \/ writable \/ enter_select \/ select_returns
           \/ select_times_out \/ trigger_read \/ interrupt \/ handle_read
           \/ handle_write \/ after_flush \/ shutdown \/ received \/ parse \/ queue_request
  BY <1>3 DEF server_readable, readable, writable, enter_select, select_returns,
     select_times_out, trigger_read, interrupt, handle_read, handle_write,
     after_flush, shutdown, received, parse, queue_request
<1>4. ASSUME NEW w \in Workers,
             \/ take_task(w) \/ service_start(w) \/ app_writes(w) \/ app_raises(w)
             \/ write_soon(w) \/ put(w) \/ wait_returns(w) \/ finish(w)
             \/ flush_before_next(w) \/ close_soon(w) \/ drop_requests(w)
             \/ pop_request(w) \/ next_request(w) \/ service_ends(w)
      PROVE  wire' = wire
  BY <1>4 DEF take_task, service_start, app_writes, app_raises, write_soon, put,
     wait_returns, finish, flush_before_next, close_soon, drop_requests,
     pop_request, next_request, service_ends
<1> QED
  BY <1>1, <1>2, <1>3, <1>4, ThreadKinds DEF Next, MainStep, WorkerStep, flush_some

\* Without a closed socket, or on it, nothing is sent once `connected` is false.
LEMMA WireKept ==
    ASSUME IInv, FInv, SockFollows, FlushesConnected, [Next]_vars, ~connected
    PROVE  wire' = wire
<1>1. ASSUME NEW t \in Threads, send_some(t) PROVE FALSE
  <2>1. pc[t] = "send" /\ sock = "open"
    BY <1>1 DEF send_some
  <2>2. t = Main
    BY <2>1, ThreadKinds DEF FlushesConnected, InFlush
  <2> QED
    BY <2>1, <2>2 DEF SockFollows
<1> QED
  BY <1>1, WhoSends

\* A thread at "skip" is not moved by others.
LEMMA OnlySkips ==
    ASSUME IInv, FInv, Typed, [Next]_vars, NEW t \in Threads, pc[t] = "skip", ~flush_skip(t)
    PROVE  pc'[t] = "skip" /\ flush'[t] = flush[t]
<1>1. CASE t = Main
  <2>1. ~(\/ server_readable \/ readable \/ writable \/ enter_select \/ select_returns
          \/ select_times_out \/ trigger_read \/ interrupt \/ handle_read \/ handle_write
          \/ after_flush \/ shutdown \/ received \/ parse \/ queue_request)
    BY <1>1 DEF server_readable, readable, writable, enter_select, select_returns,
       select_times_out, trigger_read, interrupt, handle_read, handle_write, after_flush,
       shutdown, received, parse, queue_request
  <2>2. ~(send_continue(Main) \/ flush_some(Main) \/ handle_close(Main) \/ dispatcher_close(Main))
    BY <1>1 DEF send_continue, flush_some, flush_top, send_some, send_nothing, flush_deduct,
       flush_return, flush_raise, handle_close, dispatcher_close
  <2> QED
    BY <1>1, <2>1, <2>2, MainStaysOr DEF MainStep
<1>2. CASE t \in Workers
  <2>1. ~WorkerStep(t)
    <3>1. ~(\/ take_task(t) \/ service_start(t) \/ app_writes(t) \/ app_raises(t)
            \/ write_soon(t) \/ put(t) \/ wait_returns(t) \/ finish(t)
            \/ flush_before_next(t) \/ close_soon(t) \/ drop_requests(t)
            \/ pop_request(t) \/ next_request(t) \/ service_ends(t))
      BY DEF take_task, service_start, app_writes, app_raises, write_soon, put, wait_returns,
         finish, flush_before_next, close_soon, drop_requests, pop_request, next_request,
         service_ends
    <3>2. ~(send_continue(t) \/ flush_some(t) \/ handle_close(t) \/ dispatcher_close(t))
      BY DEF send_continue, flush_some, flush_top, send_some, send_nothing, flush_deduct,
         flush_return, flush_raise, handle_close, dispatcher_close
    <3> QED
      BY <3>1, <3>2 DEF WorkerStep
  <2> QED
    BY <1>2, <2>1, OwnJob
<1> QED
  BY <1>1, <1>2, ThreadKinds

\* Nobody appends to the buffers while a thread sends from them.
LEMMA SendersAlone ==
    ASSUME IInv, FInv, NEW t \in Threads, pc[t] \in {"send", "skip"}
    PROVE  (\A w \in Workers : ~put(w)) /\ ~send_continue(Main)
<1>1. UsingOutbufs(t)
  BY DEF UsingOutbufs, Flushing
<1>2. \A w \in Workers : ~put(w)
  <2> SUFFICES ASSUME NEW w \in Workers, put(w) PROVE FALSE
    OBVIOUS
  <2>1. pc[w] = "put" /\ UsingOutbufs(w)
    BY DEF put, UsingOutbufs
  <2> QED
    BY <1>1, <2>1, OneUser, ThreadKinds
<1>3. ~send_continue(Main)
  <2> SUFFICES ASSUME send_continue(Main) PROVE FALSE
    OBVIOUS
  <2>1. pc[Main] = "continue" /\ outbuf_lock = None
    BY DEF send_continue
  <2>2. t # Main /\ pc[t] \in InFlush
    BY <2>1 DEF InFlush
  <2>3. HoldsOutbufs(t)
    BY <2>2 DEF FInv, InPlace, HoldsOutbufs
  <2> QED
    BY <2>1, <2>3, ThreadKinds DEF FInv, OutLockIsHeld
<1> QED
  BY <1>2, <1>3

LEMMA Streams ==
    ASSUME IInv, FInv, Typed, ContinuesInTime, WorkingAll, BuffersOpen, WireTyped,
           connected, connected', [Next]_vars
    PROVE  /\ Stream \in Seq(Token) /\ Stream' \in Seq(Token) /\ WireTyped'
           /\ \/ Stream' = Stream
              \/ \E w \in Workers :
                    put(w) /\ Stream' = Stream \o Tokens(job[w].id, job[w].k, Head(job[w].todo).size)
              \/ send_continue(Main) /\ Stream' = Stream \o << <<request.id, 0>> >>
           /\ \A w \in Workers : put(w) =>
                  Stream' = Stream \o Tokens(job[w].id, job[w].k, Head(job[w].todo).size)
           /\ send_continue(Main) => Stream' = Stream \o << <<request.id, 0>> >>
<1>1. Shapes /\ BuffersTyped /\ FlagsTyped /\ outbufs \in Seq(Buffer) /\ Typed'
  BY TypedNext DEF IInv, Typed, BuffersTyped
<1>2. outbufs' \in Seq(Buffer) /\ 1 \in 1 .. Len(outbufs)
  BY <1>1, BufferedTyped DEF Typed, BuffersTyped
<1>3. CASE \E t \in Threads : pc[t] = "skip"
  <2>1. PICK t \in Threads : pc[t] = "skip"
    BY <1>3
  <2> DEFINE n == flush[t].num
             d == outbufs[1].data
  <2>2. Unskipped = n /\ n \in 0 .. Len(d) /\ UsingOutbufs(t)
    <3>1. n \in 1 .. flush[t].len /\ flush[t].len = Len(d)
      BY <2>1 DEF WorkingAll, Working
    <3> QED
      BY <2>1, <3>1, SkippingOne DEF UsingOutbufs, Flushing
  <2>3. wire' = wire
    <3>1. ASSUME NEW u \in Threads, send_some(u) PROVE FALSE
      <4>1. pc[u] = "send"
        BY <3>1 DEF send_some
      <4>2. UsingOutbufs(u)
        BY <4>1 DEF UsingOutbufs, Flushing
      <4> QED
        BY <2>1, <2>2, <4>1, <4>2, OneUser
    <3> QED
      BY <3>1, WhoSends
  <2>4. \A u \in Threads : pc'[u] = "skip" => u = t
    <3> SUFFICES ASSUME NEW u \in Threads, pc'[u] = "skip" PROVE u = t
      OBVIOUS
    <3>1. pc[u] = "skip" \/ pc[u] = "send" \/ pc[u] = "top"
      BY OnlyFlushSends, ZenonT(40) DEF flush_top, send_some, flush_skip
    <3>2. UsingOutbufs(u)
      BY <3>1 DEF UsingOutbufs, Flushing
    <3> QED
      BY <2>2, <3>2, OneUser
  <2>5. ASSUME flush_skip(t)
        PROVE  Stream' = Stream /\ Stream \in Seq(Token) /\ WireTyped'
    <3>1. PICK b \in Buffer :
              /\ outbufs' = With(outbufs, 1, b) /\ popped' = popped
              /\ outbufs' \in Seq(Buffer) /\ Len(outbufs') = Len(outbufs)
              /\ outbufs'[1] = b
              /\ \A i \in 1 .. Len(outbufs) : i # 1 => outbufs'[i] = outbufs[i]
              /\ b.data = SubSeq(d, n + 1, Len(d))
              /\ pc'[t] \in {"send", "top"}
      <4>1. outbufs[1].stage # "shut"
        BY <1>2 DEF BuffersOpen, Open
      <4>2. ~Racing(t)
        BY <2>1, NobodyRaces DEF Unraced
      <4> QED
        BY <1>1, <2>5, <4>1, <4>2, SkipShows DEF WorkingAll
    <3>2. Unskipped' = 0
      BY <2>4, <3>1 DEF Unskipped, Skipping
    <3>3. PICK y \in Seq(Token) :
              d \in Seq(Token) /\ Held(outbufs) = d \o y /\ Held(outbufs') = b.data \o y
      <4> DEFINE as == outbufs'
      <4>1. as \in Seq(Buffer) /\ Len(as) = Len(outbufs) /\ as[1] = b
            /\ \A i \in 1 .. Len(outbufs) : i # 1 => as[i] = outbufs[i]
        BY <3>1
      <4> HIDE DEF as
      <4>2. \E y \in Seq(Token) :
              /\ outbufs[1].data \in Seq(Token) /\ as[1].data \in Seq(Token)
              /\ Held(outbufs) = outbufs[1].data \o y /\ Held(as) = as[1].data \o y
        BY <1>1, <1>2, <4>1, HeldFirst
      <4> QED
        BY <4>1, <4>2 DEF as
    <3>4. StreamOf(wire, outbufs, n) = wire \o (SubSeq(d, n + 1, Len(d)) \o y)
          /\ StreamOf(wire, outbufs, n) \in Seq(Token)
      <4>1. d \in Seq(Token) /\ Held(outbufs) = d \o y /\ n \in 0 .. Len(d)
            /\ wire \in Seq(Token)
        BY <2>2, <3>3 DEF WireTyped
      <4> HIDE DEF n, d
      <4>2. PartSent(wire, outbufs, d, y, n)
        BY <4>1, StreamSent
      <4> QED
        BY <4>2 DEF PartSent
    <3>5. StreamOf(wire, outbufs', 0) = wire \o Held(outbufs')
      BY <1>2, StreamZero DEF WireTyped
    <3>6. StreamOf(wire, outbufs', 0) = StreamOf(wire, outbufs, n)
      BY <3>1, <3>3, <3>4, <3>5
    <3>7. Stream = StreamOf(wire, outbufs, n)
      BY <2>2 DEF Stream
    <3>8. Stream' = StreamOf(wire, outbufs', 0)
      BY <2>3, <3>2 DEF Stream
    <3>9. WireTyped'
      BY <2>3 DEF WireTyped
    <3> HIDE DEF n
    <3> QED
      BY <3>4, <3>6, <3>7, <3>8, <3>9
  <2>6. ASSUME ~flush_skip(t)
        PROVE  Stream' = Stream /\ Stream \in Seq(Token) /\ WireTyped'
    <3>1. pc'[t] = "skip" /\ flush'[t] = flush[t] /\ outbufs' = outbufs
      BY <2>1, <2>6, OnlySkips, OthersKeepBuffers
    <3>2. Skipping' = {t}
      BY <2>4, <3>1 DEF Skipping
    <3>3. Unskipped' = n
      BY <3>1, <3>2 DEF Unskipped
    <3>4. Stream' = Stream
      BY <2>2, <2>3, <3>1, <3>3 DEF Stream
    <3>5. Stream \in Seq(Token)
      <4>1. PICK y \in Seq(Token) : d \in Seq(Token) /\ Held(outbufs) = d \o y
        BY <1>1, <1>2, HeldFirst
      <4>2. PartSent(wire, outbufs, d, y, n)
        <5>1. d \in Seq(Token) /\ Held(outbufs) = d \o y /\ n \in 0 .. Len(d)
              /\ wire \in Seq(Token)
          BY <2>2, <4>1 DEF WireTyped
        <5> HIDE DEF n, d
        <5> QED
          BY <5>1, StreamSent
      <4> QED
        BY <2>2, <4>2 DEF Stream, PartSent
    <3>6. WireTyped'
      BY <2>3 DEF WireTyped
    <3> QED
      BY <3>4, <3>5, <3>6
  <2>7. (\A w \in Workers : ~put(w)) /\ ~send_continue(Main)
    BY <2>1, SendersAlone
  <2> QED
    BY <2>5, <2>6, <2>7
<1>4. CASE ~\E t \in Threads : pc[t] = "skip"
  <2> DEFINE h == Held(outbufs)
  <2>1. Stream = wire \o h /\ Stream \in Seq(Token) /\ h \in Seq(Token)
    <3>1. Unskipped = 0
      BY <1>4 DEF Unskipped, Skipping
    <3> QED
      BY <1>1, <3>1, StreamZero, HeldTyped DEF Stream, WireTyped
  <2>2. ASSUME NEW t \in Threads, send_some(t)
        PROVE  Stream' = Stream /\ WireTyped'
    <3>1. PICK n \in 1 .. Len(outbufs[1].data) :
              /\ wire' = wire \o SubSeq(outbufs[1].data, 1, n)
              /\ flush'[t].num = n /\ pc'[t] = "skip" /\ outbufs' = outbufs
      BY <1>1, <2>2, SendShows DEF WorkingAll
    <3>2. \A u \in Threads : pc'[u] = "skip" => u = t
      <4> SUFFICES ASSUME NEW u \in Threads, pc'[u] = "skip" PROVE u = t
        OBVIOUS
      <4>1. pc[u] = "send" \/ pc[u] = "top"
        BY <1>4, OnlyFlushSends, ZenonT(40) DEF flush_top, send_some, flush_skip
      <4>2. UsingOutbufs(u) /\ UsingOutbufs(t)
        BY <2>2, <4>1 DEF UsingOutbufs, Flushing, send_some
      <4> QED
        BY <4>2, OneUser
    <3>3. Unskipped' = n
      <4>1. Skipping' = {t}
        BY <3>1, <3>2 DEF Skipping
      <4> QED
        BY <3>1, <4>1 DEF Unskipped
    <3> DEFINE d == outbufs[1].data
    <3>4. PICK y \in Seq(Token) : d \in Seq(Token) /\ Held(outbufs) = d \o y
      BY <1>1, <1>2, HeldFirst
    <3>5. n \in 0 .. Len(d)
      BY <3>1
    <3> HIDE DEF d
    <3>6. PartSent(wire, outbufs, d, y, n)
      BY <3>4, <3>5, StreamSent DEF WireTyped
    <3>7. Stream' = Stream
      BY <2>1, <3>1, <3>3, <3>6 DEF Stream, PartSent, d
    <3>8. SubSeq(d, 1, n) \in Seq(Token)
      BY <3>4, <3>5, SplitAt
    <3>9. wire' \in Seq(Token)
      BY <3>1, <3>8, ConcatProperties DEF WireTyped, d
    <3> QED
      BY <3>7, <3>9 DEF WireTyped
  <2>3. CASE \A t \in Threads : ~send_some(t)
    <3>1. wire' = wire
      BY <2>3, WhoSends
    <3>2. Unskipped' = 0
      <4>1. ASSUME NEW u \in Threads, pc'[u] = "skip" PROVE FALSE
        <5>1. flush_top(u)
          BY <1>4, <2>3, <4>1, OnlyFlushSends, ZenonT(40) DEF flush_skip
        <5> QED
          BY <1>1, <4>1, <5>1, TopMoves, SMTT(30) DEF Within
      <4> QED
        BY <4>1 DEF Unskipped, Skipping
    <3>3. Stream' = wire \o Held(outbufs') /\ Stream' \in Seq(Token)
      <4>1. StreamOf(wire, outbufs', 0) = wire \o Held(outbufs')
            /\ StreamOf(wire, outbufs', 0) \in Seq(Token)
        BY <1>2, StreamZero DEF WireTyped
      <4> QED
        BY <3>1, <3>2, <4>1 DEF Stream
    <3>4. ASSUME NEW x \in Seq(Token), Held(outbufs') = h \o x
          PROVE  Stream' = Stream \o x
      <4> HIDE DEF h
      <4>1. Associate(wire, h, x)
        BY <2>1, TokensAssociate DEF WireTyped
      <4> QED
        BY <2>1, <3>3, <3>4, <4>1 DEF Associate
    <3>5. ASSUME outbufs' = outbufs \/ \E t \in Threads : flush_top(t)
          PROVE  Stream' = Stream
      <4>1. Held(outbufs') = h
        BY <1>1, <3>5, TopBuffers
      <4> HIDE DEF h
      <4> QED
        BY <2>1, <3>3, <4>1
    <3>6. ASSUME NEW t \in Threads, send_continue(t)
          PROVE  t = Main /\ Stream' = Stream \o << <<request.id, 0>> >>
      <4>1. t = Main
        BY <3>6 DEF ContinuesInTime, send_continue
      <4>2. request.id \in Nat /\ <<request.id, 0>> \in Token
        BY DEF Typed, RequestsTyped, Token
      <4>3. Last1(outbufs).stage # "shut"
        <5>1. Len(outbufs) \in Nat \ {0} /\ Last1(outbufs) = outbufs[Len(outbufs)]
          BY <1>1, BufferedTyped
        <5>2. Len(outbufs) \in 1 .. Len(outbufs)
          BY <5>1
        <5> QED
          BY <5>1, <5>2 DEF BuffersOpen, Open
      <4> DEFINE x == << <<request.id, 0>> >>
      <4>4. Held(outbufs') = h \o x
        BY <1>1, <3>6, <4>2, <4>3, ContinueBuffers
      <4>5. x \in Seq(Token)
        BY <4>2
      <4> HIDE DEF x, h
      <4>6. Stream' = Stream \o x
        BY <3>4, <4>4, <4>5
      <4> QED
        BY <4>1, <4>6 DEF x
    <3>7. ASSUME NEW w \in Workers, put(w)
          PROVE  Stream' = Stream \o Tokens(job[w].id, job[w].k, Head(job[w].todo).size)
      <4> DEFINE c == Head(job[w].todo)
                 x == Tokens(job[w].id, job[w].k, c.size)
      <4>1. c \in Writes /\ job[w].id \in Nat /\ job[w].k \in Nat
        <5>1. /\ job[w].todo \in Seq(Writes) /\ job[w].todo # <<>>
              /\ job[w].id \in Nat /\ job[w].k \in Nat
          BY <3>7 DEF Typed, JobsTyped, Jobs, Chunked, put
        <5> QED
          BY <5>1, HeadTailProperties
      <4>2. c.size \in Nat /\ c.file \in BOOLEAN
        BY <4>1 DEF Writes
      <4>3. AppendChunk(x, c.size, c.file)
        BY <3>7 DEF put, LeftMeanwhile
      <4> HIDE DEF c
      <4>4. x \in Seq(Token) /\ Len(x) = c.size
        BY <4>1, <4>2, TokensTyped, ZenonT(40)
      <4> HIDE DEF x, h
      <4>5. Held(outbufs') = h \o x
        BY <1>1, <4>2, <4>3, <4>4, ChunkGrows DEF h
      <4>6. Stream' = Stream \o x
        BY <3>4, <4>4, <4>5
      <4> QED
        BY <4>6 DEF x, c
    <3>8. ASSUME NEW t \in Threads, flush_skip(t) \/ handle_close(t) PROVE FALSE
      BY <1>4, <3>8 DEF flush_skip, handle_close
    <3>9. WireTyped'
      BY <3>1 DEF WireTyped
    <3> QED
      BY <2>1, <3>3, <3>5, <3>6, <3>7, <3>8, <3>9, ThreadKinds, WhoChangesBuffers
  <2>4. ASSUME NEW t \in Threads, send_some(t)
        PROVE  /\ Stream' \in Seq(Token)
               /\ (\A w \in Workers : ~put(w)) /\ ~send_continue(Main)
    <3>1. pc[t] = "send"
      BY <2>4 DEF send_some
    <3> QED
      BY <2>1, <2>2, <2>4, <3>1, SendersAlone
  <2> QED
    BY <2>1, <2>2, <2>3, <2>4
<1> QED
  BY <1>3, <1>4

----------------------------------------------------------------------------
(* ResponsesInOrder.  What is to come next is known at every point: by the  *)
(* worker in service, by the queue when it waits for a worker, and by the   *)
(* parser when there is no queue.                                           *)

\* The queued requests are those that get a response, in their order.
InLine(q) ==
    /\ \A i \in 1 .. Len(q) : Responds(q[i])
    /\ \A i \in 1 .. Len(q) - 1 : After(q[i], q[i + 1])

Line == InLine(requests)

\* A worker between service_start and the end of its request.
Serving(w) == pc[w] \notin {"idle", "service", "next", "last", "continue"}

\* The queue waits for a worker to take up its head.
Waiting ==
    requests # <<>> /\ (\A w \in Workers : ~Serving(w)) => Ready(Stream, <<Head(requests), 1>>)

\* What a task has still to write is a rest of what its script says, after an
\* error at most the one chunk of an ErrorTask.
Scripted(j) ==
    LET ws == script[j.id].writes IN
    \/ \E n \in 0 .. Len(ws) : j.todo = SubSeq(ws, n + 1, Len(ws)) /\ j.k = Written(ws)[n] + 1
    \/ /\ j.close
       /\ j.todo = <<>> \/ (j.k = 1 /\ j.todo = << [size |-> 1, file |-> FALSE] >>)

\* The task j is where the stream s is.
Due(j, s) ==
    /\ Scripted(j)
    /\ j.todo # <<>> => Ready(s, <<j.id, j.k>>)
    /\ j.todo = <<>> /\ ~j.close => s # <<>> /\ s[Len(s)] = <<j.id, ResponseLen(j.id)>>

\* A worker in service answers the head of the queue.
Answers(w) ==
    /\ requests # <<>> /\ job[w].id = Head(requests)
    /\ Due(job[w], Stream)
    /\ pc[w] \in {"flush_fin", "pop"} \/ flush[w].ctx = "hwm_fin" => ~job[w].close

AnswersAll == \A w \in Workers : Serving(w) => Answers(w)

\* The request p may come next, behind the queue.
Known(p) ==
    IF requests = <<>> THEN Ready(Stream, <<p, 1>>) ELSE After(requests[Len(requests)], p)

\* The request that the last unit read belongs to.
Parsed == IF parsed = 0 THEN 0 ELSE Units[parsed][1]

\* The parser is in its input where the stream and the queue are.
ParserAt ==
    ParserLive =>
        IF request.id = 0
        THEN Known(Parsed + 1)
        ELSE /\ Known(request.id) /\ Parsed = request.id /\ parsed # 0
             /\ ~request.completed => Units[parsed][2] = "head" /\ script[request.id].body

\* A continue is the last token only until its request is queued.
Latch ==
    /\ pc[Main] = "continue" => ~sent_continue
    /\ ParserLive /\ requests = <<>> /\ Stream # <<>> /\ Stream[Len(Stream)][2] = 0
           => sent_continue

Placed == Line /\ Waiting /\ AnswersAll /\ ParserAt /\ Latch

\* What the proof rests on.
Grounds ==
    /\ IInv /\ FInv /\ Typed /\ ContinuesInTime /\ ContinuesInTime' /\ [Next]_vars
    /\ WorkingAll /\ BuffersOpen /\ WireTyped /\ ToWrite /\ ContinueAlone /\ Dropping
    /\ Answering /\ connected /\ connected'

LEMMA SameScript ==
    ASSUME script' = script
    PROVE  /\ \A s, b : Ready(s, b)' <=> Ready(s, b)
           /\ \A s : InOrder(s)' <=> InOrder(s)
           /\ \A a, b : After(a, b)' <=> After(a, b)
           /\ \A id : Responds(id)' <=> Responds(id)
           /\ \A id : ResponseLen(id)' = ResponseLen(id)
<1>1. \A id : ResponseLen(id)' = ResponseLen(id)
  BY DEF ResponseLen
<1>2. \A id : Responds(id)' <=> Responds(id)
  BY DEF Responds
<1>3. \A a, b : FollowsOnWire(a, b)' <=> FollowsOnWire(a, b)
  BY <1>1, <1>2 DEF FollowsOnWire
<1>4. \A s, b : Ready(s, b)' <=> Ready(s, b)
  BY <1>2, <1>3 DEF Ready
<1>5. \A s : Chained(s)' <=> Chained(s)
  BY <1>3 DEF Chained
<1>6. \A s : InOrder(s)' <=> InOrder(s)
  BY <1>4, <1>5 DEF InOrder
<1> QED
  BY <1>1, <1>2, <1>4, <1>6 DEF After

\* After a whole response the one to the next request may start.
LEMMA ReadyNext ==
    ASSUME NEW s \in Seq(Token), s # <<>>, NEW id, ResponseLen(id) \in Nat,
           s[Len(s)] = <<id, ResponseLen(id)>>, NEW p, After(id, p)
    PROVE  Ready(s, <<p, 1>>)
BY DEF Ready, FollowsOnWire, After

LEMMA LastTyped ==
    ASSUME NEW s \in Seq(Token), s # <<>>
    PROVE  /\ Len(s) \in 1 .. Len(s) /\ s[Len(s)] \in Token
           /\ s[Len(s)] = <<s[Len(s)][1], s[Len(s)][2]>>
           /\ s[Len(s)][1] \in Nat /\ s[Len(s)][2] \in Nat
<1>1. Len(s) \in Nat /\ Len(s) # 0
  BY EmptySeq, LenProperties
<1>2. Len(s) \in 1 .. Len(s)
  BY <1>1
<1>3. s[Len(s)] \in Token
  BY <1>2, ElementOfSeq
<1> QED
  BY <1>2, <1>3 DEF Token

\* A blank request is passed over.
LEMMA ReadyPast ==
    ASSUME script \in Scripts, NEW p \in 1 .. Len(script), ~Responds(p),
           NEW s \in Seq(Token), InOrder(s), Ready(s, <<p, 1>>)
    PROVE  Ready(s, <<p + 1, 1>>)
<1>1. CASE s = <<>>
  <2>1. \A id \in 1 .. p - 1 : ~Responds(id)
    BY <1>1 DEF Ready
  <2>2. \A id \in 1 .. (p + 1) - 1 : id \in 1 .. p - 1 \/ id = p
    OBVIOUS
  <2>3. \A id \in 1 .. (p + 1) - 1 : ~Responds(id)
    BY <2>1, <2>2
  <2> QED
    BY <1>1, <2>3 DEF Ready
<1>2. CASE s # <<>>
  <2> DEFINE a == s[Len(s)]
  <2>1. FollowsOnWire(a, <<p, 1>>)
    BY <1>2 DEF Ready
  <2>2. a \in Token /\ a = <<a[1], a[2]>> /\ a[1] \in Nat /\ a[2] \in Nat
        /\ Len(s) \in 1 .. Len(s)
    BY <1>2, LastTyped
  <2>3. a[2] = 0 => script[a[1]].expect
    BY <2>2 DEF InOrder, Chained
  <2> HIDE DEF a
  <2>4. ~(a[2] < ResponseLen(a[1]))
    <3> SUFFICES ASSUME a[2] < ResponseLen(a[1]) PROVE FALSE
      OBVIOUS
    <3>1. <<p, 1>> = <<a[1], a[2] + 1>>
      BY <2>1 DEF FollowsOnWire
    <3>2. a[1] = p /\ a[2] + 1 = 1
      BY <3>1
    <3>3. a[2] = 0
      BY <2>2, <3>2
    <3> QED
      BY <2>3, <3>2, <3>3, ResponsePositive
  <2>5. a[1] < p /\ \A id \in a[1] + 1 .. p - 1 : ~Responds(id)
    BY <2>1, <2>4 DEF FollowsOnWire
  <2>6. \A id \in a[1] + 1 .. (p + 1) - 1 : id \in a[1] + 1 .. p - 1 \/ id = p
    BY <2>2
  <2>7. a[1] < p + 1
    BY <2>2, <2>5
  <2>8. \A id \in a[1] + 1 .. (p + 1) - 1 : ~Responds(id)
    BY <2>5, <2>6
  <2>9. FollowsOnWire(a, <<p + 1, 1>>)
    BY <2>4, <2>7, <2>8 DEF FollowsOnWire
  <2> QED
    BY <1>2, <2>9 DEF Ready, a
<1> QED
  BY <1>1, <1>2

LEMMA AfterPast ==
    ASSUME NEW a \in Nat, NEW p \in Nat, ~Responds(p), After(a, p)
    PROVE  After(a, p + 1)
<1>1. \A id \in a + 1 .. (p + 1) - 1 : id \in a + 1 .. p - 1 \/ id = p
  OBVIOUS
<1>2. a < p + 1
  BY DEF After
<1>3. \A id \in a + 1 .. (p + 1) - 1 : ~Responds(id)
  BY <1>1 DEF After
<1> QED
  BY <1>2, <1>3 DEF After

LEMMA AfterOne ==
    ASSUME NEW a \in Nat
    PROVE  After(a, a + 1)
BY DEF After

\* Before a response, or between its continue and its head.
LEMMA ReadyFirst ==
    ASSUME NEW p \in Nat, NEW s \in Seq(Token), Ready(s, <<p, 1>>),
           s # <<>> => s[Len(s)][2] # 0
    PROVE  Ready(s, <<p, 0>>)
<1>1. CASE s = <<>>
  BY <1>1 DEF Ready
<1>2. CASE s # <<>>
  <2> DEFINE a == s[Len(s)]
  <2>1. FollowsOnWire(a, <<p, 1>>)
    BY <1>2 DEF Ready
  <2>2. a = <<a[1], a[2]>> /\ a[1] \in Nat /\ a[2] \in Nat
    BY <1>2, LastTyped
  <2> HIDE DEF a
  <2>3. ~(a[2] < ResponseLen(a[1]))
    <3> SUFFICES ASSUME a[2] < ResponseLen(a[1]) PROVE FALSE
      OBVIOUS
    <3>1. <<p, 1>> = <<a[1], a[2] + 1>>
      BY <2>1 DEF FollowsOnWire
    <3>2. a[2] + 1 = 1
      BY <3>1
    <3>3. a[2] = 0
      BY <2>2, <3>2
    <3> QED
      BY <1>2, <3>3 DEF a
  <2>4. FollowsOnWire(a, <<p, 0>>)
    BY <2>1, <2>3 DEF FollowsOnWire
  <2> QED
    BY <1>2, <2>4 DEF Ready, a
<1> QED
  BY <1>1, <1>2

LEMMA LastOfConcat ==
    ASSUME NEW s \in Seq(Token), NEW x \in Seq(Token), x # <<>>
    PROVE  s \o x # <<>> /\ (s \o x)[Len(s \o x)] = x[Len(x)]
<1>1. Len(s) \in Nat /\ Len(x) \in Nat /\ Len(x) # 0
  BY EmptySeq, LenProperties
<1>2. s \o x \in Seq(Token) /\ Len(s \o x) = Len(s) + Len(x)
  BY ConcatProperties
<1>3. Len(s \o x) # 0
  BY <1>1, <1>2
<1>4. Len(s) + Len(x) \in Len(s) + 1 .. Len(s) + Len(x) /\ Len(s) + Len(x) - Len(s) = Len(x)
  BY <1>1
<1>5. (s \o x)[Len(s) + Len(x)] = x[Len(s) + Len(x) - Len(s)]
  BY <1>1, <1>4, ConcatProperties
<1> QED
  BY <1>2, <1>3, <1>4, <1>5, EmptySeq

LEMMA Grounded ==
    ASSUME Grounds
    PROVE  /\ script \in Scripts /\ script' = script /\ requests \in Seq(1 .. Len(script))
           /\ requests' \in Seq(1 .. Len(script)) /\ Len(script) \in Nat
           /\ Stream \in Seq(Token) /\ Stream' \in Seq(Token) /\ Units' = Units
           /\ \A w \in Workers : w \in Threads /\ w # Main
           /\ parsed \in Nat /\ request.id \in 0 .. Len(script) /\ request.completed \in BOOLEAN
<1>1. Typed' /\ script' = script
  BY TypedNext, ScriptStays DEF Grounds
<1>2. requests' \in Seq(1 .. Len(script')) /\ requests \in Seq(1 .. Len(script)) /\ script \in Scripts
  BY <1>1 DEF Typed, RequestsTyped, InputTyped, Grounds
<1>3. script \in Seq(Requests)
  BY <1>2, ScriptsShape
<1>4. Stream \in Seq(Token) /\ Stream' \in Seq(Token)
  BY Streams DEF Grounds
<1>5. Units' = Units
  BY <1>1 DEF Units
<1>6. parsed \in Nat /\ request.id \in 0 .. Len(script) /\ request.completed \in BOOLEAN
  BY DEF Grounds, Typed, InputTyped, RequestsTyped
<1> QED
  BY <1>1, <1>2, <1>3, <1>4, <1>5, <1>6, LenProperties, ThreadKinds

LEMMA WhoChangesQueue ==
    ASSUME Grounds
    PROVE  \/ requests' = requests
           \/ queue_request
           \/ \E w \in Workers : pop_request(w) \/ drop_requests(w)
<1>1. CASE UNCHANGED vars \/ ClientStep
  BY <1>1 DEF vars, shared, ClientStep, client_sends, client_reads, client_leaves,
              time_passes, server
<1>2. ASSUME NEW t, flush_some(t) \/ send_continue(t) \/ handle_close(t) \/ dispatcher_close(t)
      PROVE  requests' = requests
  BY <1>2, FlushLeavesAlone
<1>3. CASE \/ server_readable \/ readable \/ writable \/ enter_select \/ select_returns
           \/ select_times_out \/ trigger_read \/ interrupt \/ handle_read
           \/ handle_write \/ after_flush \/ received \/ parse
  BY <1>3 DEF shared, server_readable, readable, writable, enter_select, select_returns,
     select_times_out, trigger_read, interrupt, handle_read, handle_write,
     after_flush, received, parse
<1>4. CASE shutdown
  BY <1>4 DEF shutdown, Grounds
<1>5. ASSUME NEW w \in Workers,
             \/ take_task(w) \/ service_start(w) \/ app_writes(w) \/ app_raises(w)
             \/ write_soon(w) \/ put(w) \/ wait_returns(w) \/ finish(w)
             \/ flush_before_next(w) \/ close_soon(w) \/ next_request(w) \/ service_ends(w)
      PROVE  requests' = requests
  BY <1>5 DEF shared, take_task, service_start, app_writes, app_raises, write_soon, put,
     wait_returns, finish, flush_before_next, close_soon, next_request, service_ends
<1> QED
  BY <1>1, <1>2, <1>3, <1>4, <1>5 DEF Grounds, Next, MainStep, WorkerStep

\* Who is in service is alone in it.
LEMMA ServesAlone ==
    ASSUME Grounds, NEW w \in Workers, Serving(w)
    PROVE  /\ InService(w) /\ requests # <<>>
           /\ \A v \in Workers : InService(v) => v = w
           /\ \A t \in Threads : ~send_continue(t)
<1>1. flush[w].ctx # "continue"
  BY ThreadKinds DEF Grounds, IInv, Shapes, FInv, InPlace
<1>2. InService(w)
  BY <1>1 DEF Serving, InService
<1> QED
  BY <1>2, ServiceAlone DEF Grounds, IInv, Service, Servant, NoServant

LEMMA HeadOfAppend ==
    ASSUME NEW S, NEW q \in Seq(S), q # <<>>, NEW x \in S
    PROVE  Append(q, x) # <<>> /\ Head(Append(q, x)) = Head(q)
BY AppendProperties, EmptySeq, LenProperties, HeadTailProperties

LEMMA WhoServes ==
    ASSUME Grounds, NEW w \in Workers
    PROVE  /\ Serving(w) /\ ~Serving(w)' => pop_request(w) \/ drop_requests(w)
           /\ ~Serving(w) /\ Serving(w)' => service_start(w)
<1>1. CASE ~WorkerStep(w)
  BY <1>1, OwnJob DEF Grounds, Serving
<1>2. CASE send_continue(w) \/ handle_close(w) \/ dispatcher_close(w)
  <2>1. w \in Threads /\ w # Main
    BY Grounded
  <2>2. ~send_continue(w)
    BY <2>1 DEF Grounds, ContinuesInTime, send_continue
  <2>3. ~(handle_close(w) \/ dispatcher_close(w))
    BY <2>1, OnlyMainCloses DEF Grounds
  <2> QED
    BY <1>2, <2>2, <2>3
<1>3. CASE flush_some(w)
  <2>1. w \in Threads /\ w # Main /\ Shapes
    BY Grounded DEF Grounds, IInv
  <2>2. flush[w].ctx # "continue"
    BY <2>1 DEF Grounds, IInv, Shapes, FInv, InPlace
  <2>3. CASE \/ flush_top(w) \/ send_some(w) \/ send_nothing(w)
             \/ flush_skip(w) \/ flush_deduct(w)
    BY <2>1, <2>3, TopMoves, SendMoves, SkipMoves DEF Serving, Within
  <2>4. CASE flush_return(w) \/ flush_raise(w)
    BY <2>1, <2>2, <2>4, ReturnMoves, RaiseMoves DEF Serving, Within, Leaves
  <2> QED
    BY <1>3, <2>3, <2>4 DEF flush_some
<1>4. CASE \/ take_task(w) \/ app_writes(w) \/ app_raises(w)
           \/ write_soon(w) \/ put(w) \/ finish(w)
           \/ flush_before_next(w) \/ close_soon(w)
           \/ next_request(w) \/ service_ends(w)
  <2>1. DOMAIN pc = Threads /\ w \in Threads /\ pc'[w] # "continue"
    BY Grounded DEF Grounds, IInv, Shapes, ContinuesInTime
  <2> QED
    BY <1>4, <2>1 DEF Serving, take_task, app_writes, app_raises,
     write_soon, put, finish, flush_before_next, close_soon, next_request, service_ends, Go
<1>5. CASE service_start(w) \/ pop_request(w) \/ drop_requests(w)
  BY <1>5 DEF service_start, pop_request, drop_requests, Serving
<1>6. CASE wait_returns(w)
  <2>1. DOMAIN pc = Threads /\ w \in Threads
    BY Grounded DEF Grounds, IInv, Shapes
  <2> QED
    BY <1>6, <2>1 DEF wait_returns, BelowHwm, TestHwm, PauseAtHwm, Go, Serving
<1> QED
  BY <1>1, <1>2, <1>3, <1>4, <1>5, <1>6 DEF WorkerStep

LEMMA ServingKept ==
    ASSUME Grounds, NEW w \in Workers, Serving(w), Serving(w)'
    PROVE  /\ requests' # <<>> /\ Head(requests') = Head(requests)
           /\ \/ Stream' = Stream
              \/ /\ put(w)
                 /\ Stream' = Stream \o Tokens(job[w].id, job[w].k, Head(job[w].todo).size)
<1>1. requests # <<>> /\ (\A v \in Workers : InService(v) => v = w)
      /\ (\A t \in Threads : ~send_continue(t))
  BY ServesAlone
<1>2. ASSUME NEW v \in Workers, pop_request(v) \/ drop_requests(v) PROVE FALSE
  <2>1. Serving(v)
    BY <1>2 DEF pop_request, drop_requests, Serving
  <2>2. v = w
    BY <1>1, <2>1, ServesAlone
  <2>3. pc'[w] \in {"next", "last"}
    <3>1. DOMAIN pc = Threads /\ w \in Threads
      BY Grounded DEF Grounds, IInv, Shapes
    <3> QED
      BY <1>2, <2>2, <3>1 DEF pop_request, drop_requests, Go
  <2> QED
    BY <2>3 DEF Serving
<1>3. requests' # <<>> /\ Head(requests') = Head(requests)
  <2>1. CASE requests' = requests
    BY <1>1, <2>1
  <2>2. CASE queue_request
    <3>1. requests' = requests \/ (request.completed /\ requests' = Append(requests, request.id))
      BY <2>2 DEF queue_request
    <3>2. CASE requests' # requests
      <4>1. requests' = Append(requests, request.id) /\ request.id \in 1 .. Len(script)
        BY <3>1, <3>2 DEF Grounds, Typed, RequestsTyped
      <4> QED
        BY <1>1, <4>1, Grounded, HeadOfAppend
    <3> QED
      BY <1>1, <3>2
  <2> QED
    BY <1>2, <2>1, <2>2, WhoChangesQueue
<1>4. ASSUME NEW v \in Workers, put(v) PROVE v = w
  <2>1. Serving(v)
    BY <1>4 DEF put, Serving
  <2> QED
    BY <1>1, <2>1, ServesAlone
<1> QED
  BY <1>1, <1>3, <1>4, Streams, ThreadKinds DEF Grounds

\* The stream grows only by the two that append to it.
LEMMA StreamStays ==
    ASSUME Grounds, \A w \in Workers : ~put(w), ~send_continue(Main)
    PROVE  Stream' = Stream
BY Streams DEF Grounds

LEMMA DueSame ==
    ASSUME script' = script
    PROVE  \A j, s : Due(j, s)' <=> Due(j, s)
<1>1. \A j : Scripted(j)' <=> Scripted(j)
  BY DEF Scripted
<1> QED
  BY <1>1, SameScript DEF Due

LEMMA DueStarts ==
    ASSUME script \in Scripts, NEW j, j.id \in 1 .. Len(script), Responds(j.id), j.k = 1,
           j.todo = script[j.id].writes, NEW s, Ready(s, <<j.id, 1>>)
    PROVE  Due(j, s)
<1> DEFINE ws == script[j.id].writes
<1>1. ws \in Seq(Writes) /\ ws # <<>>
  BY ResponsePositive
<1>2. Written(ws)[0] = 0 /\ Len(ws) \in Nat /\ SubSeq(ws, 1, Len(ws)) = ws
  BY <1>1, WrittenIs, LenProperties, SubSeqFull
<1>3. j.todo = SubSeq(ws, 0 + 1, Len(ws)) /\ j.k = Written(ws)[0] + 1 /\ 0 \in 0 .. Len(ws)
  BY <1>2
<1>4. Scripted(j)
  BY <1>3 DEF Scripted
<1> QED
  BY <1>1, <1>4 DEF Due

LEMMA RestEmpty ==
    ASSUME NEW ws \in Seq(Writes), NEW m \in 1 .. Len(ws) + 1
    PROVE  SubSeq(ws, m, Len(ws)) = <<>> <=> m = Len(ws) + 1
<1>1. Len(ws) \in Nat /\ m \in Int /\ m =< Len(ws) + 1 /\ Len(ws) \in Int
  BY LenProperties
<1>2. CASE m = Len(ws) + 1
  <2>1. Len(ws) < m
    BY <1>1, <1>2
  <2> QED
    BY <1>1, <1>2, <2>1, SubSeqEmpty
<1>3. CASE m # Len(ws) + 1
  <2>1. m =< Len(ws) /\ Len(ws) - m + 1 # 0
    BY <1>1, <1>3
  <2>2. \A i \in m .. Len(ws) : ws[i] \in Writes
    BY <1>1, ElementOfSeq
  <2>3. Len(SubSeq(ws, m, Len(ws))) = Len(ws) - m + 1
    BY <1>1, <2>1, <2>2, SubSeqProperties
  <2>4. Len(SubSeq(ws, m, Len(ws))) # 0
    BY <2>1, <2>3
  <2> DEFINE q == SubSeq(ws, m, Len(ws))
  <2>5. Len(q) # 0
    BY <2>4
  <2> HIDE DEF q
  <2>6. q # <<>>
    BY <2>5
  <2> QED
    BY <1>3, <2>6 DEF q
<1> QED
  BY <1>2, <1>3

\* The rest of a sequence, and its rest.
LEMMA RestOfRest ==
    ASSUME NEW ws \in Seq(Writes), NEW n \in 0 .. Len(ws), SubSeq(ws, n + 1, Len(ws)) # <<>>
    PROVE  /\ n + 1 \in 1 .. Len(ws) /\ Head(SubSeq(ws, n + 1, Len(ws))) = ws[n + 1]
           /\ Tail(SubSeq(ws, n + 1, Len(ws))) = SubSeq(ws, (n + 1) + 1, Len(ws))
           /\ Tail(SubSeq(ws, n + 1, Len(ws))) = <<>> <=> n + 1 = Len(ws)
<1> DEFINE m == n + 1
<1>1. Len(ws) \in Nat /\ n \in Nat /\ m \in 1 .. Len(ws) + 1
  BY LenProperties
<1>2. m # Len(ws) + 1
  BY <1>1, RestEmpty
<1>3. m \in 1 .. Len(ws) /\ Len(ws) \in m .. Len(ws)
  BY <1>1, <1>2
<1>4. m + 1 \in 1 .. Len(ws) + 1
  BY <1>1, <1>3
<1> HIDE DEF m
<1>5. Head(SubSeq(ws, m, Len(ws))) = ws[m]
      /\ Tail(SubSeq(ws, m, Len(ws))) = SubSeq(ws, m + 1, Len(ws))
  BY <1>3, HeadTailOfSubSeq
<1>6. SubSeq(ws, m + 1, Len(ws)) = <<>> <=> m + 1 = Len(ws) + 1
  BY <1>4, RestEmpty
<1>7. m + 1 = Len(ws) + 1 <=> m = Len(ws)
  BY <1>1, <1>3
<1> QED
  BY <1>3, <1>5, <1>6, <1>7 DEF m

LEMMA OneWrite ==
    LET c == [size |-> 1, file |-> FALSE] IN
    <<c>> # <<>> /\ Head(<<c>>) = c /\ Tail(<<c>>) = <<>>
OBVIOUS

\* The next chunk of a task continues the stream, and the task goes on from it.
LEMMA DueWritten ==
    ASSUME script \in Scripts, NEW s \in Seq(Token), InOrder(s),
           NEW j \in Jobs, Due(j, s), j.id \in 1 .. Len(script), Responds(j.id), j.todo # <<>>,
           NEW i, i.id = j.id, i.todo = Tail(j.todo), i.k = j.k + Head(j.todo).size,
           i.close = j.close,
           NEW x, x = Tokens(j.id, j.k, Head(j.todo).size)
    PROVE  s \o x \in Seq(Token) /\ InOrder(s \o x) /\ Due(i, s \o x)
<1> DEFINE ws == script[j.id].writes
           size == Head(j.todo).size
           last == j.k + size - 1
<1>1. ws \in Seq(Writes) /\ ws # <<>> /\ ResponseLen(j.id) \in Nat /\ ResponseLen(j.id) > 0
      /\ ResponseLen(j.id) = Written(ws)[Len(ws)] /\ Len(ws) \in Nat
  BY ResponsePositive, LenProperties DEF ResponseLen
<1>2. /\ Written(ws)[0] = 0
      /\ \A n \in 1 .. Len(ws) : Written(ws)[n] = Written(ws)[n - 1] + ws[n].size
      /\ \A n \in 0 .. Len(ws) : Written(ws)[n] \in Nat
      /\ \A n \in 0 .. Len(ws) : Written(ws)[n] =< ResponseLen(j.id)
      /\ \A n \in 0 .. Len(ws) : n # Len(ws) => Written(ws)[n] < ResponseLen(j.id)
  <2>1. ws \in Seq(Writes) /\ ResponseLen(j.id) = Written(ws)[Len(ws)]
    BY <1>1
  <2> HIDE DEF ws
  <2> QED
    BY <2>1, WrittenIs, WrittenGrows
<1>3. size \in Nat \ {0} /\ j.k \in Nat /\ j.id \in Nat
  <2>1. j.todo \in Seq(Writes) /\ j.k \in Nat /\ j.id \in Nat
    BY DEF Jobs
  <2>2. Head(j.todo) \in Writes
    BY <2>1, HeadTailProperties, SMTT(30)
  <2> QED
    BY <2>1, <2>2 DEF Writes
<1>4. /\ j.k # 0 /\ last =< ResponseLen(j.id)
      /\ \/ i.close /\ i.todo = <<>>
         \/ \E n \in 0 .. Len(ws) :
               /\ i.todo = SubSeq(ws, n + 1, Len(ws)) /\ i.k = Written(ws)[n] + 1
               /\ last = Written(ws)[n]
               /\ i.todo # <<>> => last < ResponseLen(j.id)
               /\ i.todo = <<>> => last = ResponseLen(j.id)
  <2>1. CASE j.close /\ j.k = 1 /\ j.todo = << [size |-> 1, file |-> FALSE] >>
    <3>1. size = 1 /\ i.todo = <<>>
      BY <2>1, OneWrite
    <3>2. last = 1
      BY <2>1, <3>1
    <3>3. last =< ResponseLen(j.id)
      BY <1>1, <3>2
    <3> QED
      BY <2>1, <3>1, <3>3
  <2>2. CASE \E n \in 0 .. Len(ws) : j.todo = SubSeq(ws, n + 1, Len(ws)) /\ j.k = Written(ws)[n] + 1
    <3>1. PICK n \in 0 .. Len(ws) : j.todo = SubSeq(ws, n + 1, Len(ws)) /\ j.k = Written(ws)[n] + 1
      BY <2>2
    <3> DEFINE m == n + 1
    <3>2. m \in 1 .. Len(ws) /\ Head(j.todo) = ws[m] /\ i.todo = SubSeq(ws, m + 1, Len(ws))
          /\ (i.todo = <<>> <=> m = Len(ws))
      <4>1. ws \in Seq(Writes) /\ SubSeq(ws, n + 1, Len(ws)) # <<>>
        BY <1>1, <3>1
      <4> HIDE DEF ws
      <4> QED
        BY <3>1, <4>1, RestOfRest
    <3>3. m \in 0 .. Len(ws) /\ m - 1 = n
      BY <1>1, <3>2
    <3>4. Written(ws)[m] = Written(ws)[n] + size
      BY <1>2, <3>2, <3>3
    <3>5. Written(ws)[n] \in Nat /\ Written(ws)[m] \in Nat
      BY <1>2, <3>3, SMTT(30)
    <3> DEFINE a == Written(ws)[n]
               b == Written(ws)[m]
    <3>6. j.k = a + 1 /\ b = a + size /\ a \in Nat /\ b \in Nat /\ i.k = j.k + size
      BY <3>1, <3>4, <3>5
    <3> HIDE DEF a, b, size, m, ws
    <3>7. last = b /\ i.k = b + 1 /\ j.k # 0
      BY <1>3, <3>6
    <3>8. b =< ResponseLen(j.id) /\ (m # Len(ws) => b < ResponseLen(j.id))
      BY <1>2, <3>3 DEF b
    <3>9. m = Len(ws) => b = ResponseLen(j.id)
      BY <1>1 DEF b
    <3>10. \E q \in 0 .. Len(ws) :
               /\ i.todo = SubSeq(ws, q + 1, Len(ws)) /\ i.k = Written(ws)[q] + 1
               /\ last = Written(ws)[q]
               /\ i.todo # <<>> => last < ResponseLen(j.id)
               /\ i.todo = <<>> => last = ResponseLen(j.id)
      <4>1. i.k = Written(ws)[m] + 1 /\ last = Written(ws)[m]
        BY <3>7 DEF b
      <4> HIDE DEF last
      <4> QED
        BY <3>2, <3>3, <3>7, <3>8, <3>9, <4>1
    <3>11. last =< ResponseLen(j.id)
      BY <3>7, <3>8
    <3> QED
      BY <3>7, <3>10, <3>11 DEF ws, size
  <2> QED
    BY <2>1, <2>2 DEF Due, Scripted
<1> HIDE DEF ws
<1>5. /\ Chained(x) /\ x # <<>> /\ x[1] = <<j.id, j.k>> /\ x[size] = <<j.id, last>>
      /\ x \in Seq(Token) /\ Len(x) = size
  <2> HIDE DEF size
  <2>1. /\ Chained(Tokens(j.id, j.k, size)) /\ Tokens(j.id, j.k, size) # <<>>
        /\ Tokens(j.id, j.k, size)[1] = <<j.id, j.k>>
        /\ Tokens(j.id, j.k, size)[size] = <<j.id, j.k + size - 1>>
    BY <1>1, <1>3, <1>4, ChunkChained
  <2>2. Tokens(j.id, j.k, size) \in Seq(Token) /\ Len(Tokens(j.id, j.k, size)) = size
    BY <1>3, TokensTyped
  <2> QED
    BY <2>1, <2>2 DEF size
<1> HIDE DEF size, last
<1>6. Ready(s, x[1])
  BY <1>5 DEF Due
<1> DEFINE y == s \o x
<1>7. y \in Seq(Token) /\ InOrder(y)
  BY <1>5, <1>6, OrderConcat
<1>8. y # <<>> /\ y[Len(y)] = <<j.id, last>>
  BY <1>5, LastOfConcat
<1> HIDE DEF y
<1>9. Due(i, y)
  <2>1. CASE i.close /\ i.todo = <<>>
    BY <2>1 DEF Due, Scripted
  <2>2. CASE \E n \in 0 .. Len(ws) :
               /\ i.todo = SubSeq(ws, n + 1, Len(ws)) /\ i.k = Written(ws)[n] + 1
               /\ last = Written(ws)[n]
               /\ i.todo # <<>> => last < ResponseLen(j.id)
               /\ i.todo = <<>> => last = ResponseLen(j.id)
    <3>1. Scripted(i)
      BY <2>2 DEF Scripted, ws
    <3>2. i.todo # <<>> => Ready(y, <<i.id, i.k>>)
      <4>1. SUFFICES ASSUME i.todo # <<>> PROVE FollowsOnWire(<<j.id, last>>, <<j.id, i.k>>)
        BY <1>8 DEF Ready
      <4>2. last < ResponseLen(j.id) /\ i.k = last + 1
        BY <2>2, <4>1
      <4> QED
        BY <4>2 DEF FollowsOnWire
    <3>3. i.todo = <<>> => y # <<>> /\ y[Len(y)] = <<i.id, ResponseLen(i.id)>>
      BY <1>8, <2>2
    <3> QED
      BY <3>1, <3>2, <3>3 DEF Due
  <2> QED
    BY <1>4, <2>1, <2>2
<1> QED
  BY <1>7, <1>9 DEF y

LEMMA DueFields ==
    ASSUME NEW i, NEW j, i.id = j.id, i.todo = j.todo, i.k = j.k, i.close = j.close,
           NEW s, Due(j, s)
    PROVE  Due(i, s)
BY DEF Due, Scripted

LEMMA JobShape ==
    ASSUME Grounds, NEW w \in Workers
    PROVE  /\ job[w] \in Jobs /\ job'[w] \in Jobs /\ DOMAIN job = Workers
           /\ DOMAIN job[w] = {"id", "todo", "k", "close", "exc"}
           /\ w \in DOMAIN pc /\ w \in DOMAIN flush /\ DOMAIN flush[w] = FlushFields
<1>1. job \in [Workers -> Jobs] /\ job' \in [Workers -> Jobs]
  BY TypedNext DEF Grounds, Typed, JobsTyped
<1> QED
  BY <1>1, Grounded DEF Jobs, Grounds, IInv, Shapes

SameTask(i, j) == i.id = j.id /\ i.todo = j.todo /\ i.k = j.k /\ i.close = j.close

Ending(w) == pc[w] \in {"flush_fin", "pop"} \/ flush[w].ctx = "hwm_fin"

LEMMA FlushTask ==
    ASSUME Grounds, NEW w \in Workers, flush_some(w)
    PROVE  SameTask(job'[w], job[w]) /\ (Ending(w)' => Ending(w))
<1>1. w \in Threads /\ w # Main /\ Shapes
  BY Grounded DEF Grounds, IInv
<1>2. flush[w].ctx # "continue"
  BY <1>1, ThreadKinds DEF Grounds, IInv, Shapes, FInv, InPlace
<1>3. CASE \/ flush_top(w) \/ send_some(w) \/ send_nothing(w)
           \/ flush_skip(w) \/ flush_deduct(w)
  <2>1. job' = job
    BY <1>3 DEF flush_top, send_some, send_nothing, flush_skip, flush_deduct, SentOn
  <2>2. pc'[w] \notin {"flush_fin", "pop"} /\ flush'[w].ctx = flush[w].ctx
    BY <1>1, <1>3, TopMoves, SendMoves, SkipMoves DEF Within
  <2> QED
    BY <2>1, <2>2 DEF SameTask, Ending
<1>4. CASE flush_return(w)
  <2>1. job' = job
    BY <1>4 DEF flush_return
  <2>2. Ending(w)' => Ending(w)
    BY <1>1, <1>2, <1>4, ReturnMoves DEF Within, Leaves, Ending
  <2> QED
    BY <2>1, <2>2 DEF SameTask
<1>5. CASE flush_raise(w)
  <2>1. job' = job \/ job' = [job EXCEPT ![w].exc = TRUE]
    BY <1>2, <1>5 DEF flush_raise, FlushRaised
  <2>2. Ending(w)' => Ending(w)
    BY <1>1, <1>2, <1>5, RaiseMoves DEF Within, Leaves, Ending
  <2> QED
    BY <2>1, <2>2, JobShape DEF SameTask
<1> QED
  BY <1>3, <1>4, <1>5 DEF flush_some

LEMMA WhoChangesTask ==
    ASSUME Grounds, NEW w \in Workers, Serving(w), Serving(w)'
    PROVE  \/ SameTask(job'[w], job[w]) /\ (Ending(w)' => Ending(w) \/ ~job[w].close)
           \/ put(w) \/ app_raises(w)
<1>1. CASE ~WorkerStep(w)
  <2>1. job'[w] = job[w] /\ flush'[w] = flush[w]
        /\ (pc'[w] = pc[w] \/ (pc[w] = "waiting" /\ pc'[w] = "relock"))
    BY <1>1, OwnJob DEF Grounds
  <2> QED
    BY <2>1 DEF SameTask, Ending
<1>2. CASE flush_some(w)
  BY <1>2, FlushTask
<1>3. CASE send_continue(w) \/ handle_close(w) \/ dispatcher_close(w)
  <2>1. w \in Threads /\ w # Main
    BY Grounded
  <2> QED
    BY <1>3, <2>1, OnlyMainCloses DEF Grounds, ContinuesInTime, send_continue
<1>4. CASE take_task(w) \/ service_start(w) \/ next_request(w) \/ service_ends(w)
  BY <1>4 DEF take_task, service_start, next_request, service_ends, Serving
<1>5. CASE pop_request(w) \/ drop_requests(w)
  BY <1>5, JobShape DEF pop_request, drop_requests, Serving, Go
<1>6. CASE \/ write_soon(w) \/ flush_before_next(w) \/ close_soon(w) \/ finish(w) \/ app_writes(w)
  <2>1. job' = job
    BY <1>6 DEF write_soon, flush_before_next, close_soon, finish, app_writes, Grounds
  <2>2. Ending(w)' => Ending(w) \/ ~job[w].close
    <3>1. CASE write_soon(w)
      BY <3>1, JobShape DEF write_soon, Go, StartFlush, Ending, FlushFields
    <3>2. CASE flush_before_next(w)
      BY <3>2, JobShape DEF flush_before_next, Ending
    <3>3. CASE close_soon(w) \/ app_writes(w)
      BY <3>3, JobShape DEF close_soon, app_writes, Go, Ending
    <3>4. CASE finish(w)
      BY <3>4, JobShape DEF finish, Go, Ending
    <3> QED
      BY <1>6, <3>1, <3>2, <3>3, <3>4
  <2> QED
    BY <2>1, <2>2 DEF SameTask
<1>7. CASE wait_returns(w)
  <2>1. SameTask(job'[w], job[w])
    BY <1>7, JobShape DEF wait_returns, SameTask
  <2>2. Ending(w)' => Ending(w)
    <3>1. flush[w].ctx \in {"hwm", "hwm_fin"}
      BY <1>7, ThreadKinds DEF wait_returns, Grounds, FInv, InPlace
    <3>2. CASE flush[w].ctx = "hwm_fin"
      BY <3>2 DEF Ending
    <3>3. CASE flush[w].ctx = "hwm"
      <4>1. \/ flush' = flush \/ flush' = [flush EXCEPT ![w] = Idle]
        BY <1>7 DEF wait_returns, TestHwm
      <4>2. flush'[w].ctx # "hwm_fin"
        BY <3>3, <4>1, Grounded, IdleFlush DEF Grounds, IInv
      <4>3. pc' = [pc EXCEPT ![w] = "put"] \/ pc' = [pc EXCEPT ![w] = "waiting"]
        BY <1>7, <3>3 DEF wait_returns, BelowHwm, TestHwm, PauseAtHwm, Go
      <4> QED
        BY <4>2, <4>3, JobShape DEF Ending
    <3> QED
      BY <3>1, <3>2, <3>3
  <2> QED
    BY <2>1, <2>2
<1> QED
  BY <1>1, <1>2, <1>3, <1>4, <1>5, <1>6, <1>7 DEF WorkerStep

LEMMA AnswersStarts ==
    ASSUME Grounds, Placed, NEW w \in Workers, service_start(w)
    PROVE  Answers(w)'
<1>1. /\ requests # <<>> /\ requests' = requests /\ pc[w] = "service"
      /\ job'[w].id = Head(requests) /\ job'[w].k = 1
      /\ job'[w].todo = script[Head(requests)].writes
      /\ pc'[w] = "app" /\ flush' = flush
  <2>1. /\ requests # <<>> /\ requests' = requests /\ pc[w] = "service"
        /\ flush' = flush /\ pc' = [pc EXCEPT ![w] = "app"]
    BY DEF service_start, Grounds, Go, shared
  <2>2. job' = [job EXCEPT ![w] =
                    [id |-> Head(requests), k |-> 1, exc |-> FALSE,
                     todo |-> script[Head(requests)].writes,
                     close |-> script[Head(requests)].close \/ ~connected]]
    BY DEF service_start, Grounds
  <2>3. job'[w] = [id |-> Head(requests), k |-> 1, exc |-> FALSE,
                   todo |-> script[Head(requests)].writes,
                   close |-> script[Head(requests)].close \/ ~connected]
    BY <2>2, JobShape
  <2> QED
    BY <2>1, <2>3, JobShape
<1>2. \A v \in Workers : ~Serving(v)
  <2>1. flush[w].ctx # "continue"
    BY <1>1, ThreadKinds DEF Grounds, IInv, Shapes, InFlush
  <2>2. InService(w)
    BY <1>1, <2>1 DEF InService
  <2> QED
    BY <1>1, <2>2, ServesAlone DEF Serving
<1>3. Ready(Stream, <<Head(requests), 1>>)
  BY <1>1, <1>2 DEF Placed, Waiting
<1>4. Head(requests) \in 1 .. Len(script) /\ Responds(Head(requests))
  <2>1. 1 \in 1 .. Len(requests) /\ Head(requests) = requests[1]
    BY <1>1, Grounded, EmptySeq, LenProperties
  <2> QED
    BY <2>1, Grounded, ElementOfSeq DEF Placed, Line, InLine
<1>5. Stream' = Stream
  <2>1. \A v \in Workers : ~put(v)
    BY <1>2 DEF put, Serving
  <2>2. ~send_continue(Main)
    BY <1>1 DEF send_continue, Grounds, ContinueAlone
  <2> QED
    BY <2>1, <2>2, StreamStays
<1> DEFINE j == job'[w]
<1>6. Due(j, Stream)
  <2>1. j.id = Head(requests) /\ j.k = 1 /\ j.todo = script[j.id].writes
    BY <1>1
  <2> HIDE DEF j
  <2> QED
    BY <1>3, <1>4, <2>1, Grounded, DueStarts
<1>7. Due(job[w], Stream)'
  BY <1>5, <1>6, Grounded, DueSame
<1>8. ~Ending(w)'
  <2>1. flush[w].ctx = ""
    BY <1>1, Grounded DEF Grounds, Typed, IdleOutside, Busy, InFlush
  <2> QED
    BY <1>1, <2>1 DEF Ending
<1> QED
  BY <1>1, <1>7, <1>8 DEF Answers, Ending

\* The request at the head of the queue gets a response.
LEMMA HeadResponds ==
    ASSUME Grounds, Placed, requests # <<>>
    PROVE  Head(requests) \in 1 .. Len(script) /\ Responds(Head(requests))
<1>1. 1 \in 1 .. Len(requests) /\ Head(requests) = requests[1]
  BY Grounded, EmptySeq, LenProperties
<1> QED
  BY <1>1, Grounded, ElementOfSeq DEF Placed, Line, InLine

LEMMA AnswersPuts ==
    ASSUME Grounds, Placed, InOrder(Stream), NEW w \in Workers, put(w)
    PROVE  Due(job[w], Stream)' /\ InOrder(Stream)' /\ ~Ending(w)'
           /\ job'[w].id = job[w].id
<1> DEFINE j == job[w]
           i == job'[w]
           x == Tokens(j.id, j.k, Head(j.todo).size)
<1>1. Serving(w) /\ Serving(w)'
  <2>1. pc[w] = "put" /\ pc'[w] \in {"top", "app"}
    BY JobShape DEF put, LeftMeanwhile, Grounds, Go
  <2> QED
    BY <2>1 DEF Serving
<1>2. requests # <<>> /\ j.id = Head(requests) /\ Due(j, Stream)
  BY <1>1 DEF Placed, AnswersAll, Answers
<1>3. j.todo # <<>> /\ j \in Jobs
  <2>1. Chunked(w)
    BY DEF put, Chunked
  <2> QED
    BY <2>1, JobShape DEF Grounds, Typed, JobsTyped
<1>4. i.id = j.id /\ i.todo = Tail(j.todo) /\ i.k = j.k + Head(j.todo).size /\ i.close = j.close
  <2> DEFINE job1 == [job EXCEPT ![w].todo = Tail(@)]
  <2>1. job' = [job1 EXCEPT ![w].k = job[w].k + Head(job[w].todo).size]
    BY DEF put, LeftMeanwhile, Grounds
  <2>2. job1[w] = [job[w] EXCEPT !.todo = Tail(job[w].todo)] /\ w \in DOMAIN job1
    BY JobShape
  <2> HIDE DEF job1
  <2>3. job'[w] = [job1[w] EXCEPT !.k = job1[w].k + Head(job[w].todo).size]
    BY <2>1, <2>2
  <2>4. job1[w].id = j.id /\ job1[w].todo = Tail(j.todo) /\ job1[w].k = j.k
        /\ job1[w].close = j.close /\ DOMAIN job1[w] = DOMAIN j
    BY <2>2, JobShape
  <2> QED
    BY <2>3, <2>4, JobShape
<1>5. Stream' = Stream \o x
  BY Streams DEF Grounds
<1>6. Head(requests) \in 1 .. Len(script) /\ Responds(Head(requests)) /\ script \in Scripts
      /\ Stream \in Seq(Token)
  BY <1>2, HeadResponds, Grounded
<1>7. x = Tokens(j.id, j.k, Head(j.todo).size)
  OBVIOUS
<1>8. ~Ending(w)'
  <2>1. pc'[w] \in {"top", "app"} /\ (flush' = flush \/ flush' = [flush EXCEPT ![w].ctx = "write"])
    BY JobShape DEF put, LeftMeanwhile, Grounds, Go, StartFlush
  <2>2. flush[w].ctx = ""
    BY Grounded DEF put, Grounds, Typed, IdleOutside, Busy, InFlush
  <2>3. flush'[w].ctx \in {"", "write"}
    BY <2>1, <2>2, JobShape DEF FlushFields
  <2> QED
    BY <2>1, <2>3 DEF Ending
<1> HIDE DEF i, j, x
<1>9. Stream \o x \in Seq(Token) /\ InOrder(Stream \o x) /\ Due(i, Stream \o x)
  BY <1>2, <1>3, <1>4, <1>6, <1>7, DueWritten
<1>10. Due(job[w], Stream)' /\ InOrder(Stream)'
  BY <1>5, <1>9, Grounded, DueSame, SameScript DEF i
<1> QED
  BY <1>4, <1>8, <1>10 DEF i, j

LEMMA AnswersRaises ==
    ASSUME Grounds, Placed, NEW w \in Workers, app_raises(w)
    PROVE  Due(job[w], Stream)' /\ ~Ending(w)' /\ job'[w].id = job[w].id
<1> DEFINE j == job[w]
           i == job'[w]
           ws == script[j.id].writes
           c == [size |-> 1, file |-> FALSE]
<1>1. pc[w] = "app" /\ ~j.close /\ flush' = flush /\ pc'[w] \in {"app", "finish"} /\ Serving(w)
      /\ Serving(w)'
  BY JobShape DEF app_raises, Go, Serving
<1>2. requests # <<>> /\ j.id = Head(requests) /\ Due(j, Stream) /\ j.id \in 1 .. Len(script)
      /\ Responds(j.id)
  BY <1>1, HeadResponds DEF Placed, AnswersAll, Answers
<1>3. Stream' = Stream
  <2>1. \A v \in Workers : ~put(v)
    <3> SUFFICES ASSUME NEW v \in Workers, put(v) PROVE FALSE
      OBVIOUS
    <3>1. Serving(v) /\ pc[v] = "put"
      BY DEF put, Serving
    <3>2. v = w
      BY <1>1, <3>1, ServesAlone
    <3> QED
      BY <1>1, <3>1, <3>2
  <2>2. ~send_continue(Main)
    BY <1>1, ServesAlone, ThreadKinds
  <2> QED
    BY <2>1, <2>2, StreamStays
<1>4. ~Ending(w)'
  <2>1. flush[w].ctx = ""
    BY <1>1, Grounded DEF Grounds, Typed, IdleOutside, Busy, InFlush
  <2> QED
    BY <1>1, <2>1 DEF Ending
<1>5. CASE j.k = 1
  <2>1. i.id = j.id /\ i.todo = <<c>> /\ i.k = 1 /\ i.close
    <3> DEFINE job1 == [job EXCEPT ![w].todo = <<c>>]
    <3>1. job' = [job1 EXCEPT ![w].close = TRUE]
      BY <1>5 DEF app_raises
    <3>2. job1[w] = [job[w] EXCEPT !.todo = <<c>>] /\ w \in DOMAIN job1
      BY JobShape
    <3> HIDE DEF job1
    <3>3. job'[w] = [job1[w] EXCEPT !.close = TRUE]
      BY <3>1, <3>2
    <3>4. job1[w].id = j.id /\ job1[w].todo = <<c>> /\ job1[w].k = j.k
          /\ DOMAIN job1[w] = DOMAIN j
      BY <3>2, JobShape
    <3> QED
      BY <1>5, <3>3, <3>4, JobShape
  <2>2. PICK n \in 0 .. Len(ws) : j.todo = SubSeq(ws, n + 1, Len(ws)) /\ j.k = Written(ws)[n] + 1
    BY <1>1, <1>2 DEF Due, Scripted
  <2>3. ws \in Seq(Writes) /\ ws # <<>>
    BY <1>2, Grounded, ResponsePositive
  <2>4. n = 0
    <3> HIDE DEF ws, j
    <3>1. Written(ws)[n] \in Nat /\ (n # 0 => Written(ws)[n] > 0)
      BY <2>3, WrittenGrows
    <3>2. Written(ws)[n] = 0
      BY <1>5, <2>2, <3>1
    <3> QED
      BY <3>1, <3>2
  <2>5. j.todo # <<>>
    <3> HIDE DEF ws
    <3>1. j.todo = SubSeq(ws, 1, Len(ws))
      BY <2>2, <2>4
    <3> QED
      BY <2>3, <3>1, SubSeqFull
  <2>6. Ready(Stream, <<i.id, i.k>>)
    BY <1>2, <1>5, <2>1, <2>5 DEF Due
  <2>7. Scripted(i) /\ i.todo # <<>>
    BY <2>1 DEF Scripted
  <2>8. Due(i, Stream)
    BY <2>6, <2>7 DEF Due
  <2>9. Due(job[w], Stream)'
    BY <1>3, <2>8, Grounded, DueSame
  <2> QED
    BY <1>4, <2>1, <2>9
<1>6. CASE j.k # 1
  <2>1. i.id = j.id /\ i.todo = <<>> /\ i.close
    <3> DEFINE job1 == [job EXCEPT ![w].todo = <<>>]
    <3>1. job' = [job1 EXCEPT ![w].close = TRUE]
      BY <1>6 DEF app_raises, GivesUp
    <3>2. job1[w] = [job[w] EXCEPT !.todo = <<>>] /\ w \in DOMAIN job1
      BY JobShape
    <3> HIDE DEF job1
    <3>3. job'[w] = [job1[w] EXCEPT !.close = TRUE]
      BY <3>1, <3>2
    <3>4. job1[w].id = j.id /\ job1[w].todo = <<>> /\ DOMAIN job1[w] = DOMAIN j
      BY <3>2, JobShape
    <3> QED
      BY <3>3, <3>4, JobShape
  <2>2. Due(i, Stream)
    BY <2>1 DEF Due, Scripted
  <2>3. Due(job[w], Stream)'
    BY <1>3, <2>2, Grounded, DueSame
  <2> QED
    BY <1>4, <2>1, <2>3
<1> QED
  BY <1>5, <1>6

LEMMA AnswersStay ==
    ASSUME Grounds, Placed, InOrder(Stream)
    PROVE  AnswersAll'
<1> SUFFICES ASSUME NEW w \in Workers, Serving(w)' PROVE Answers(w)'
  BY DEF AnswersAll
<1>1. CASE ~Serving(w)
  BY <1>1, WhoServes, AnswersStarts
<1>2. CASE Serving(w)
  <2>1. /\ requests' # <<>> /\ Head(requests') = Head(requests)
        /\ Stream' = Stream \/ put(w)
    BY <1>2, ServingKept
  <2>2. job[w].id = Head(requests) /\ Due(job[w], Stream) /\ (Ending(w) => ~job[w].close)
    BY <1>2 DEF Placed, AnswersAll, Answers, Ending
  <2>3. job'[w].id = job[w].id /\ Due(job[w], Stream)' /\ (Ending(w)' => ~job'[w].close)
    <3>1. CASE put(w)
      BY <3>1, AnswersPuts
    <3>2. CASE app_raises(w)
      BY <3>2, AnswersRaises
    <3>3. CASE /\ ~put(w) /\ ~app_raises(w) /\ SameTask(job'[w], job[w])
               /\ (Ending(w)' => Ending(w) \/ ~job[w].close)
      <4>1. Due(job'[w], Stream)
        <5> DEFINE i == job'[w]
        <5>1. i.id = job[w].id /\ i.todo = job[w].todo /\ i.k = job[w].k /\ i.close = job[w].close
          BY <3>3 DEF SameTask
        <5> HIDE DEF i
        <5>2. Due(i, Stream)
          BY <2>2, <5>1, DueFields
        <5> QED
          BY <5>2 DEF i
      <4>2. Due(job[w], Stream)'
        BY <2>1, <3>3, <4>1, Grounded, DueSame
      <4> QED
        BY <2>2, <3>3, <4>2 DEF SameTask
    <3> QED
      BY <1>2, <3>1, <3>2, <3>3, WhoChangesTask
  <2> QED
    BY <2>1, <2>2, <2>3 DEF Answers, Ending
<1> QED
  BY <1>1, <1>2

LEMMA InLineSame ==
    ASSUME script' = script
    PROVE  \A q : InLine(q)' <=> InLine(q)
BY SameScript DEF InLine

LEMMA InLineAppend ==
    ASSUME NEW S, NEW q \in Seq(S), InLine(q), NEW p \in S, Responds(p),
           q # <<>> => After(q[Len(q)], p)
    PROVE  InLine(Append(q, p))
<1> DEFINE a == Append(q, p)
<1>1. /\ Len(q) \in Nat /\ Len(a) = Len(q) + 1 /\ a[Len(q) + 1] = p
      /\ \A i \in 1 .. Len(q) : a[i] = q[i]
  BY AppendProperties, LenProperties
<1> HIDE DEF a
<1>2. \A i \in 1 .. Len(a) : Responds(a[i])
  <2> SUFFICES ASSUME NEW i \in 1 .. Len(a) PROVE Responds(a[i])
    OBVIOUS
  <2>1. i \in 1 .. Len(q) \/ i = Len(q) + 1
    BY <1>1
  <2> QED
    BY <1>1, <2>1 DEF InLine
<1>3. \A i \in 1 .. Len(a) - 1 : After(a[i], a[i + 1])
  <2> SUFFICES ASSUME NEW i \in 1 .. Len(a) - 1 PROVE After(a[i], a[i + 1])
    OBVIOUS
  <2>1. i \in 1 .. Len(q) /\ a[i] = q[i] /\ Len(q) # 0
    BY <1>1
  <2>2. CASE i = Len(q)
    <3>1. q # <<>>
      BY <2>1
    <3> QED
      BY <1>1, <2>1, <2>2, <3>1
  <2>3. CASE i # Len(q)
    <3>1. i + 1 \in 1 .. Len(q) /\ i \in 1 .. Len(q) - 1
      BY <1>1, <2>1, <2>3
    <3> QED
      BY <1>1, <2>1, <3>1 DEF InLine
  <2> QED
    BY <2>2, <2>3
<1> QED
  BY <1>2, <1>3 DEF InLine, a

LEMMA InLineTail ==
    ASSUME NEW S, NEW q \in Seq(S), q # <<>>, InLine(q)
    PROVE  /\ InLine(Tail(q)) /\ Tail(q) \in Seq(S)
           /\ Tail(q) # <<>> => /\ After(Head(q), Head(Tail(q)))
                                /\ Tail(q)[Len(Tail(q))] = q[Len(q)]
           /\ Tail(q) = <<>> => Head(q) = q[Len(q)]
<1> DEFINE a == Tail(q)
<1>1. /\ Len(q) \in Nat /\ Len(q) # 0 /\ a \in Seq(S) /\ Len(a) = Len(q) - 1
      /\ \A i \in 1 .. Len(a) : a[i] = q[i + 1]
      /\ Head(q) = q[1]
  BY HeadTailProperties, LenProperties, EmptySeq
<1> HIDE DEF a
<1>2. InLine(a)
  <2>1. \A i \in 1 .. Len(a) : Responds(a[i])
    <3> SUFFICES ASSUME NEW i \in 1 .. Len(a) PROVE Responds(a[i])
      OBVIOUS
    <3>1. i + 1 \in 1 .. Len(q)
      BY <1>1
    <3> QED
      BY <1>1, <3>1 DEF InLine
  <2>2. \A i \in 1 .. Len(a) - 1 : After(a[i], a[i + 1])
    <3> SUFFICES ASSUME NEW i \in 1 .. Len(a) - 1 PROVE After(a[i], a[i + 1])
      OBVIOUS
    <3>1. i + 1 \in 1 .. Len(q) - 1 /\ i \in 1 .. Len(a) /\ i + 1 \in 1 .. Len(a)
      BY <1>1
    <3>2. a[i] = q[i + 1] /\ a[i + 1] = q[(i + 1) + 1]
      BY <1>1, <3>1
    <3> QED
      BY <3>1, <3>2 DEF InLine
  <2> QED
    BY <2>1, <2>2 DEF InLine
<1>3. a # <<>> => After(Head(q), Head(a)) /\ a[Len(a)] = q[Len(q)]
  <2> SUFFICES ASSUME a # <<>> PROVE After(Head(q), Head(a)) /\ a[Len(a)] = q[Len(q)]
    OBVIOUS
  <2>1. Len(a) # 0 /\ Head(a) = a[1]
    BY <1>1, EmptySeq
  <2>2. 1 \in 1 .. Len(q) - 1 /\ 1 \in 1 .. Len(a) /\ Len(a) \in 1 .. Len(a) /\ Len(a) + 1 = Len(q)
    BY <1>1, <2>1
  <2>3. a[1] = q[1 + 1] /\ a[Len(a)] = q[Len(q)]
    BY <1>1, <2>2
  <2>4. After(q[1], q[1 + 1])
    BY <2>2 DEF InLine
  <2> QED
    BY <1>1, <2>1, <2>3, <2>4
<1>4. a = <<>> => Head(q) = q[Len(q)]
  <2> SUFFICES ASSUME a = <<>> PROVE Head(q) = q[Len(q)]
    OBVIOUS
  <2>1. Len(a) = 0
    OBVIOUS
  <2>2. Len(q) = 1
    BY <1>1, <2>1
  <2> QED
    BY <1>1, <2>2
<1> QED
  BY <1>1, <1>2, <1>3, <1>4 DEF a

LEMMA PutLeavesMain ==
    ASSUME Grounds, pc'[Main] # pc[Main]
    PROVE  \A w \in Workers : ~put(w)
<1> SUFFICES ASSUME NEW w \in Workers, put(w) PROVE FALSE
  OBVIOUS
<1>1. \E p : pc' = [pc EXCEPT ![w] = p]
  BY DEF put, LeftMeanwhile, Grounds, Go
<1> QED
  BY <1>1, JobShape, Grounded

\* What queue_request does.
LEMMA Queues ==
    ASSUME Grounds, Placed, queue_request
    PROVE  /\ pc[Main] = "queue" /\ requests_lock = Main /\ ParserLive /\ Stream' = Stream
           /\ parsed' = parsed /\ pc'[Main] \in {"write", "parse"}
           /\ \A w \in Workers : Serving(w)' <=> Serving(w)
           /\ \/ UNCHANGED <<requests, request, sent_continue>>
              \/ /\ request' = NoRequest /\ ~sent_continue' /\ request.completed
                 /\ request.id \in 1 .. Len(script) /\ Known(request.id)
                 /\ Parsed = request.id
                 /\ \/ ~Responds(request.id) /\ requests' = requests
                    \/ Responds(request.id) /\ requests' = Append(requests, request.id)
<1>1. /\ pc[Main] = "queue" /\ parsed' = parsed
      /\ (pc' = [pc EXCEPT ![Main] = "write"] \/ pc' = [pc EXCEPT ![Main] = "parse"])
  BY DEF queue_request, Go, input
<1>2. Main \in DOMAIN pc /\ \A w \in Workers : w \in DOMAIN pc /\ w # Main
  BY ThreadKinds DEF Grounds, IInv, Shapes
<1>3. pc'[Main] \in {"write", "parse"} /\ \A w \in Workers : pc'[w] = pc[w]
  BY <1>1, <1>2
<1>4. requests_lock = Main /\ ParserLive
  BY <1>1, ThreadKinds DEF Grounds, IInv, LockIsHeld, HoldsRequests, ParserLive
<1>5. Stream' = Stream
  <2>1. \A w \in Workers : ~put(w)
    BY <1>1, <1>3, PutLeavesMain
  <2>2. ~send_continue(Main)
    BY <1>1 DEF send_continue
  <2> QED
    BY <2>1, <2>2, StreamStays
<1>6. request.completed =>
          /\ request.id \in 1 .. Len(script) /\ Known(request.id) /\ Parsed = request.id
  <2> SUFFICES ASSUME request.completed
               PROVE  /\ request.id \in 1 .. Len(script) /\ Known(request.id) /\ Parsed = request.id
    OBVIOUS
  <2>1. request.id # 0 /\ request.id \in 0 .. Len(script) /\ Len(script) \in Nat
    BY Grounded DEF Grounds, Typed, RequestsTyped
  <2> QED
    BY <1>4, <2>1 DEF Placed, ParserAt
<1>7. \/ UNCHANGED <<requests, request, sent_continue>>
      \/ /\ request' = NoRequest /\ ~sent_continue' /\ request.completed
         /\ \/ ~Responds(request.id) /\ requests' = requests
            \/ Responds(request.id) /\ requests' = Append(requests, request.id)
  BY DEF queue_request, Responds
<1> QED
  BY <1>1, <1>3, <1>4, <1>5, <1>6, <1>7 DEF Serving

LEMMA Pops ==
    ASSUME Grounds, Placed, NEW w \in Workers, pop_request(w)
    PROVE  /\ requests # <<>> /\ requests' = Tail(requests) /\ Stream' = Stream
           /\ Stream # <<>> /\ Stream[Len(Stream)] = <<Head(requests), ResponseLen(Head(requests))>>
           /\ ResponseLen(Head(requests)) \in Nat /\ ResponseLen(Head(requests)) > 0
           /\ UNCHANGED <<request, parsed, sent_continue>> /\ pc'[Main] = pc[Main]
           /\ \A p : After(Head(requests), p) => Ready(Stream, <<p, 1>>)
<1>1. pc[w] = "pop" /\ Serving(w) /\ requests' = Tail(requests)
      /\ UNCHANGED <<request, parsed, sent_continue>>
      /\ pc' = [pc EXCEPT ![w] = "next"]
  BY DEF pop_request, Serving, Go, input
<1>2. requests # <<>> /\ Answers(w)
  BY <1>1 DEF Placed, AnswersAll, Answers
<1>3. job[w].todo = <<>>
  <2>1. flush[w].ctx = ""
    BY <1>1, Grounded DEF Grounds, Typed, IdleOutside, Busy, InFlush
  <2> QED
    BY <1>1, <2>1 DEF Grounds, ToWrite
<1>4. Stream # <<>> /\ Stream[Len(Stream)] = <<Head(requests), ResponseLen(Head(requests))>>
  BY <1>1, <1>2, <1>3 DEF Answers, Due
<1>5. Stream' = Stream
  <2>1. \A v \in Workers : ~put(v)
    <3> SUFFICES ASSUME NEW v \in Workers, put(v) PROVE FALSE
      OBVIOUS
    <3>1. Serving(v) /\ pc[v] = "put"
      BY DEF put, Serving
    <3>2. v = w
      BY <1>1, <3>1, ServesAlone
    <3> QED
      BY <1>1, <3>1, <3>2
  <2>2. ~send_continue(Main)
    BY <1>1, ServesAlone, ThreadKinds
  <2> QED
    BY <2>1, <2>2, StreamStays
<1>6. ResponseLen(Head(requests)) \in Nat /\ ResponseLen(Head(requests)) > 0
  BY <1>2, HeadResponds, Grounded, ResponsePositive
<1>7. pc'[Main] = pc[Main]
  BY <1>1, Grounded
<1>8. \A p : After(Head(requests), p) => Ready(Stream, <<p, 1>>)
  BY <1>4, <1>6, Grounded, ReadyNext
<1> QED
  BY <1>1, <1>2, <1>4, <1>5, <1>6, <1>7, <1>8

LEMMA Drops ==
    ASSUME Grounds, NEW w \in Workers, drop_requests(w)
    PROVE  requests' = <<>> /\ ~ParserLive'
<1>1. requests' = <<>> /\ requests_lock' = None /\ pc[w] = "drop"
  BY DEF drop_requests
<1>2. AboutToClose'
  BY <1>1, AsksStay DEF Grounds, Dropping
<1> QED
  BY <1>1, <1>2, ThreadKinds DEF ParserLive

LEMMA LineNext ==
    ASSUME Grounds, Placed
    PROVE  Line'
<1>1. InLine(requests) /\ requests \in Seq(1 .. Len(script))
  BY Grounded DEF Placed, Line
<1>2. InLine(requests')
  <2>1. CASE requests' = requests
    BY <1>1, <2>1
  <2>2. CASE queue_request /\ requests' # requests
    <3>1. /\ request.id \in 1 .. Len(script) /\ Known(request.id)
          /\ Responds(request.id) /\ requests' = Append(requests, request.id)
      BY <2>2, Queues
    <3>2. requests # <<>> => After(requests[Len(requests)], request.id)
      BY <3>1 DEF Known
    <3> QED
      BY <1>1, <3>1, <3>2, InLineAppend
  <2>3. ASSUME NEW w \in Workers, pop_request(w) PROVE InLine(requests')
    BY <1>1, <2>3, Pops, InLineTail
  <2>4. ASSUME NEW w \in Workers, drop_requests(w) PROVE InLine(requests')
    <3>1. requests' = <<>>
      BY <2>4, Drops
    <3>2. InLine(<<>>)
      BY DEF InLine
    <3> QED
      BY <3>1, <3>2
  <2> QED
    BY <2>1, <2>2, <2>3, <2>4, WhoChangesQueue
<1> QED
  BY <1>2, Grounded, InLineSame DEF Line

LEMMA WaitingNext ==
    ASSUME Grounds, Placed
    PROVE  Waiting'
<1> SUFFICES ASSUME requests' # <<>>, \A w \in Workers : ~Serving(w)'
             PROVE  Ready(Stream, <<Head(requests), 1>>)'
  BY DEF Waiting
<1> SUFFICES Ready(Stream', <<Head(requests'), 1>>)
  BY Grounded, SameScript
<1>1. CASE requests' = requests
  <2>1. \A w \in Workers : ~Serving(w)
    <3> SUFFICES ASSUME NEW w \in Workers, Serving(w) PROVE FALSE
      OBVIOUS
    <3>1. pop_request(w) \/ drop_requests(w)
      BY WhoServes
    <3>2. CASE pop_request(w)
      <4>1. requests # <<>> /\ requests' = Tail(requests)
        BY <3>2, Pops
      <4>2. Len(requests) \in Nat /\ Len(Tail(requests)) = Len(requests) - 1
        BY <4>1, Grounded, HeadTailProperties, LenProperties
      <4> QED
        BY <1>1, <4>1, <4>2
    <3>3. CASE drop_requests(w)
      BY <3>3, Drops
    <3> QED
      BY <3>1, <3>2, <3>3
  <2>2. Ready(Stream, <<Head(requests), 1>>)
    BY <1>1, <2>1 DEF Placed, Waiting
  <2>3. Stream' = Stream
    <3>1. \A w \in Workers : ~put(w)
      BY <2>1 DEF put, Serving
    <3>2. ~send_continue(Main)
      BY <1>1 DEF send_continue, Grounds, ContinueAlone
    <3> QED
      BY <3>1, <3>2, StreamStays
  <2> QED
    BY <1>1, <2>2, <2>3
<1>2. CASE queue_request /\ requests' # requests
  <2>1. /\ request.id \in 1 .. Len(script) /\ Known(request.id) /\ Stream' = Stream
        /\ requests' = Append(requests, request.id)
        /\ \A w \in Workers : ~Serving(w)
    BY <1>2, Queues
  <2>2. CASE requests = <<>>
    <3>1. Head(requests') = request.id
      BY <2>1, <2>2, Grounded, HeadTailAppend
    <3> QED
      BY <2>1, <2>2, <3>1 DEF Known
  <2>3. CASE requests # <<>>
    <3>1. Head(requests') = Head(requests)
      BY <2>1, <2>3, Grounded, HeadOfAppend
    <3>2. Ready(Stream, <<Head(requests), 1>>)
      BY <2>1, <2>3 DEF Placed, Waiting
    <3> QED
      BY <2>1, <3>1, <3>2
  <2> QED
    BY <2>2, <2>3
<1>3. ASSUME NEW w \in Workers, pop_request(w) PROVE Ready(Stream', <<Head(requests'), 1>>)
  <2>1. /\ requests # <<>> /\ requests' = Tail(requests) /\ Stream' = Stream
        /\ \A p : After(Head(requests), p) => Ready(Stream, <<p, 1>>)
    BY <1>3, Pops
  <2>2. After(Head(requests), Head(requests'))
    <3>1. InLine(requests) /\ requests \in Seq(1 .. Len(script))
      BY Grounded DEF Placed, Line
    <3> QED
      BY <2>1, <3>1, InLineTail
  <2> QED
    BY <2>1, <2>2
<1>4. ASSUME NEW w \in Workers, drop_requests(w) PROVE FALSE
  BY <1>4, Drops
<1> QED
  BY <1>1, <1>2, <1>3, <1>4, WhoChangesQueue

\* A continue comes before its response.
LEMMA ContinueOrdered ==
    ASSUME Grounds, Placed, InOrder(Stream), send_continue(Main)
    PROVE  /\ InOrder(Stream') /\ Stream' = Stream \o << <<request.id, 0>> >>
           /\ Stream'[Len(Stream')] = <<request.id, 0>> /\ Stream' # <<>>
           /\ request.id \in 1 .. Len(script) /\ script[request.id].expect
           /\ request'.id = request.id /\ request'.completed = request.completed
           /\ sent_continue' /\ requests' = <<>> /\ parsed' = parsed
           /\ ~request.completed /\ ParserLive
<1> DEFINE p == request.id
           x == << <<p, 0>> >>
<1>1. pc[Main] = "continue" /\ requests = <<>> /\ requests' = requests /\ parsed' = parsed
      /\ request' = [request EXCEPT !.expect = FALSE]
  BY DEF send_continue, Grounds, ContinueAlone, input
<1>2. p \in 1 .. Len(script) /\ script[p].expect /\ ~request.completed /\ ~sent_continue
  BY <1>1 DEF Grounds, Answering, AtHead, Placed, Latch
<1>3. ParserLive
  BY <1>1, ThreadKinds DEF Grounds, IInv, LockIsHeld, HoldsRequests, Continuing, ParserLive
<1>4. p \in Nat /\ p # 0 /\ request'.id = p /\ request'.completed = request.completed
  BY <1>1, <1>2, Grounded DEF Grounds, Typed, RequestsTyped
<1>5. sent_continue'
  <2>1. Last1(outbufs).stage # "shut"
    <3>1. Len(outbufs) \in Nat \ {0} /\ Last1(outbufs) = outbufs[Len(outbufs)]
      BY BufferedTyped DEF Grounds, Typed
    <3>2. Len(outbufs) \in 1 .. Len(outbufs)
      BY <3>1
    <3> QED
      BY <3>1, <3>2 DEF Grounds, BuffersOpen, Open
  <2> QED
    BY <2>1 DEF send_continue
<1>6. Ready(Stream, <<p, 0>>)
  <2>1. Ready(Stream, <<p, 1>>)
    BY <1>1, <1>3, <1>4 DEF Placed, ParserAt, Known
  <2>2. Stream # <<>> => Stream[Len(Stream)][2] # 0
    BY <1>1, <1>2, <1>3 DEF Placed, Latch
  <2> QED
    BY <1>4, <2>1, <2>2, Grounded, ReadyFirst
<1>7. x \in Seq(Token) /\ x # <<>> /\ x[1] = <<p, 0>> /\ Len(x) = 1 /\ Chained(x)
  <2>1. <<p, 0>> \in Token
    BY <1>4 DEF Token
  <2>2. x \in Seq(Token) /\ x # <<>> /\ x[1] = <<p, 0>> /\ Len(x) = 1
    BY <2>1
  <2> HIDE DEF x
  <2> QED
    BY <1>2, <2>2 DEF Chained
<1>8. Stream' = Stream \o x
  BY Streams DEF Grounds
<1> HIDE DEF x
<1>9. InOrder(Stream \o x)
  BY <1>6, <1>7, Grounded, OrderConcat
<1>10. Stream \o x # <<>> /\ (Stream \o x)[Len(Stream \o x)] = <<p, 0>>
  BY <1>7, Grounded, LastOfConcat
<1> QED
  BY <1>1, <1>2, <1>3, <1>4, <1>5, <1>8, <1>9, <1>10 DEF x

LEMMA OrderNext ==
    ASSUME Grounds, Placed, InOrder(Stream)
    PROVE  InOrder(Stream)'
<1>1. CASE \E w \in Workers : put(w)
  BY <1>1, AnswersPuts
<1>2. CASE send_continue(Main)
  BY <1>2, ContinueOrdered, Grounded, SameScript
<1>3. CASE (\A w \in Workers : ~put(w)) /\ ~send_continue(Main)
  BY <1>3, StreamStays, Grounded, SameScript
<1> QED
  BY <1>1, <1>2, <1>3

LEMMA KnownPrimed ==
    ASSUME script' = script
    PROVE  \A p : Known(p)' <=> IF requests' = <<>> THEN Ready(Stream', <<p, 1>>)
                                                   ELSE After(requests'[Len(requests')], p)
BY SameScript DEF Known

LEMMA KnownSame ==
    ASSUME script' = script, requests' = requests, requests # <<>> \/ Stream' = Stream
    PROVE  \A p : Known(p)' <=> Known(p)
BY KnownPrimed DEF Known

\* What was known of the next request stays so while the queue and the stream advance.
LEMMA KnownKept ==
    ASSUME Grounds, Placed, ~queue_request, ~send_continue(Main), ParserLive'
    PROVE  \A p : Known(p) => Known(p)'
<1> SUFFICES ASSUME NEW p, Known(p) PROVE Known(p)'
  OBVIOUS
<1>1. CASE requests' = requests
  <2>1. CASE requests # <<>>
    BY <1>1, <2>1, KnownSame, Grounded
  <2>2. CASE requests = <<>>
    <3>1. \A w \in Workers : ~put(w)
      <4> SUFFICES ASSUME NEW w \in Workers, put(w) PROVE FALSE
        OBVIOUS
      <4>1. Serving(w)
        BY DEF put, Serving
      <4> QED
        BY <2>2, <4>1, ServesAlone
    <3>2. Stream' = Stream
      BY <3>1, StreamStays
    <3> QED
      BY <1>1, <3>2, KnownSame, Grounded
  <2> QED
    BY <2>1, <2>2
<1>2. ASSUME NEW w \in Workers, pop_request(w) PROVE Known(p)'
  <2>1. /\ requests # <<>> /\ requests' = Tail(requests) /\ Stream' = Stream
        /\ \A q : After(Head(requests), q) => Ready(Stream, <<q, 1>>)
    BY <1>2, Pops
  <2>2. InLine(requests) /\ requests \in Seq(1 .. Len(script))
    BY Grounded DEF Placed, Line
  <2>3. After(requests[Len(requests)], p)
    BY <2>1 DEF Known
  <2>4. CASE requests' = <<>>
    <3>1. Head(requests) = requests[Len(requests)]
      BY <2>1, <2>2, <2>4, InLineTail
    <3> QED
      BY <2>1, <2>3, <2>4, <3>1, KnownPrimed, Grounded
  <2>5. CASE requests' # <<>>
    <3>1. requests'[Len(requests')] = requests[Len(requests)]
      BY <2>1, <2>2, <2>5, InLineTail
    <3> QED
      BY <2>3, <2>5, <3>1, KnownPrimed, Grounded
  <2> QED
    BY <2>4, <2>5
<1>3. ASSUME NEW w \in Workers, drop_requests(w) PROVE FALSE
  BY <1>3, Drops
<1> QED
  BY <1>1, <1>2, <1>3, WhoChangesQueue

\* The last unit that the parser has read, and what may come after it.
LEMMA UnitBefore ==
    ASSUME script \in Scripts, parsed \in Nat, parsed < Len(Units)
    PROVE  /\ Units[parsed + 1][2] = "head" => Units[parsed + 1][1] = Parsed + 1
           /\ Units[parsed + 1][2] = "body" =>
                  parsed # 0 /\ Units[parsed] = <<Units[parsed + 1][1], "head">>
           /\ parsed # 0 /\ Units[parsed][2] = "head" /\ script[Units[parsed][1]].body =>
                  Units[parsed + 1] = <<Units[parsed][1], "body">>
<1> DEFINE n == Len(Units)
<1>1. Grammatical(script, Units) /\ n \in Nat
  BY UnitsGrammatical, UnitsTyped
<1> HIDE DEF n
<1>2. parsed + 1 \in 1 .. n /\ (parsed + 1) - 1 = parsed /\ (parsed # 0 => parsed \in 1 .. n)
      /\ (parsed + 1 = 1 <=> parsed = 0)
  BY <1>1 DEF n
<1>3. Before(Units, parsed + 1) = Parsed
  BY <1>2 DEF Before, Parsed
<1>4. Units[parsed + 1][2] = "head" => Units[parsed + 1][1] = Parsed + 1
  BY <1>1, <1>2, <1>3 DEF Grammatical, n
<1>5. Units[parsed + 1][2] = "body" =>
          parsed # 0 /\ Units[parsed] = <<Units[parsed + 1][1], "head">>
  <2>1. Units[parsed + 1][2] = "body" =>
            (parsed + 1) - 1 \in 1 .. n /\ Units[(parsed + 1) - 1] = <<Units[parsed + 1][1], "head">>
    BY <1>1, <1>2 DEF Grammatical, n
  <2> QED
    BY <1>2, <2>1
<1>6. parsed # 0 /\ Units[parsed][2] = "head" /\ script[Units[parsed][1]].body =>
          Units[parsed + 1] = <<Units[parsed][1], "body">>
  BY <1>1, <1>2 DEF Grammatical, n
<1> QED
  BY <1>4, <1>5, <1>6

LEMMA ParserAtParses ==
    ASSUME Grounds, Placed, parse
    PROVE  ParserAt'
<1> DEFINE u == Units[parsed + 1]
<1>1. /\ parsed' = parsed + 1 /\ parsed \in Nat /\ Units' = Units /\ parsed < Len(Units)
      /\ requests' = requests /\ script' = script /\ ParserLive /\ pc[Main] = "parse"
      /\ pc' = [pc EXCEPT ![Main] = IF ContinueDue(request') THEN "continue" ELSE "queue"]
  BY Parses DEF Grounds
<1>2. Stream' = Stream
  <2>1. pc'[Main] # "parse"
    BY <1>1, ThreadKinds DEF Grounds, IInv, Shapes
  <2>2. \A w \in Workers : ~put(w)
    BY <1>1, <2>1, PutLeavesMain
  <2>3. ~send_continue(Main)
    BY <1>1 DEF send_continue
  <2> QED
    BY <2>2, <2>3, StreamStays
<1>3. ~request.completed
  BY <1>1 DEF Grounds, Answering, Completes
<1>4. \A p : Known(p)' <=> Known(p)
  BY <1>1, <1>2, KnownSame
<1>5. parsed' # 0 /\ Parsed' = u[1] /\ Units'[parsed'] = u
  BY <1>1 DEF Parsed
<1>6. u \in UnitsOf(script) /\ u[1] \in 1 .. Len(script) /\ u[2] \in {"head", "body"}
  BY <1>1, NextUnit DEF UnitsOf, Grounds, Typed
<1>7. /\ u[2] = "head" => u[1] = Parsed + 1
      /\ u[2] = "body" => parsed # 0 /\ Units[parsed] = <<u[1], "head">>
      /\ parsed # 0 /\ Units[parsed][2] = "head" /\ script[Units[parsed][1]].body =>
             u = <<Units[parsed][1], "body">>
  BY <1>1, Grounded, UnitBefore
<1>8. request' = IF u[2] = "body" THEN [request EXCEPT !.completed = TRUE]
                 ELSE [id |-> u[1], expect |-> script[u[1]].expect,
                       completed |-> ~script[u[1]].body \/ script[u[1]].error]
  BY DEF parse
<1>9. IF request.id = 0
      THEN Known(Parsed + 1)
      ELSE /\ Known(request.id) /\ Parsed = request.id /\ parsed # 0
           /\ Units[parsed][2] = "head" /\ script[request.id].body
  BY <1>1, <1>3 DEF Placed, ParserAt
<1> HIDE DEF u
<1>10. CASE u[2] = "head"
  <2>1. /\ request'.id = u[1]
        /\ request'.completed = (~script[u[1]].body \/ script[u[1]].error)
    BY <1>8, <1>10
  <2>2. request.id = 0
    <3> SUFFICES ASSUME request.id # 0 PROVE FALSE
      OBVIOUS
    <3>1. parsed # 0 /\ Units[parsed][2] = "head" /\ Units[parsed][1] = request.id
      BY <1>9 DEF Parsed
    <3>2. u = <<Units[parsed][1], "body">>
      BY <1>7, <1>9, <3>1
    <3> QED
      BY <1>10, <3>2
  <2>3. Known(u[1])
    BY <1>7, <1>9, <1>10, <2>2
  <2>4. Known(request'.id)
    BY <2>1, <2>3
  <2>5. request'.id # 0
    BY <1>6, <2>1, Grounded
  <2>6. ~request'.completed => script[request'.id].body
    BY <2>1
  <2>7. Known(request.id)'
    BY <1>4, <2>4
  <2> QED
    BY <1>1, <1>5, <1>10, <2>1, <2>5, <2>6, <2>7 DEF ParserAt
<1>11. CASE u[2] = "body"
  <2>1. request'.id = request.id /\ request'.completed
    BY <1>8, <1>11 DEF Grounds, Typed, RequestsTyped
  <2>2. parsed # 0 /\ Units[parsed] = <<u[1], "head">> /\ Parsed = u[1]
    BY <1>7, <1>11 DEF Parsed
  <2>3. request.id = u[1] /\ request.id # 0
    <3>1. request.id = u[1]
      BY <1>1, <1>11 DEF Grounds, Typed, RequestsTyped, u
    <3> QED
      BY <1>6, <3>1, Grounded
  <2>4. Known(request'.id)
    BY <1>9, <2>1, <2>3
  <2>5. Known(request.id)'
    BY <1>4, <2>4
  <2> QED
    BY <1>5, <2>1, <2>3, <2>5 DEF ParserAt
<1> QED
  BY <1>6, <1>10, <1>11

LEMMA ParserAtQueues ==
    ASSUME Grounds, Placed, InOrder(Stream), queue_request
    PROVE  ParserAt'
<1> DEFINE p == request.id
<1>1. ParserLive /\ Stream' = Stream /\ parsed' = parsed /\ script' = script /\ Parsed' = Parsed
      /\ Units' = Units
  BY Queues, Grounded DEF Parsed
<1>2. CASE UNCHANGED <<requests, request, sent_continue>>
  <2>1. \A q : Known(q)' <=> Known(q)
    BY <1>1, <1>2, KnownSame
  <2>2. IF request.id = 0
        THEN Known(Parsed + 1)
        ELSE /\ Known(request.id) /\ Parsed = request.id /\ parsed # 0
             /\ ~request.completed => Units[parsed][2] = "head" /\ script[request.id].body
    BY <1>1 DEF Placed, ParserAt
  <2>3. CASE request.id = 0
    <3>1. Known(Parsed' + 1)
      BY <1>1, <2>2, <2>3
    <3>2. Known(Parsed + 1)'
      BY <2>1, <3>1
    <3> QED
      BY <1>2, <2>3, <3>2 DEF ParserAt
  <2>4. CASE request.id # 0
    <3>1. Known(request'.id)
      BY <1>2, <2>2, <2>4
    <3>2. Known(request.id)'
      BY <2>1, <3>1
    <3> QED
      BY <1>1, <1>2, <2>2, <2>4, <3>2 DEF ParserAt
  <2> QED
    BY <2>3, <2>4
<1>3. CASE /\ request' = NoRequest /\ p \in 1 .. Len(script) /\ Known(p) /\ Parsed = p
           /\ \/ ~Responds(p) /\ requests' = requests
              \/ Responds(p) /\ requests' = Append(requests, p)
  <2> HIDE DEF p
  <2>1. p \in Nat /\ requests \in Seq(1 .. Len(script)) /\ Len(script) \in Nat
    BY <1>3, Grounded
  <2>2. IF requests' = <<>> THEN Ready(Stream', <<p + 1, 1>>)
                            ELSE After(requests'[Len(requests')], p + 1)
    <3>1. CASE Responds(p)
      <4>1. requests' # <<>> /\ requests'[Len(requests')] = p
        <5>1. requests' = Append(requests, p)
          BY <1>3, <3>1
        <5>2. Len(Append(requests, p)) = Len(requests) + 1 /\ Len(requests) \in Nat
              /\ Append(requests, p)[Len(requests) + 1] = p
          BY <1>3, <2>1, AppendProperties, LenProperties
        <5>3. Len(requests) + 1 # 0
          BY <5>2
        <5> QED
          BY <5>1, <5>2, <5>3
      <4> QED
        BY <2>1, <4>1, AfterOne
    <3>2. CASE ~Responds(p) /\ requests = <<>>
      <4>1. Ready(Stream, <<p, 1>>)
        BY <1>3, <3>2 DEF Known
      <4> QED
        BY <1>1, <1>3, <3>2, <4>1, ReadyPast, Grounded
    <3>3. CASE ~Responds(p) /\ requests # <<>>
      <4>1. After(requests[Len(requests)], p)
        BY <1>3, <3>3 DEF Known
      <4>2. requests[Len(requests)] \in Nat
        <5>1. Len(requests) \in 1 .. Len(requests)
          BY <2>1, <3>3, EmptySeq, LenProperties
        <5>2. requests[Len(requests)] \in 1 .. Len(script)
          BY <2>1, <5>1, ElementOfSeq
        <5> QED
          BY <2>1, <5>2
      <4> QED
        BY <1>3, <2>1, <3>3, <4>1, <4>2, AfterPast
    <3> QED
      BY <3>1, <3>2, <3>3
  <2>3. Parsed' + 1 = p + 1
    BY <1>1, <1>3
  <2>4. Known(Parsed + 1)'
    BY <1>1, <2>2, <2>3, KnownPrimed
  <2>5. request'.id = 0
    BY <1>3 DEF NoRequest
  <2> QED
    BY <2>4, <2>5 DEF ParserAt
<1> QED
  BY <1>2, <1>3, Queues

LEMMA ParserAtContinues ==
    ASSUME Grounds, Placed, InOrder(Stream), send_continue(Main)
    PROVE  ParserAt'
<1> DEFINE p == request.id
<1>1. /\ Stream'[Len(Stream')] = <<p, 0>> /\ Stream' # <<>>
      /\ p \in 1 .. Len(script) /\ script[p].expect
      /\ request'.id = p /\ request'.completed = request.completed
      /\ requests' = <<>> /\ parsed' = parsed /\ ~request.completed /\ ParserLive
      /\ script' = script /\ Units' = Units /\ Parsed' = Parsed
  BY ContinueOrdered, Grounded DEF Parsed
<1>2. p # 0
  BY <1>1, Grounded
<1>3. Parsed = p /\ parsed # 0 /\ Units[parsed][2] = "head" /\ script[p].body
  BY <1>1, <1>2 DEF Placed, ParserAt
<1> HIDE DEF p
<1>4. Ready(Stream', <<p, 1>>)
  <2>1. ResponseLen(p) \in Nat /\ ResponseLen(p) > 0
    BY <1>1, Grounded, ResponsePositive
  <2>2. FollowsOnWire(<<p, 0>>, <<p, 1>>)
    BY <2>1 DEF FollowsOnWire
  <2> QED
    BY <1>1, <2>2 DEF Ready
<1>5. Known(request.id)'
  BY <1>1, <1>4, KnownPrimed
<1> QED
  BY <1>1, <1>2, <1>3, <1>5 DEF ParserAt

LEMMA ParserAtNext ==
    ASSUME Grounds, Placed, InOrder(Stream)
    PROVE  ParserAt'
<1>1. CASE parse \/ queue_request \/ send_continue(Main)
  BY <1>1, ParserAtParses, ParserAtQueues, ParserAtContinues
<1>2. CASE ~parse /\ ~queue_request /\ ~send_continue(Main)
  <2> SUFFICES ASSUME ParserLive' PROVE ParserAt'
    BY DEF ParserAt
  <2>1. ParserLive
    BY LiveBefore DEF Grounds
  <2>2. request' = request
    BY <1>2, WhoAnswers DEF Grounds, Answering
  <2>3. parsed' = parsed
    <3>1. CASE received /\ AboutToClose
      <4>1. requests_lock' = requests_lock /\ requests_lock = None /\ AboutToClose'
        BY <3>1 DEF received, shared, locks, AboutToClose
      <4> QED
        BY <4>1, ThreadKinds DEF ParserLive
    <3>2. CASE received /\ ~AboutToClose
      BY <3>2 DEF received
    <3> QED
      BY <1>2, <3>1, <3>2, WhoReadsOn DEF Grounds
  <2>4. script' = script /\ Units' = Units /\ Parsed' = Parsed
    BY <2>3, Grounded DEF Parsed
  <2>5. \A p : Known(p) => Known(p)'
    BY <1>2, KnownKept
  <2>6. IF request.id = 0
        THEN Known(Parsed + 1)
        ELSE /\ Known(request.id) /\ Parsed = request.id /\ parsed # 0
             /\ ~request.completed => Units[parsed][2] = "head" /\ script[request.id].body
    BY <2>1 DEF Placed, ParserAt
  <2>7. CASE request.id = 0
    <3>1. Known(Parsed' + 1)
      BY <2>4, <2>6, <2>7
    <3>2. Known(Parsed + 1)'
      BY <2>5, <3>1
    <3> QED
      BY <2>2, <2>7, <3>2 DEF ParserAt
  <2>8. CASE request.id # 0
    <3>1. Known(request'.id)
      BY <2>2, <2>6, <2>8
    <3>2. Known(request.id)'
      BY <2>5, <3>1
    <3> QED
      BY <2>2, <2>3, <2>4, <2>6, <2>8, <3>2 DEF ParserAt
  <2> QED
    BY <2>7, <2>8
<1> QED
  BY <1>1, <1>2

LEMMA LatchNext ==
    ASSUME Grounds, Placed, InOrder(Stream)
    PROVE  Latch'
<1>1. ASSUME pc'[Main] = "continue" PROVE ~sent_continue'
  <2>1. pc[Main] = "continue" \/ parse
    BY <1>1, ContinueFromParse DEF Grounds
  <2>2. CASE parse
    <3>1. /\ sent_continue' = sent_continue
          /\ pc' = [pc EXCEPT ![Main] = IF ContinueDue(request') THEN "continue" ELSE "queue"]
      BY <2>2, Parses DEF Grounds
    <3>2. ContinueDue(request')
      BY <1>1, <3>1, ThreadKinds DEF Grounds, IInv, Shapes
    <3> QED
      BY <3>1, <3>2 DEF ContinueDue
  <2>3. CASE pc[Main] = "continue" /\ ~parse
    <3>1. ~queue_request
      BY <2>3 DEF queue_request
    <3>2. ~send_continue(Main)
      BY <1>1, ContinueMoves, ThreadKinds DEF Grounds, IInv
    <3>3. sent_continue' = sent_continue
      BY <2>3, <3>1, <3>2, WhoAnswers DEF Grounds, Answering
    <3> QED
      BY <2>3, <3>3 DEF Placed, Latch
  <2> QED
    BY <2>1, <2>2, <2>3
<1>2. ASSUME ParserLive', requests' = <<>>, Stream' # <<>>, Stream'[Len(Stream')][2] = 0
      PROVE  sent_continue'
  <2>1. ParserLive
    BY <1>2, LiveBefore DEF Grounds
  <2>2. CASE send_continue(Main)
    BY <2>2, ContinueOrdered
  <2>3. CASE queue_request
    <3>1. Stream' = Stream
      BY <2>3, Queues
    <3>2. requests = <<>> => sent_continue
      BY <1>2, <2>1, <3>1 DEF Placed, Latch
    <3>3. CASE UNCHANGED <<requests, request, sent_continue>>
      BY <1>2, <3>2, <3>3
    <3>4. CASE /\ request.id \in 1 .. Len(script)
               /\ \/ ~Responds(request.id) /\ requests' = requests
                  \/ Responds(request.id) /\ requests' = Append(requests, request.id)
      <4>1. ~Responds(request.id) /\ requests = <<>>
        <5>1. Append(requests, request.id) # <<>>
          <6>1. Len(Append(requests, request.id)) = Len(requests) + 1 /\ Len(requests) \in Nat
            BY <3>4, Grounded, AppendProperties, LenProperties
          <6>2. Len(requests) + 1 # 0
            BY <6>1
          <6> QED
            BY <6>1, <6>2
        <5> QED
          BY <1>2, <3>4, <5>1
      <4>2. script[request.id].body
        BY <2>1, <3>2, <4>1 DEF Grounds, Answering, BodyDue
      <4>3. request.id \in DOMAIN script
        BY <3>4, Grounded, ScriptsShape, LenProperties
      <4>4. ~script[request.id].body
        BY <4>1, <4>3, Grounded, ScriptsShape DEF Responds
      <4> QED
        BY <4>2, <4>4
    <3> QED
      BY <2>3, <3>3, <3>4, Queues
  <2>4. CASE ~queue_request /\ ~send_continue(Main)
    <3>1. sent_continue' = sent_continue
      BY <2>4, WhoAnswers, Parses DEF Grounds, Answering
    <3>2. CASE requests' = requests
      <4>1. \A w \in Workers : ~put(w)
        <5> SUFFICES ASSUME NEW w \in Workers, put(w) PROVE FALSE
          OBVIOUS
        <5>1. Serving(w)
          BY DEF put, Serving
        <5> QED
          BY <1>2, <3>2, <5>1, ServesAlone
      <4>2. Stream' = Stream
        BY <2>4, <4>1, StreamStays
      <4> QED
        BY <1>2, <2>1, <3>1, <3>2, <4>2 DEF Placed, Latch
    <3>3. ASSUME NEW w \in Workers, pop_request(w) PROVE FALSE
      <4>1. /\ Stream' = Stream
            /\ Stream[Len(Stream)] = <<Head(requests), ResponseLen(Head(requests))>>
            /\ ResponseLen(Head(requests)) > 0 /\ ResponseLen(Head(requests)) \in Nat
        BY <3>3, Pops
      <4>2. ResponseLen(Head(requests)) = 0
        BY <1>2, <4>1
      <4> QED
        BY <4>1, <4>2
    <3>4. ASSUME NEW w \in Workers, drop_requests(w) PROVE FALSE
      BY <1>2, <3>4, Drops
    <3> QED
      BY <2>4, <3>2, <3>3, <3>4, WhoChangesQueue
  <2> QED
    BY <2>2, <2>3, <2>4
<1> QED
  BY <1>1, <1>2 DEF Latch

LEMMA PlacedNext ==
    ASSUME Grounds, Placed, InOrder(Stream)
    PROVE  Placed'
BY LineNext, WaitingNext, AnswersStay, ParserAtNext, LatchNext DEF Placed

\* What the client has been sent is the beginning of the stream.
LEMMA StreamBegins ==
    ASSUME IInv, FInv, Typed, WorkingAll, BuffersOpen, WireTyped, connected
    PROVE  \E x \in Seq(Token) : Stream = wire \o x
<1>1. outbufs \in Seq(Buffer) /\ 1 \in 1 .. Len(outbufs)
  BY BufferedTyped DEF Typed, BuffersTyped
<1>2. PICK y \in Seq(Token) : outbufs[1].data \in Seq(Token) /\ Held(outbufs) = outbufs[1].data \o y
  BY <1>1, HeldFirst
<1> DEFINE d == outbufs[1].data
<1>3. Unskipped \in 0 .. Len(d)
  <2>1. CASE \A t \in Threads : pc[t] # "skip"
    <3>1. Unskipped = 0
      BY <2>1 DEF Unskipped, Skipping
    <3> QED
      BY <1>2, <3>1, LenProperties
  <2>2. CASE \E t \in Threads : pc[t] = "skip"
    <3>1. PICK t \in Threads : pc[t] = "skip"
      BY <2>2
    <3>2. flush[t].num \in 1 .. flush[t].len /\ flush[t].len = Len(d)
      BY <3>1 DEF WorkingAll, Working
    <3>3. Unskipped = flush[t].num
      BY <3>1, SkippingOne
    <3> QED
      BY <3>2, <3>3
  <2> QED
    BY <2>1, <2>2
<1> DEFINE n == Unskipped
<1> HIDE DEF d, n
<1>4. d \in Seq(Token) /\ Held(outbufs) = d \o y /\ n \in 0 .. Len(d)
  BY <1>2, <1>3 DEF d, n
<1>5. SubSeq(d \o y, n + 1, Len(d \o y)) = SubSeq(d, n + 1, Len(d)) \o y
  BY <1>4, RestOfConcat
<1>6. SubSeq(d, n + 1, Len(d)) \in Seq(Token)
  BY <1>4, SplitAt
<1>7. Stream = wire \o (SubSeq(d, n + 1, Len(d)) \o y)
  BY <1>4, <1>5 DEF Stream, StreamOf, n
<1>8. SubSeq(d, n + 1, Len(d)) \o y \in Seq(Token)
  BY <1>6, ConcatProperties
<1> QED
  BY <1>7, <1>8

\* On a connected channel all that was written is in order, on a closed one what
\* was sent is.
Ordered ==
    /\ WireTyped
    /\ IF connected THEN Placed /\ InOrder(Stream) ELSE InOrder(wire)

LEMMA OrderedNow ==
    ASSUME IInv, FInv, Typed, WorkingAll, BuffersOpen, Ordered
    PROVE  InOrder(wire)
<1>1. CASE ~connected
  BY <1>1 DEF Ordered
<1>2. CASE connected
  BY <1>2, StreamBegins, OrderPrefix DEF Ordered, WireTyped
<1> QED
  BY <1>1, <1>2

LEMMA OrderedNext ==
    ASSUME IInv, FInv, Typed, ContinuesInTime, ContinuesInTime', [Next]_vars,
           WorkingAll, BuffersOpen, ToWrite, ContinueAlone, Dropping, Answering,
           SockFollows, FlushesConnected, Ordered
    PROVE  Ordered'
<1>1. connected \in BOOLEAN /\ connected' \in {connected, FALSE} /\ script' = script
  BY NeverReconnected, ScriptStays DEF Typed, FlagsTyped
<1>2. CASE connected /\ connected'
  <2>1. Grounds
    BY <1>2 DEF Grounds, Ordered
  <2>2. Placed' /\ InOrder(Stream)' /\ WireTyped'
    BY <1>2, <2>1, PlacedNext, OrderNext, Streams DEF Ordered
  <2> QED
    BY <1>2, <2>2 DEF Ordered
<1>3. CASE ~connected'
  <2>1. wire' = wire
    <3>1. CASE connected
      <4>1. handle_close(Main) \/ shutdown
        BY <1>3, <3>1, WhoCloses DEF dispatcher_close, shared
      <4> QED
        BY <4>1 DEF handle_close, shutdown
    <3>2. CASE ~connected
      BY <3>2, WireKept
    <3> QED
      BY <3>1, <3>2
  <2>2. InOrder(wire')
    BY <2>1, OrderedNow
  <2>3. InOrder(wire)'
    BY <1>1, <2>2, SameScript
  <2>4. WireTyped'
    BY <2>1 DEF Ordered, WireTyped
  <2> QED
    BY <1>3, <2>3, <2>4 DEF Ordered
<1>4. (connected /\ connected') \/ ~connected'
  BY <1>1
<1> QED
  BY <1>2, <1>3, <1>4

LEMMA OrderedInit == Init => Ordered
<1> SUFFICES ASSUME Init PROVE Ordered
  OBVIOUS
<1>1. /\ requests = <<>> /\ request.id = 0 /\ connected = TRUE /\ parsed = 0 /\ wire = <<>>
      /\ outbufs = <<NewBuffer>>
      /\ pc = [t \in Threads |-> IF t = Main THEN "poll" ELSE "idle"]
  BY DEF Init, NoRequest
<1>2. Main \in Threads /\ \A w \in Workers : w \in Threads /\ w # Main
  BY ThreadKinds
<1>3. pc[Main] = "poll" /\ \A w \in Workers : ~Serving(w)
  BY <1>1, <1>2 DEF Serving
<1>4. Stream = <<>>
  <2>1. Skipping = {}
    BY <1>1 DEF Skipping
  <2>2. Unskipped = 0
    BY <2>1 DEF Unskipped
  <2>3. Held(outbufs) = <<>>
    <3>1. Held(<<NewBuffer>>) = NewBuffer.data
      BY NewBufferTyped, HeldOne
    <3>2. NewBuffer.data = <<>>
      BY DEF NewBuffer
    <3> QED
      BY <1>1, <3>1, <3>2
  <2> QED
    BY <1>1, <2>2, <2>3 DEF Stream, StreamOf
<1>5. InOrder(<<>>)
  BY DEF InOrder, Chained
<1>6. Known(1)
  BY <1>1, <1>4 DEF Known, Ready
<1>7. Line
  BY <1>1 DEF Line, InLine
<1>8. ParserAt
  BY <1>1, <1>6 DEF ParserAt, Parsed
<1>9. Placed
  BY <1>1, <1>3, <1>4, <1>7, <1>8 DEF Placed, Waiting, AnswersAll, Latch
<1> QED
  BY <1>1, <1>4, <1>5, <1>9 DEF Ordered, WireTyped

\* ResponsesInOrder, of _flush_some, write_soon, send_continue and service(): whichever
\* threads flush, the client is sent the responses whole and in the order of its
\* requests, each with its 100 Continue directly before it.
THEOREM ClientSeesOrder ==
    Spec /\ []ContinuesInTime /\ []NoLateFlush => []ResponsesInOrder
<1> DEFINE OInv == /\ WorkingAll /\ BuffersOpen /\ SockFollows /\ ToWrite /\ ContinueAlone
                   /\ Dropping /\ Answering /\ NothingHeld /\ FlushesConnected /\ Ordered
<1>1. Init => OInv
  BY WorkingInit, SockInit, ToWriteInit, AloneInit, DroppingInit, AnswersInit, HeldInit,
     FlushesConnectedInit, OrderedInit DEF WorkingAll
<1>2. IInv /\ FInv /\ Typed /\ OInv /\ ContinuesInTime /\ ContinuesInTime' /\ NoLateFlush
          /\ [Next]_vars => OInv'
  <2> SUFFICES ASSUME IInv, FInv, Typed, OInv, ContinuesInTime, ContinuesInTime', NoLateFlush,
                      [Next]_vars
               PROVE  OInv'
    OBVIOUS
  <2>1. WorkingAll'
    BY WorkingNext DEF WorkingAll
  <2>2. BuffersOpen' /\ SockFollows' /\ ToWrite' /\ ContinueAlone'
    BY OpenNext, SockNext, ToWriteNext, AloneNext
  <2>3. Dropping' /\ Answering' /\ NothingHeld' /\ FlushesConnected'
    BY DroppingNext, AnswersNext, NothingHeldNext, FlushesConnectedNext
  <2>4. Ordered'
    BY OrderedNext
  <2> QED
    BY <2>1, <2>2, <2>3, <2>4
<1>3. IInv /\ FInv /\ Typed /\ OInv => ResponsesInOrder
  BY OrderedNow, OrderOnWire DEF Ordered, WireTyped
<1> HIDE DEF OInv
<1> QED
  BY <1>1, <1>2, <1>3, InvAlways, FInvAlways, TypedAlways, PTL DEF Spec

=============================================================================
