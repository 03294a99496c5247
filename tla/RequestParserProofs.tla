-------------------------- MODULE RequestParserProofs --------------------------
(****************************************************************************)
(* Proofs about RequestParser, for any streams and limits: the loops of     *)
(* received() make progress, whatever arrives and however it is cut, and    *)
(* what comes out does not depend on how it is cut.                         *)
(****************************************************************************)
EXTENDS RequestParser, SequenceTheorems, FiniteSetTheorems, WellFoundedInduction, TLAPS

Outcomes == [ok : BOOLEAN, body : Seq(Token)]

Typed ==
    /\ stream \in Seq(Token) /\ fed \in 0 .. Len(stream)
    /\ pc \in {"idle", "call", "chunks", "body", "returned"}
    /\ data \in Seq(Token) /\ s \in Seq(Token) /\ n \in Nat /\ rounds \in Nat
    /\ requests \in Seq(Outcomes) /\ served \in 0 .. Len(requests)
    /\ sent_continue \in BOOLEAN

RequestFields ==
    {"plus", "hbytes", "bbytes", "kind", "headers", "finished", "expect", "empty",
     "error", "completed"}
ReceiverFields ==
    {"remain", "validate", "end", "line", "all", "trailer", "buf", "error", "completed"}

\* What the parser keeps for the next segment is unfinished.
RequestKept(q) ==
    /\ DOMAIN q = RequestFields
    /\ q.kind \in {"none", "fixed", "chunked", "big"}
    /\ q.hbytes \in Nat /\ q.bbytes \in Nat
    /\ q.plus \in Seq(Token) /\ Find(q.plus, CRLF \o CRLF) = 0

\* And what a receiver keeps; after the last chunk there is only the trailer.
ReceiverKept(r) ==
    /\ DOMAIN r = ReceiverFields
    /\ r.remain \in Nat
    /\ r.end \in Seq(Token) /\ Len(r.end) =< 1
    /\ r.line \in Seq(Token) /\ Find(r.line, CRLF) = 0
    /\ r.trailer \in Seq(Token) /\ Find(r.trailer, CRLF \o CRLF) = 0
    /\ ~IsPrefix(CRLF, r.trailer)
    /\ r.buf \in Seq(Token)
    /\ r.all => r.remain = 0 /\ ~r.validate
    /\ ~r.all => r.trailer = <<>>

\* What is left to do in ChunkedReceiver.received.  After an error in the line end
\* of a chunk, the byte that was kept of it comes back.
LoopEnds(r, rest, rnds) ==
    IF rest = <<>> THEN rnds =< Len(data) + 1
    ELSE IF r.all
         THEN rnds =< Len(data)
              /\ Len(rest) =< Len(data) + (IF r.trailer = <<>> THEN 1 ELSE 0)
         ELSE rnds + Len(rest) =< Len(data)

ContinueNow == WantsContinue /\ Idle

\* A body that is being read has bytes to come, and is not finished by a continue.
Expecting ==
    /\ pc # "idle" => data # <<>>
    /\ pc \in {"body", "returned"} => n \in 1 .. Len(data)
    /\ pc # "returned" => ~ContinueNow
    /\ request.kind \in {"fixed", "big"} =>
          /\ pc \in {"idle", "call"} => rcv.remain > 0
          /\ pc = "body" => rcv.remain > 0 \/ rcv.completed
          /\ pc = "returned" => rcv.remain > 0 \/ (request.completed /\ ~ContinueNow)
          /\ pc # "chunks"

IInv ==
    /\ Typed
    /\ RequestKept(request)
    /\ ReceiverKept(rcv)
    /\ rounds =< Len(data) + 1
    /\ pc \in {"idle", "call"} => rounds = 0
    /\ pc = "chunks" => LoopEnds(rcv, s, rounds)
    /\ Expecting

----------------------------------------------------------------------------
(* Numbers *)

\* The intervals from 0 to the elements of T are finite subsets of Nat, and one of
\* them has no other of them in it.
LEMMA LeastOf ==
    ASSUME NEW T \in SUBSET Nat, T # {}
    PROVE  \E x \in T : \A y \in T : x =< y
<1> DEFINE U == {0 .. x : x \in T}
<1>1. U \subseteq FiniteSubsetsOf(Nat) /\ U # {}
  <2>1. \A x \in T : 0 .. x \in SUBSET Nat /\ IsFiniteSet(0 .. x)
    <3> TAKE x \in T
    <3>1. 0 \in Int /\ x \in Int
      OBVIOUS
    <3> QED
      BY <3>1, FS_Interval
  <2>2. \A v \in U : v \in FiniteSubsetsOf(Nat)
    BY <2>1 DEF FiniteSubsetsOf
  <2>3. PICK x \in T : TRUE
    OBVIOUS
  <2>4. 0 .. x \in U
    OBVIOUS
  <2> QED
    BY <2>2, <2>4
<1> HIDE DEF U
<1>2. PICK u \in U : \A v \in U : <<v, u>> \notin StrictSubsetOrdering(Nat)
  BY <1>1, FS_StrictSubsetOrderingWellFounded, WFMin
<1>3. PICK x \in T : u = 0 .. x
  BY DEF U
<1>4. ASSUME NEW y \in T, y < x
      PROVE  FALSE
  <2>1. 0 .. y \in U
    BY DEF U
  <2>2. 0 .. y \subseteq 0 .. x /\ x \in 0 .. x /\ x \notin 0 .. y
    BY <1>4
  <2>3. <<0 .. y, 0 .. x>> \in StrictSubsetOrdering(Nat)
    BY <2>2 DEF StrictSubsetOrdering
  <2> QED
    BY <1>2, <1>3, <2>1, <2>3
<1> QED
  BY <1>4

\* The values of the first i hexadecimal digits of d, for each i up to k.
IsValue(f, d, k) ==
    f = [i \in 0 .. k |->
            IF i = 0 THEN 0 ELSE 16 * f[i - 1] + (IF d[i] = "2" THEN 2 ELSE 0)]

\* They exist: otherwise there would be a least k for which they do not.
LEMMA ValueExists ==
    ASSUME NEW d, NEW k \in Nat
    PROVE  \E f \in [0 .. k -> Nat] : IsValue(f, d, k)
<1> DEFINE T == {j \in Nat : ~\E f \in [0 .. j -> Nat] : IsValue(f, d, j)}
<1>1. SUFFICES ASSUME T # {}
               PROVE  FALSE
  BY <1>1
<1>2. PICK j \in T : \A y \in T : j =< y
  BY <1>1, LeastOf
<1>3. CASE j = 0
  <2> DEFINE f == [i \in 0 .. 0 |-> 0]
  <2>1. f \in [0 .. 0 -> Nat] /\ IsValue(f, d, 0)
    BY DEF IsValue
  <2> QED
    BY <1>3, <2>1
<1>4. CASE j # 0
  <2>1. j \in Nat /\ j - 1 \in Nat /\ ~(j =< j - 1)
    BY <1>2, <1>4
  <2>2. PICK g \in [0 .. j - 1 -> Nat] : IsValue(g, d, j - 1)
    BY <1>2, <2>1
  <2> DEFINE f == [i \in 0 .. j |->
                     IF i < j THEN g[i] ELSE 16 * g[j - 1] + (IF d[j] = "2" THEN 2 ELSE 0)]
  <2>3. f \in [0 .. j -> Nat]
    BY <2>1
  <2>4. \A i \in 0 .. j : f[i] = IF i = 0 THEN 0
                               ELSE 16 * f[i - 1] + (IF d[i] = "2" THEN 2 ELSE 0)
    BY <1>4, <2>1, <2>2 DEF IsValue
  <2>5. IsValue(f, d, j)
    BY <2>3, <2>4 DEF IsValue
  <2> QED
    BY <2>3, <2>5
<1> QED
  BY <1>3, <1>4

\* There is only one such function, hence its values are numbers.
LEMMA ValueTyped ==
    ASSUME NEW d, NEW k \in Nat, NEW f, IsValue(f, d, k)
    PROVE  f[k] \in Nat
<1> DEFINE T == {i \in 0 .. k : f[i] \notin Nat}
<1>1. SUFFICES ASSUME T # {}
               PROVE  FALSE
  BY <1>1
<1>2. PICK i \in T : \A j \in T : i =< j
  <2>1. T \in SUBSET Nat
    OBVIOUS
  <2> QED
    BY <1>1, <2>1, LeastOf
<1>3. f[i] = IF i = 0 THEN 0 ELSE 16 * f[i - 1] + (IF d[i] = "2" THEN 2 ELSE 0)
  BY DEF IsValue
<1>4. CASE i = 0
  BY <1>3, <1>4
<1>5. CASE i # 0
  <2>1. f[i - 1] \in Nat
    BY <1>2, <1>5
  <2> QED
    BY <1>3, <1>5, <2>1
<1> QED
  BY <1>4, <1>5

\* int(line, 16) is a number, for every line.
LEMMA SizeIsANumber ==
    ASSUME NEW line \in Seq(Token)
    PROVE  Size(line) \in Nat
<1> DEFINE d == BeforeFinalLF(line)
<1>1. Len(d) \in Nat
  <2>1. Front(line) = SubSeq(line, 1, Len(line) - 1)
    BY DEF Front
  <2> QED
    BY <2>1, LenProperties, SubSeqProperties, ElementOfSeq DEF BeforeFinalLF
<1>2. \E f : IsValue(f, d, Len(d))
  BY <1>1, ValueExists
<1>3. IsValue(CHOOSE f : IsValue(f, d, Len(d)), d, Len(d))
  BY <1>2
<1>4. Size(line) = (CHOOSE f : IsValue(f, d, Len(d)))[Len(d)]
  BY DEF Size, IsValue
<1> HIDE DEF d
<1> QED
  BY <1>1, <1>3, <1>4, ValueTyped

----------------------------------------------------------------------------
(* Finding a pattern *)

LEMMA FindFacts ==
    ASSUME NEW a \in Seq(Token), NEW p \in Seq(Token)
    PROVE  /\ Find(a, p) \in Nat
           /\ Find(a, p) = 0 =>
                 \A i \in 1 .. Len(a) - Len(p) + 1 : SubSeq(a, i, i + Len(p) - 1) # p
           /\ Find(a, p) # 0 =>
                 /\ Find(a, p) \in 1 .. Len(a) - Len(p) + 1
                 /\ SubSeq(a, Find(a, p), Find(a, p) + Len(p) - 1) = p
<1> DEFINE hits == {i \in 1 .. Len(a) - Len(p) + 1 : SubSeq(a, i, i + Len(p) - 1) = p}
<1>1. Len(a) \in Nat /\ Len(p) \in Nat
  BY LenProperties
<1>2. CASE hits = {}
  <2>1. Find(a, p) = 0
    BY <1>2 DEF Find
  <2>2. \A i \in 1 .. Len(a) - Len(p) + 1 : SubSeq(a, i, i + Len(p) - 1) # p
    BY <1>2
  <2>3. Find(a, p) \in Nat
    BY <2>1
  <2> HIDE DEF hits
  <2> QED
    BY <2>1, <2>2, <2>3
<1>3. CASE hits # {}
  <2>1. hits \in SUBSET Nat
    BY <1>1
  <2>2. \E x \in hits : \A y \in hits : x =< y
    BY <1>3, <2>1, LeastOf
  <2>3. Min(hits) \in hits
    <3> HIDE DEF hits
    <3> QED
      BY <2>2 DEF Min
  <2>4. Find(a, p) = Min(hits)
    BY <1>3 DEF Find
  <2>5. Find(a, p) \in hits
    BY <2>3, <2>4
  <2>6. Find(a, p) \in Nat /\ Find(a, p) # 0
    BY <1>1, <2>5
  <2> HIDE DEF hits
  <2> QED
    BY <2>5, <2>6 DEF hits
<1> QED
  BY <1>2, <1>3

\* What is not in a, and is found in a and b together, ends in b.
LEMMA FoundBeyond ==
    ASSUME NEW a \in Seq(Token), NEW b \in Seq(Token), NEW p \in Seq(Token),
           Len(p) > 0, Find(a, p) = 0, Find(a \o b, p) # 0
    PROVE  /\ Find(a \o b, p) + Len(p) - 1 > Len(a)
           /\ Find(a \o b, p) + Len(p) - 1 =< Len(a) + Len(b)
<1> DEFINE c == a \o b
           i == Find(c, p)
           j == i + Len(p) - 1
<1>1. Len(a) \in Nat /\ Len(b) \in Nat /\ Len(p) \in Nat
  BY LenProperties
<1>2. c \in Seq(Token) /\ Len(c) = Len(a) + Len(b)
  BY ConcatProperties
<1>3. i \in 1 .. Len(c) - Len(p) + 1 /\ SubSeq(c, i, j) = p
  BY <1>2, FindFacts
<1>4. ASSUME j =< Len(a)
      PROVE  FALSE
  <2>1. i \in 1 .. Len(a) /\ j \in 1 .. Len(a) /\ i \in 1 .. Len(a) - Len(p) + 1
    BY <1>1, <1>2, <1>3, <1>4
  <2>2. SubSeq(c, i, j) = SubSeq(a, i, j)
    BY <2>1, SubSeqOfConcat1
  <2>3. \A k \in 1 .. Len(a) - Len(p) + 1 : SubSeq(a, k, k + Len(p) - 1) # p
    BY FindFacts
  <2> HIDE DEF i, c
  <2> QED
    BY <1>3, <2>1, <2>2, <2>3
<1> HIDE DEF c, i
<1>5. i + Len(p) - 1 > Len(a) /\ i + Len(p) - 1 =< Len(a) + Len(b)
  BY <1>1, <1>2, <1>3, <1>4
<1> QED
  BY <1>5 DEF i, c

LEMMA NothingIsThere ==
    ASSUME NEW a \in Seq(Token), NEW p \in Seq(Token), Len(a) = 0, Len(p) > 0
    PROVE  Find(a, p) = 0
<1>1. Find(a, p) # 0 => Find(a, p) \in 1 .. Len(a) - Len(p) + 1
  BY FindFacts
<1> QED
  BY <1>1, LenProperties

LEMMA Patterns ==
    /\ CRLF \in Seq(Token) /\ Len(CRLF) = 2
    /\ CRLF \o CRLF \in Seq(Token) /\ Len(CRLF \o CRLF) = 4
    /\ <<>> \in Seq(Token)
    /\ Find(<<>>, CRLF) = 0 /\ Find(<<>>, CRLF \o CRLF) = 0
    /\ ~IsPrefix(CRLF, <<>>)
<1>1. {"CR", "LF"} \subseteq Token
  BY DEF Token
<1>2. CRLF \in Seq(Token) /\ Len(CRLF) = 2
  BY <1>1 DEF CRLF
<1>3. CRLF \o CRLF \in Seq(Token) /\ Len(CRLF \o CRLF) = 4
  <2> DEFINE e == CRLF
  <2>1. e \in Seq(Token) /\ Len(e) = 2
    BY <1>2
  <2> HIDE DEF e
  <2>2. e \o e \in Seq(Token) /\ Len(e \o e) = Len(e) + Len(e)
    BY <2>1, ConcatProperties
  <2> QED
    BY <2>1, <2>2 DEF e
<1>4. <<>> \in Seq(Token) /\ Len(<<>>) = 0
  BY EmptySeq
<1> DEFINE e == <<>>
           two == CRLF \o CRLF
<1>5. Find(e, CRLF) = 0
  <2>1. e \in Seq(Token) /\ Len(e) = 0 /\ Len(CRLF) > 0
    BY <1>2, <1>4
  <2> HIDE DEF e
  <2> QED
    BY <1>2, <2>1, NothingIsThere
<1>6. Find(e, two) = 0
  <2>1. two \in Seq(Token) /\ Len(two) > 0 /\ e \in Seq(Token) /\ Len(e) = 0
    BY <1>3, <1>4
  <2> HIDE DEF e, two
  <2> QED
    BY <2>1, NothingIsThere
<1>7. ~IsPrefix(CRLF, <<>>)
  BY <1>2, <1>4 DEF IsPrefix
<1> QED
  BY <1>2, <1>3, <1>4, <1>5, <1>6, <1>7

LEMMA DoubleNewlineIs ==
    ASSUME NEW a \in Seq(Token)
    PROVE  /\ DoubleNewline(a) \in Nat
           /\ DoubleNewline(a) = 0 <=> Find(a, CRLF \o CRLF) = 0
           /\ DoubleNewline(a) # 0 => DoubleNewline(a) = Find(a, CRLF \o CRLF) + 3
<1>1. Find(a, CRLF \o CRLF) \in Nat
  BY FindFacts, Patterns
<1> QED
  BY <1>1 DEF DoubleNewline

\* What From and Upto leave.
LEMMA Cut ==
    ASSUME NEW a \in Seq(Token), NEW i \in 1 .. Len(a) + 1
    PROVE  /\ From(a, i) \in Seq(Token) /\ Len(From(a, i)) = Len(a) + 1 - i
           /\ Upto(a, i - 1) \in Seq(Token) /\ Len(Upto(a, i - 1)) = i - 1
<1>1. Len(a) \in Nat /\ \A k \in 1 .. Len(a) : a[k] \in Token
  BY LenProperties, ElementOfSeq
<1>2. From(a, i) \in Seq(Token) /\ Len(From(a, i)) = Len(a) + 1 - i
  <2>1. \A k \in i .. Len(a) : a[k] \in Token
    BY <1>1
  <2> QED
    BY <1>1, <2>1, SubSeqProperties DEF From
<1>3. Upto(a, i - 1) \in Seq(Token) /\ Len(Upto(a, i - 1)) = i - 1
  <2>1. \A k \in 1 .. i - 1 : a[k] \in Token
    BY <1>1
  <2> QED
    BY <1>1, <2>1, SubSeqProperties DEF Upto
<1> QED
  BY <1>2, <1>3

\* A line, and the part of it that is the size, are sequences of tokens.
LEMMA LineTyped ==
    ASSUME NEW a \in Seq(Token), NEW i \in 1 .. Len(a)
    PROVE  Size(SizePart(Upto(a, i - 1))) \in Nat
<1> DEFINE l == Upto(a, i - 1)
<1>1. l \in Seq(Token)
  BY Cut, LenProperties
<1>2. SizePart(l) \in Seq(Token)
  <2>1. ";" \in Token
    BY DEF Token
  <2> DEFINE p == <<";">>
  <2>2. p \in Seq(Token) /\ Len(p) = 1
    <3>1. ASSUME NEW c \in Token
          PROVE  <<c>> \in Seq(Token) /\ Len(<<c>>) = 1
      OBVIOUS
    <3> QED
      BY <2>1, <3>1
  <2> HIDE DEF l, p
  <2>3. Find(l, p) \in Nat /\ Len(l) \in Nat
        /\ (Find(l, p) # 0 => Find(l, p) \in 1 .. Len(l) - Len(p) + 1)
    BY <1>1, <2>2, FindFacts, LenProperties
  <2>4. ASSUME Find(l, p) # 0
        PROVE  Upto(l, Find(l, p) - 1) \in Seq(Token)
    <3>1. Find(l, p) \in 1 .. Len(l) + 1
      BY <2>2, <2>3, <2>4
    <3> QED
      BY <1>1, <3>1, Cut
  <2> QED
    BY <1>1, <2>4 DEF SizePart, p
<1> QED
  BY <1>2, SizeIsANumber

----------------------------------------------------------------------------
(* The invariant *)

LEMMA NewOnesKept ==
    /\ RequestKept(NewRequest)
    /\ \A k \in Nat : ReceiverKept(NewReceiver(k))
<1>1. RequestKept(NewRequest)
  BY Patterns DEF RequestKept, NewRequest, RequestFields
<1>2. ASSUME NEW k \in Nat
      PROVE  ReceiverKept(NewReceiver(k))
  <2>1. Len(<<>>) = 0
    OBVIOUS
  <2> QED
    BY <2>1, Patterns DEF ReceiverKept, NewReceiver, ReceiverFields
<1> QED
  BY <1>1, <1>2

LEMMA Initially == Init => IInv
<1> SUFFICES ASSUME Init
             PROVE  IInv
  OBVIOUS
<1>1. stream \in Seq(Token) /\ Len(stream) \in Nat
  BY StreamsOfTokens, LenProperties DEF Init
<1>2. Len(<<>>) = 0 /\ <<>> \in Seq(Token) /\ <<>> \in Seq(Outcomes)
  BY EmptySeq
<1>3. Typed
  <2>1. fed \in 0 .. Len(stream) /\ n \in Nat /\ rounds \in Nat
    BY <1>1 DEF Init
  <2>2. Len(requests) = 0 /\ served = 0
    BY <1>2 DEF Init
  <2>3. served \in 0 .. Len(requests)
    BY <2>2
  <2>4. data \in Seq(Token) /\ s \in Seq(Token) /\ requests \in Seq(Outcomes)
    BY <1>2 DEF Init
  <2> QED
    BY <1>1, <2>1, <2>3, <2>4 DEF Init, Typed
<1>4. RequestKept(request) /\ ReceiverKept(rcv)
  BY NewOnesKept DEF Init
<1>5. Expecting
  BY DEF Init, Expecting, ContinueNow, WantsContinue, NewRequest
<1> QED
  BY <1>2, <1>3, <1>4, <1>5 DEF IInv, Init

LEMMA Unchanged == IInv /\ UNCHANGED vars => IInv'
BY DEF IInv, vars, channel_vars, loop_vars, Typed, LoopEnds, Expecting, ContinueNow,
       WantsContinue, Idle

LEMMA ReadKeeps ==
    ASSUME IInv, handle_read
    PROVE  IInv'
<1>1. PICK k \in 1 .. Len(stream) - fed :
          data' = SubSeq(stream, fed + 1, fed + k) /\ fed' = fed + k
  BY DEF handle_read
<1>2. /\ stream \in Seq(Token) /\ Len(stream) \in Nat /\ fed \in 0 .. Len(stream)
      /\ data \in Seq(Token) /\ Len(data) \in Nat
  BY LenProperties DEF IInv, Typed
<1>3. \A i \in fed + 1 .. fed + k : stream[i] \in Token
  BY <1>1, <1>2, ElementOfSeq
<1>4. data' \in Seq(Token) /\ Len(data') = k
  BY <1>1, <1>2, <1>3, SubSeqProperties
<1>5. data' # <<>>
  BY <1>4, EmptySeq
<1>6. Typed'
  BY <1>1, <1>2, <1>4 DEF handle_read, loop_vars, IInv, Typed
<1>7. Expecting'
  BY <1>5 DEF handle_read, IInv, Expecting, ContinueNow, WantsContinue, Idle
<1>8. rounds' = 0
  BY DEF handle_read, loop_vars, IInv
<1> QED
  BY <1>4, <1>6, <1>7, <1>8 DEF handle_read, IInv

----------------------------------------------------------------------------
(* The header *)

LEMMA HeaderFacts ==
    ASSUME IInv, InHeader
    PROVE  /\ Header \in Seq(Token) /\ HeaderEnd \in Nat /\ HeaderBytes \in Nat
           /\ HeaderEnd = 0 <=> Find(Header, CRLF \o CRLF) = 0
           /\ UsedByHeader \in 1 .. Len(data)
<1>1. /\ request.plus \in Seq(Token) /\ Len(request.plus) \in Nat
      /\ data \in Seq(Token) /\ Len(data) \in Nat /\ data # <<>>
      /\ Find(request.plus, CRLF \o CRLF) = 0 /\ request.hbytes \in Nat
  BY LenProperties DEF IInv, Typed, RequestKept, Expecting, InHeader
<1>2. Len(data) > 0
  BY <1>1, EmptySeq
<1>3. Header \in Seq(Token) /\ Len(Header) = Len(request.plus) + Len(data)
  BY <1>1, ConcatProperties DEF Header
<1>4. /\ HeaderEnd \in Nat
      /\ HeaderEnd = 0 <=> Find(Header, CRLF \o CRLF) = 0
      /\ HeaderEnd # 0 => HeaderEnd = Find(Header, CRLF \o CRLF) + 3
  BY <1>3, DoubleNewlineIs DEF HeaderEnd
<1>5. HeaderBytes \in Nat
  BY <1>1, <1>4 DEF HeaderBytes
<1>6. ASSUME HeaderEnd # 0
      PROVE  HeaderEnd > Len(request.plus) /\ HeaderEnd =< Len(request.plus) + Len(data)
  <2> DEFINE four == CRLF \o CRLF
  <2>1. four \in Seq(Token) /\ Len(four) = 4 /\ Len(four) > 0
    BY Patterns
  <2>2. Find(request.plus \o data, four) # 0 /\ Find(request.plus, four) = 0
    BY <1>1, <1>4, <1>6 DEF Header
  <2> DEFINE i == Find(request.plus \o data, four)
  <2>3. i + 3 = HeaderEnd
    BY <1>4, <1>6 DEF Header
  <2> HIDE DEF four
  <2>4. i + Len(four) - 1 > Len(request.plus) /\ i + Len(four) - 1 =< Len(request.plus) + Len(data)
    BY <1>1, <2>1, <2>2, FoundBeyond
  <2>5. i \in Nat
    BY <1>3, <2>1, FindFacts DEF Header
  <2> HIDE DEF i
  <2> QED
    BY <1>1, <2>1, <2>3, <2>4, <2>5
<1>7. UsedByHeader \in 1 .. Len(data)
  BY <1>1, <1>2, <1>4, <1>6 DEF UsedByHeader
<1> QED
  BY <1>3, <1>4, <1>5, <1>7

LEMMA HeaderReturns ==
    ASSUME IInv, InHeader, NEW r, NEW used, ParsedTo(r, used), used \in 1 .. Len(data),
           RequestKept(r), ReceiverKept(rcv'),
           r.kind \in {"fixed", "big"} => rcv'.remain > 0
    PROVE  IInv'
<1>1. data \in Seq(Token) /\ Len(data) \in Nat
  BY LenProperties DEF IInv, Typed
<1>2. Typed'
  BY <1>1 DEF ParsedTo, channel_vars, loop_vars, IInv, Typed
<1>3. Expecting'
  BY DEF InHeader, ParsedTo, channel_vars, loop_vars, IInv, Expecting
<1>4. rounds' =< Len(data') + 1
  BY <1>1 DEF InHeader, ParsedTo, channel_vars, loop_vars, IInv
<1> QED
  BY <1>2, <1>3, <1>4 DEF ParsedTo, IInv

LEMMA HeaderKeeps ==
    ASSUME IInv, header_too_large \/ header_unfinished \/ header_blank \/ parse_header
    PROVE  IInv'
<1>1. RequestKept(request) /\ ReceiverKept(rcv)
  BY DEF IInv
<1>2. CASE header_too_large
  <2> DEFINE r == [request EXCEPT !.hbytes = HeaderBytes, !.error = TRUE, !.completed = TRUE]
  <2>1. InHeader /\ ParsedTo(r, UsedByHeader) /\ rcv' = rcv
    BY <1>2 DEF header_too_large
  <2>2. RequestKept(r) /\ r.kind = "none"
    BY <1>1, <2>1, HeaderFacts DEF RequestKept, RequestFields, InHeader
  <2> HIDE DEF r
  <2> QED
    BY <1>1, <2>1, <2>2, HeaderFacts, HeaderReturns
<1>3. CASE header_unfinished
  <2> DEFINE r == [request EXCEPT !.hbytes = HeaderBytes, !.plus = Header]
  <2>1. InHeader /\ ParsedTo(r, Len(data)) /\ rcv' = rcv /\ HeaderEnd = 0
    BY <1>3 DEF header_unfinished
  <2>2. RequestKept(r) /\ r.kind = "none"
    BY <1>1, <2>1, HeaderFacts DEF RequestKept, RequestFields, InHeader
  <2>3. Len(data) \in 1 .. Len(data)
    BY <2>1, HeaderFacts DEF UsedByHeader
  <2> HIDE DEF r
  <2> QED
    BY <1>1, <2>1, <2>2, <2>3, HeaderReturns
<1>4. CASE header_blank
  <2> DEFINE r == [request EXCEPT !.hbytes = HeaderBytes, !.finished = TRUE,
                                  !.empty = TRUE, !.completed = TRUE]
  <2>1. InHeader /\ ParsedTo(r, UsedByHeader) /\ rcv' = rcv
    BY <1>4 DEF header_blank, HeaderComplete
  <2>2. RequestKept(r) /\ r.kind = "none"
    BY <1>1, <2>1, HeaderFacts DEF RequestKept, RequestFields, InHeader
  <2> HIDE DEF r
  <2> QED
    BY <1>1, <2>1, <2>2, HeaderFacts, HeaderReturns
<1>5. CASE parse_header
  <2> DEFINE h == ParsedHeader(HeaderText, request.headers)
             r == [request EXCEPT
                       !.hbytes = HeaderBytes, !.finished = TRUE,
                       !.headers = h.kept, !.expect = h.expect,
                       !.kind = IF h.ok THEN h.kind ELSE "none",
                       !.error = @ \/ ~h.ok \/ h.kind = "big",
                       !.completed = ~h.ok \/ h.kind \in {"none", "big"}]
             left == CASE h.kind = "fixed" -> BodyLength
                       [] h.kind = "big" -> BigLength
                       [] OTHER -> 0
  <2>1. InHeader /\ ParsedTo(r, UsedByHeader) /\ rcv' = NewReceiver(left)
    BY <1>5 DEF parse_header, HeaderComplete
  <2>2. h.kind \in {"none", "fixed", "chunked", "big"}
    BY DEF ParsedHeader
  <2> HIDE DEF h
  <2>3. RequestKept(r) /\ r.kind = IF h.ok THEN h.kind ELSE "none"
    BY <1>1, <2>1, <2>2, HeaderFacts DEF RequestKept, RequestFields
  <2>4. left \in Nat /\ (h.kind \in {"fixed", "big"} => left > 0)
    BY LimitsUsable
  <2>5. ReceiverKept(rcv') /\ rcv'.remain = left
    BY <2>1, <2>4, NewOnesKept DEF NewReceiver
  <2>6. r.kind \in {"fixed", "big"} => rcv'.remain > 0
    BY <2>2, <2>3, <2>4, <2>5
  <2> HIDE DEF r, left
  <2> QED
    BY <2>1, <2>3, <2>5, <2>6, HeaderFacts, HeaderReturns
<1> QED
  BY <1>2, <1>3, <1>4, <1>5

----------------------------------------------------------------------------
(* The bodies *)

LEMMA RemainderFacts ==
    ASSUME ReceiverKept(rcv), NEW a \in Seq(Token), a # <<>>
    PROVE  /\ Len(a) \in Nat /\ Len(a) > 0
           /\ Remainder(a) \in 0 .. Len(a) /\ Remainder(a) =< rcv.remain
           /\ rcv.remain > 0 => Remainder(a) > 0
           /\ rcv.remain > Len(a) => Remainder(a) = Len(a)
           /\ Upto(a, Remainder(a)) \in Seq(Token)
           /\ From(a, Remainder(a) + 1) \in Seq(Token)
           /\ Len(From(a, Remainder(a) + 1)) = Len(a) - Remainder(a)
<1>1. Len(a) \in Nat /\ Len(a) > 0 /\ rcv.remain \in Nat
  BY LenProperties, EmptySeq DEF ReceiverKept
<1>2. /\ Remainder(a) \in 0 .. Len(a) /\ Remainder(a) =< rcv.remain
      /\ rcv.remain > 0 => Remainder(a) > 0
      /\ rcv.remain > Len(a) => Remainder(a) = Len(a)
  BY <1>1 DEF Remainder
<1> DEFINE i == Remainder(a) + 1
<1>3. i \in 1 .. Len(a) + 1 /\ i - 1 = Remainder(a) /\ Len(a) + 1 - i = Len(a) - Remainder(a)
  BY <1>1, <1>2
<1>4. /\ From(a, i) \in Seq(Token) /\ Len(From(a, i)) = Len(a) + 1 - i
      /\ Upto(a, i - 1) \in Seq(Token)
  <2> HIDE DEF i
  <2> QED
    BY <1>3, Cut
<1> QED
  BY <1>1, <1>2, <1>3, <1>4

LEMMA FixedKeeps ==
    ASSUME IInv, fixed_body
    PROVE  IInv'
<1>1. /\ data \in Seq(Token) /\ data # <<>> /\ ReceiverKept(rcv) /\ rcv.remain > 0
  BY DEF fixed_body, IInv, Typed, Expecting
<1> DEFINE m == Remainder(data)
<1>2. /\ Len(data) \in Nat /\ m \in 1 .. Len(data) /\ m =< rcv.remain
      /\ rcv.remain > Len(data) => m = Len(data)
      /\ Upto(data, m) \in Seq(Token)
  BY <1>1, RemainderFacts
<1>3. /\ rcv' = [rcv EXCEPT !.remain = @ - m, !.buf = @ \o Upto(data, m),
                            !.completed = rcv.remain =< Len(data)]
      /\ n' = m /\ pc' = "body"
      /\ UNCHANGED <<channel_vars, request, loop_vars>>
  BY DEF fixed_body
<1> HIDE DEF m
<1>4. ReceiverKept(rcv')
  <2>1. rcv.buf \o Upto(data, m) \in Seq(Token)
    BY <1>1, <1>2, ConcatProperties DEF ReceiverKept
  <2>2. rcv.remain \in Nat /\ rcv.remain - m \in Nat
    BY <1>1, <1>2 DEF ReceiverKept
  <2>3. ~rcv.all
    BY <1>1 DEF ReceiverKept
  <2> QED
    BY <1>1, <1>3, <2>1, <2>2, <2>3 DEF ReceiverKept, ReceiverFields
<1>5. rcv'.remain > 0 \/ rcv'.completed
  <2>1. rcv.remain \in Nat
    BY <1>1 DEF ReceiverKept
  <2>2. rcv'.remain = rcv.remain - m /\ (rcv'.completed <=> rcv.remain =< Len(data))
    BY <1>1, <1>3 DEF ReceiverKept, ReceiverFields
  <2> QED
    BY <1>2, <2>1, <2>2
<1>6. Typed'
  BY <1>2, <1>3 DEF channel_vars, loop_vars, IInv, Typed
<1>7. Expecting'
  BY <1>2, <1>3, <1>5 DEF fixed_body, channel_vars, IInv, Expecting, ContinueNow,
     WantsContinue, Idle
<1> QED
  BY <1>3, <1>4, <1>6, <1>7 DEF channel_vars, loop_vars, IInv

LEMMA ChunkedKeeps ==
    ASSUME IInv, chunked_body
    PROVE  IInv'
<1>1. data \in Seq(Token) /\ data # <<>> /\ Len(data) \in Nat
  BY LenProperties DEF chunked_body, IInv, Typed, Expecting
<1>2. Typed'
  BY <1>1 DEF chunked_body, channel_vars, IInv, Typed
<1>3. Expecting'
  BY DEF chunked_body, channel_vars, IInv, Expecting, ContinueNow, WantsContinue, Idle
<1> QED
  BY <1>1, <1>2, <1>3 DEF chunked_body, channel_vars, IInv, LoopEnds

\* A round of the loop of ChunkedReceiver.received, and its end.
LEMMA RoundKeeps ==
    ASSUME IInv, InLoop, NEW r, NEW rest \in Seq(Token), Continue(r, rest),
           ReceiverKept(r), LoopEnds(r, rest, rounds + 1)
    PROVE  IInv'
<1>1. Typed'
  BY DEF Continue, channel_vars, InLoop, IInv, Typed
<1>2. Expecting'
  BY DEF Continue, channel_vars, InLoop, IInv, Expecting, ContinueNow, WantsContinue, Idle
<1>3. rounds' =< Len(data') + 1
  <2>1. Len(data) \in Nat /\ Len(rest) \in Nat /\ rounds \in Nat
    BY LenProperties DEF IInv, Typed
  <2> QED
    BY <2>1 DEF Continue, channel_vars, LoopEnds
<1> QED
  BY <1>1, <1>2, <1>3 DEF Continue, channel_vars, InLoop, IInv, LoopEnds

LEMMA ReturnKeeps ==
    ASSUME IInv, pc = "chunks", NEW r, NEW used, Return(r, used), ReceiverKept(r),
           used \in 1 .. Len(data)
    PROVE  IInv'
<1>1. Len(data) \in Nat
  BY LenProperties DEF IInv, Typed
<1>2. Typed'
  BY <1>1 DEF Return, channel_vars, loop_vars, IInv, Typed
<1>3. Expecting'
  BY DEF Return, channel_vars, IInv, Expecting, ContinueNow, WantsContinue, Idle
<1> QED
  BY <1>2, <1>3 DEF Return, channel_vars, loop_vars, IInv

\* The numbers that a round has to bring down.
LEMMA LoopFacts ==
    ASSUME IInv, InLoop
    PROVE  /\ data \in Seq(Token) /\ Len(data) \in Nat /\ Len(data) > 0
           /\ s \in Seq(Token) /\ Len(s) \in Nat /\ Len(s) > 0
           /\ rounds \in Nat /\ rounds =< Len(data) /\ ReceiverKept(rcv)
           /\ ~rcv.all => rounds + Len(s) =< Len(data)
           /\ Len(s) =< Len(data) + (IF rcv.trailer = <<>> THEN 1 ELSE 0)
<1>1. /\ data \in Seq(Token) /\ data # <<>> /\ s \in Seq(Token) /\ s # <<>>
      /\ rounds \in Nat /\ ReceiverKept(rcv) /\ LoopEnds(rcv, s, rounds)
  BY DEF InLoop, IInv, Typed, Expecting
<1>2. Len(data) \in Nat /\ Len(data) > 0 /\ Len(s) \in Nat /\ Len(s) > 0
  BY <1>1, LenProperties, EmptySeq
<1> QED
  BY <1>1, <1>2 DEF LoopEnds

LEMMA NothingLeft ==
    ASSUME IInv, InLoop, NEW r
    PROVE  LoopEnds(r, <<>>, rounds + 1)
BY LoopFacts DEF LoopEnds

LEMMA DataKeeps ==
    ASSUME IInv, chunk_data
    PROVE  IInv'
<1> DEFINE m == Remainder(s)
           r == [rcv EXCEPT !.remain = @ - m, !.buf = @ \o Upto(s, m),
                            !.validate = rcv.remain =< Len(s)]
           rest == From(s, m + 1)
<1>1. InLoop /\ rcv.remain > 0 /\ Continue(r, rest)
  BY DEF chunk_data
<1>2. /\ s \in Seq(Token) /\ s # <<>> /\ ReceiverKept(rcv)
  BY DEF chunk_data, InLoop, IInv, Typed
<1>3. /\ Len(s) \in Nat /\ m \in 1 .. Len(s) /\ m =< rcv.remain
      /\ Upto(s, m) \in Seq(Token) /\ rest \in Seq(Token) /\ Len(rest) = Len(s) - m
  BY <1>1, <1>2, RemainderFacts
<1>4. rcv.remain \in Nat /\ ~rcv.all
  BY <1>1, <1>2 DEF ReceiverKept
<1> HIDE DEF m
<1>5. rcv.buf \o Upto(s, m) \in Seq(Token) /\ rcv.remain - m \in Nat
  BY <1>2, <1>3, <1>4, ConcatProperties DEF ReceiverKept
<1>6. ReceiverKept(r) /\ ~r.all
  BY <1>2, <1>4, <1>5 DEF ReceiverKept, ReceiverFields
<1> HIDE DEF r, rest
<1>7. LoopEnds(r, rest, rounds + 1)
  BY <1>1, <1>3, <1>4, <1>6, LoopFacts DEF LoopEnds
<1> QED
  BY <1>1, <1>3, <1>6, <1>7, RoundKeeps

LEMMA ChunkEndKeeps ==
    ASSUME IInv, chunk_end
    PROVE  IInv'
<1>1. /\ InLoop /\ rcv.validate /\ rcv.remain = 0
      /\ s \in Seq(Token) /\ Len(s) \in Nat /\ Len(s) > 0 /\ ReceiverKept(rcv)
      /\ rounds \in Nat /\ Len(data) \in Nat
  BY LoopFacts DEF chunk_end
<1> DEFINE kept == Len(rcv.end)
<1>2. ~rcv.all /\ rcv.trailer = <<>> /\ rcv.end \in Seq(Token) /\ kept \in 0 .. 1
  <2>1. ~rcv.all /\ rcv.trailer = <<>>
    BY <1>1 DEF ReceiverKept
  <2>2. rcv.end \in Seq(Token) /\ Len(rcv.end) =< 1
    BY <1>1 DEF ReceiverKept
  <2>3. kept \in Nat /\ kept =< 1
    BY <2>2, LenProperties
  <2> HIDE DEF kept
  <2>4. kept \in 0 .. 1
    BY <2>3
  <2> QED
    BY <2>1, <2>2, <2>4
<1>3. rounds + Len(s) =< Len(data)
  BY <1>1, <1>2, LoopFacts
<1>4. ChunkEnd \in Seq(Token) /\ Len(ChunkEnd) = kept + Len(s)
  BY <1>1, <1>2, ConcatProperties DEF ChunkEnd
<1> HIDE DEF kept
<1>5. CASE Len(ChunkEnd) < 2 /\ Continue([rcv EXCEPT !.end = ChunkEnd], <<>>)
  <2> DEFINE r == [rcv EXCEPT !.end = ChunkEnd]
  <2>1. Len(ChunkEnd) =< 1
    BY <1>1, <1>2, <1>4, <1>5
  <2>2. ReceiverKept(r)
    BY <1>1, <1>4, <2>1 DEF ReceiverKept, ReceiverFields
  <2> HIDE DEF r
  <2>3. LoopEnds(r, <<>>, rounds + 1)
    BY <1>1, NothingLeft
  <2> QED
    BY <1>1, <1>5, <2>2, <2>3, Patterns, RoundKeeps DEF r
<1>6. CASE /\ Find(ChunkEnd, CRLF) = 1
           /\ Continue([rcv EXCEPT !.end = <<>>, !.validate = FALSE], From(ChunkEnd, 3))
  <2> DEFINE r == [rcv EXCEPT !.end = <<>>, !.validate = FALSE]
             rest == From(ChunkEnd, 3)
  <2>1. <<>> \in Seq(Token) /\ Len(<<>>) =< 1
    BY Patterns
  <2>2. ReceiverKept(r) /\ ~r.all
    BY <1>1, <1>2, <2>1 DEF ReceiverKept, ReceiverFields
  <2>3. Len(ChunkEnd) >= 2
    <3>1. Find(ChunkEnd, CRLF) \in 1 .. Len(ChunkEnd) - Len(CRLF) + 1
      BY <1>4, <1>6, Patterns, FindFacts
    <3> QED
      BY <1>1, <1>2, <1>4, <1>6, <3>1, Patterns
  <2>4. 3 \in 1 .. Len(ChunkEnd) + 1
    BY <1>1, <1>2, <1>4, <2>3
  <2>5. rest \in Seq(Token) /\ Len(rest) = Len(ChunkEnd) + 1 - 3
    BY <1>4, <2>4, Cut
  <2> HIDE DEF r, rest
  <2>6. rounds + 1 =< Len(data) + 1 /\ rounds + 1 + Len(rest) =< Len(data)
    BY <1>1, <1>2, <1>3, <1>4, <2>5
  <2>7. LoopEnds(r, rest, rounds + 1)
    BY <2>2, <2>6 DEF LoopEnds
  <2> QED
    BY <1>1, <1>6, <2>2, <2>5, <2>7, RoundKeeps DEF r, rest
<1>7. CASE Continue([rcv EXCEPT !.end = <<>>, !.validate = FALSE,
                                !.error = TRUE, !.all = TRUE], ChunkEnd)
  <2> DEFINE r == [rcv EXCEPT !.end = <<>>, !.validate = FALSE,
                              !.error = TRUE, !.all = TRUE]
  <2>1. <<>> \in Seq(Token) /\ Len(<<>>) =< 1
    BY Patterns
  <2>2. ReceiverKept(r) /\ r.all /\ r.trailer = <<>>
    BY <1>1, <1>2, <2>1 DEF ReceiverKept, ReceiverFields
  <2> HIDE DEF r
  <2>3. /\ rounds + 1 =< Len(data) + 1 /\ rounds + 1 =< Len(data)
        /\ Len(ChunkEnd) =< Len(data) + 1
    BY <1>1, <1>2, <1>3, <1>4
  <2>4. LoopEnds(r, ChunkEnd, rounds + 1)
    BY <2>2, <2>3 DEF LoopEnds
  <2> QED
    BY <1>1, <1>4, <1>7, <2>2, <2>4, RoundKeeps DEF r
<1> QED
  BY <1>5, <1>6, <1>7 DEF chunk_end

LEMMA ControlLineFacts ==
    ASSUME IInv, InControlLine
    PROVE  /\ ControlLine \in Seq(Token) /\ Len(ControlLine) \in Nat
           /\ LineEnd \in Nat /\ (LineEnd = 0 <=> Find(ControlLine, CRLF) = 0)
           /\ LineEnd # 0 =>
                 /\ LineEnd \in 1 .. Len(ControlLine)
                 /\ From(ControlLine, LineEnd + 2) \in Seq(Token)
                 /\ Len(From(ControlLine, LineEnd + 2)) < Len(s)
<1>1. /\ InLoop /\ s \in Seq(Token) /\ Len(s) \in Nat
      /\ rcv.line \in Seq(Token) /\ Len(rcv.line) \in Nat /\ Find(rcv.line, CRLF) = 0
  BY LoopFacts, LenProperties DEF InControlLine, ReceiverKept
<1>2. ControlLine \in Seq(Token) /\ Len(ControlLine) = Len(rcv.line) + Len(s)
  BY <1>1, ConcatProperties DEF ControlLine
<1>3. LineEnd \in Nat
  BY <1>2, Patterns, FindFacts DEF LineEnd
<1>4. ASSUME LineEnd # 0
      PROVE  LineEnd + 1 > Len(rcv.line) /\ LineEnd + 1 =< Len(rcv.line) + Len(s)
  <2>1. Find(rcv.line \o s, CRLF) # 0
    BY <1>4 DEF LineEnd, ControlLine
  <2>2. Len(CRLF) = 2 /\ Len(CRLF) > 0 /\ CRLF \in Seq(Token)
    BY Patterns
  <2>3. /\ LineEnd + Len(CRLF) - 1 > Len(rcv.line)
        /\ LineEnd + Len(CRLF) - 1 =< Len(rcv.line) + Len(s)
    BY <1>1, <2>1, <2>2, FoundBeyond DEF LineEnd, ControlLine
  <2> QED
    BY <1>1, <1>3, <2>2, <2>3
<1>5. ASSUME LineEnd # 0
      PROVE  /\ LineEnd \in 1 .. Len(ControlLine)
             /\ From(ControlLine, LineEnd + 2) \in Seq(Token)
             /\ Len(From(ControlLine, LineEnd + 2)) < Len(s)
  <2>1. LineEnd + 2 \in 1 .. Len(ControlLine) + 1
    BY <1>1, <1>2, <1>3, <1>4, <1>5
  <2>2. /\ From(ControlLine, LineEnd + 2) \in Seq(Token)
        /\ Len(From(ControlLine, LineEnd + 2)) = Len(ControlLine) + 1 - (LineEnd + 2)
    BY <1>2, <2>1, Cut
  <2> QED
    BY <1>1, <1>2, <1>3, <1>4, <1>5, <2>2
<1> QED
  BY <1>1, <1>2, <1>3, <1>5 DEF LineEnd

LEMMA ControlLineKeeps ==
    ASSUME IInv, control_line_unfinished \/ control_line \/ control_line_invalid
    PROVE  IInv'
<1>1. InControlLine
  BY DEF control_line_unfinished, control_line, control_line_invalid
<1>2. InLoop /\ rcv.remain = 0 /\ ~rcv.validate /\ ~rcv.all
  BY <1>1 DEF InControlLine
<1>3. /\ ReceiverKept(rcv) /\ rounds + Len(s) =< Len(data)
      /\ rounds \in Nat /\ Len(s) \in Nat /\ Len(data) \in Nat /\ Len(data) > 0
  BY <1>2, LoopFacts
<1>4. <<>> \in Seq(Token) /\ Find(<<>>, CRLF) = 0
  BY Patterns
<1>5. CASE control_line_unfinished
  <2> DEFINE r == [rcv EXCEPT !.line = ControlLine]
  <2>1. LineEnd = 0 /\ Continue(r, <<>>)
    BY <1>5 DEF control_line_unfinished
  <2>2. ControlLine \in Seq(Token) /\ Find(ControlLine, CRLF) = 0
    BY <1>1, <2>1, ControlLineFacts
  <2>3. ReceiverKept(r)
    BY <1>3, <2>2 DEF ReceiverKept, ReceiverFields
  <2> HIDE DEF r
  <2>4. LoopEnds(r, <<>>, rounds + 1)
    BY <1>2, NothingLeft
  <2> QED
    BY <1>2, <1>4, <2>1, <2>3, <2>4, RoundKeeps
<1>6. CASE control_line
  <2> DEFINE size == Size(SizePart(Line))
             last == Line # <<>> /\ size = 0
             r == [rcv EXCEPT !.line = <<>>, !.remain = size, !.all = last]
             rest == From(ControlLine, LineEnd + 2)
  <2>1. LineEnd # 0 /\ Continue(r, rest)
    BY <1>6 DEF control_line
  <2>2. /\ ControlLine \in Seq(Token) /\ LineEnd \in 1 .. Len(ControlLine)
        /\ rest \in Seq(Token) /\ Len(rest) \in Nat /\ Len(rest) < Len(s)
    BY <1>1, <2>1, ControlLineFacts, LenProperties
  <2>3. size \in Nat
    BY <2>2, LineTyped DEF Line
  <2> HIDE DEF size
  <2>4. ReceiverKept(r) /\ r.trailer = <<>>
    BY <1>2, <1>3, <1>4, <2>3 DEF ReceiverKept, ReceiverFields
  <2> HIDE DEF r, rest
  <2>5. /\ rounds + 1 =< Len(data) + 1 /\ rounds + 1 =< Len(data)
        /\ rounds + 1 + Len(rest) =< Len(data) /\ Len(rest) =< Len(data) + 1
    BY <1>3, <2>2
  <2>6. LoopEnds(r, rest, rounds + 1)
    BY <2>4, <2>5 DEF LoopEnds
  <2> QED
    BY <1>2, <2>1, <2>2, <2>4, <2>6, RoundKeeps
<1>7. CASE control_line_invalid
  <2> DEFINE r == [rcv EXCEPT !.line = <<>>, !.error = TRUE, !.all = TRUE]
  <2>1. Return(r, Len(data))
    BY <1>7 DEF control_line_invalid
  <2>2. ReceiverKept(r)
    BY <1>2, <1>3, <1>4 DEF ReceiverKept, ReceiverFields
  <2> HIDE DEF r
  <2>3. Len(data) \in 1 .. Len(data) /\ pc = "chunks"
    BY <1>2, <1>3 DEF InLoop
  <2> QED
    BY <2>1, <2>2, <2>3, ReturnKeeps
<1> QED
  BY <1>5, <1>6, <1>7

LEMMA TrailerFacts ==
    ASSUME IInv, InTrailer
    PROVE  /\ WholeTrailer \in Seq(Token) /\ Len(WholeTrailer) \in Nat /\ TrailerEnd \in Nat
           /\ TrailerEnd = 0 => /\ Find(WholeTrailer, CRLF \o CRLF) = 0
                                /\ ~IsPrefix(CRLF, WholeTrailer)
           /\ TrailerEnd # 0 => /\ TrailerEnd =< Len(WholeTrailer)
                                /\ Len(WholeTrailer) - TrailerEnd < Len(data)
<1>1. /\ InLoop /\ s \in Seq(Token) /\ Len(s) \in Nat /\ Len(data) \in Nat
      /\ Len(s) =< Len(data) + (IF rcv.trailer = <<>> THEN 1 ELSE 0)
      /\ ReceiverKept(rcv)
  BY LoopFacts DEF InTrailer
<1>2. /\ rcv.trailer \in Seq(Token) /\ Len(rcv.trailer) \in Nat
      /\ Find(rcv.trailer, CRLF \o CRLF) = 0 /\ ~IsPrefix(CRLF, rcv.trailer)
      /\ Len(rcv.trailer) = 0 <=> rcv.trailer = <<>>
  BY <1>1, LenProperties, EmptySeq DEF ReceiverKept
<1>3. WholeTrailer \in Seq(Token) /\ Len(WholeTrailer) = Len(rcv.trailer) + Len(s)
  BY <1>1, <1>2, ConcatProperties DEF WholeTrailer
<1>4. CASE IsPrefix(CRLF, WholeTrailer)
  <2>1. TrailerEnd = 2
    BY <1>4 DEF TrailerEnd
  <2>2. 2 =< Len(WholeTrailer) /\ SubSeq(WholeTrailer, 1, 2) = CRLF
    BY <1>4, Patterns DEF IsPrefix
  <2>3. Len(rcv.trailer) < 2
    <3>1. SUFFICES ASSUME Len(rcv.trailer) >= 2
                   PROVE  FALSE
      BY <1>2
    <3>2. 1 \in 1 .. Len(rcv.trailer) /\ 2 \in 1 .. Len(rcv.trailer)
      BY <1>2, <3>1
    <3>3. SubSeq(rcv.trailer \o s, 1, 2) = SubSeq(rcv.trailer, 1, 2)
      BY <1>1, <1>2, <3>2, SubSeqOfConcat1
    <3> QED
      BY <1>2, <2>2, <3>1, <3>3, Patterns DEF IsPrefix, WholeTrailer
  <2> QED
    BY <1>1, <1>2, <1>3, <2>1, <2>2, <2>3
<1>5. CASE ~IsPrefix(CRLF, WholeTrailer)
  <2> DEFINE four == CRLF \o CRLF
             i == Find(rcv.trailer \o s, four)
  <2>1. four \in Seq(Token) /\ Len(four) = 4 /\ Len(four) > 0
    BY Patterns
  <2>2. /\ TrailerEnd \in Nat /\ (TrailerEnd = 0 <=> i = 0)
        /\ TrailerEnd # 0 => TrailerEnd = i + 3
    BY <1>3, <1>5, DoubleNewlineIs DEF TrailerEnd, WholeTrailer
  <2>3. i \in Nat
    <3> HIDE DEF four
    <3> QED
      BY <1>3, <2>1, FindFacts DEF WholeTrailer
  <2>4. ASSUME TrailerEnd # 0
        PROVE  i + 3 > Len(rcv.trailer) /\ i + 3 =< Len(rcv.trailer) + Len(s)
    <3>1. i # 0 /\ Find(rcv.trailer, four) = 0
      BY <1>2, <2>2, <2>4
    <3> HIDE DEF four
    <3>2. i + Len(four) - 1 > Len(rcv.trailer) /\ i + Len(four) - 1 =< Len(rcv.trailer) + Len(s)
      BY <1>1, <1>2, <2>1, <3>1, FoundBeyond
    <3> HIDE DEF i
    <3> QED
      BY <1>1, <1>2, <2>1, <2>3, <3>2
  <2>5. TrailerEnd = 0 => Find(WholeTrailer, CRLF \o CRLF) = 0
    BY <2>2 DEF WholeTrailer
  <2> HIDE DEF i
  <2>6. TrailerEnd # 0 => TrailerEnd =< Len(WholeTrailer) /\ Len(WholeTrailer) - TrailerEnd < Len(data)
    BY <1>1, <1>2, <1>3, <2>2, <2>3, <2>4
  <2>7. Len(WholeTrailer) \in Nat
    BY <1>1, <1>2, <1>3
  <2> QED
    BY <1>3, <1>5, <2>2, <2>5, <2>6, <2>7
<1> QED
  BY <1>4, <1>5

LEMMA TrailerKeeps ==
    ASSUME IInv, trailer_unfinished \/ trailer
    PROVE  IInv'
<1>1. InTrailer
  BY DEF trailer_unfinished, trailer
<1>2. InLoop /\ rcv.all /\ ReceiverKept(rcv) /\ Len(data) \in Nat /\ pc = "chunks"
  BY <1>1, LoopFacts DEF InTrailer, InLoop
<1>3. CASE trailer_unfinished
  <2> DEFINE r == [rcv EXCEPT !.trailer = WholeTrailer]
  <2>1. TrailerEnd = 0 /\ Continue(r, <<>>)
    BY <1>3 DEF trailer_unfinished
  <2>2. /\ WholeTrailer \in Seq(Token) /\ Find(WholeTrailer, CRLF \o CRLF) = 0
        /\ ~IsPrefix(CRLF, WholeTrailer)
    BY <1>1, <2>1, TrailerFacts
  <2>3. ReceiverKept(r)
    BY <1>2, <2>2 DEF ReceiverKept, ReceiverFields
  <2> HIDE DEF r
  <2>4. LoopEnds(r, <<>>, rounds + 1)
    BY <1>2, NothingLeft
  <2> QED
    BY <1>2, <2>1, <2>3, <2>4, Patterns, RoundKeeps
<1>4. CASE trailer
  <2> DEFINE r == [rcv EXCEPT !.completed = TRUE]
             used == Len(data) - (Len(WholeTrailer) - TrailerEnd)
  <2>1. TrailerEnd # 0 /\ Return(r, used)
    BY <1>4 DEF trailer
  <2>2. ReceiverKept(r)
    BY <1>2 DEF ReceiverKept, ReceiverFields
  <2>3. used \in 1 .. Len(data)
    BY <1>1, <1>2, <2>1, TrailerFacts
  <2> HIDE DEF r, used
  <2> QED
    BY <1>2, <2>1, <2>2, <2>3, ReturnKeeps
<1> QED
  BY <1>3, <1>4

LEMMA ConsumedKeeps ==
    ASSUME IInv, chunks_consumed
    PROVE  IInv'
<1>1. pc = "chunks" /\ Return(rcv, Len(data)) /\ ReceiverKept(rcv)
  BY DEF chunks_consumed, IInv
<1>2. data \in Seq(Token) /\ data # <<>>
  BY <1>1 DEF IInv, Typed, Expecting
<1>3. Len(data) \in 1 .. Len(data)
  BY <1>2, LenProperties, EmptySeq
<1> QED
  BY <1>1, <1>3, ReturnKeeps

----------------------------------------------------------------------------
(* Between the calls of the parser *)

LEMMA BodyReceivedKeeps ==
    ASSUME IInv, body_received
    PROVE  IInv'
<1>1. /\ RequestKept(request) /\ n \in Nat /\ n \in 1 .. Len(data) /\ data # <<>>
      /\ ~ContinueNow
      /\ request.kind \in {"fixed", "big"} => rcv.remain > 0 \/ rcv.completed
  BY DEF body_received, IInv, Typed, Expecting
<1>2. request.bbytes + n \in Nat
  BY <1>1 DEF RequestKept
<1>3. RequestKept(request')
  BY <1>1, <1>2 DEF body_received, RequestKept, RequestFields
<1>4. /\ request'.kind = request.kind /\ request'.expect = request.expect
      /\ request'.finished = request.finished
      /\ rcv.completed => request'.completed
  BY <1>1 DEF body_received, RequestKept, RequestFields
<1>5. ~ContinueNow'
  BY <1>1, <1>4 DEF body_received, channel_vars, ContinueNow, WantsContinue, Idle
<1>6. Typed'
  BY DEF body_received, channel_vars, loop_vars, IInv, Typed
<1>7. Expecting'
  BY <1>1, <1>4, <1>5 DEF body_received, channel_vars, Expecting
<1> QED
  BY <1>3, <1>6, <1>7 DEF body_received, channel_vars, loop_vars, IInv

LEMMA ContinuedIs ==
    ASSUME RequestKept(request)
    PROVE  /\ RequestKept(Continued) /\ Continued.kind = request.kind
           /\ ~Continued.expect
BY DEF Continued, RequestKept, RequestFields

LEMMA ContinueKeeps ==
    ASSUME IInv, send_continue
    PROVE  IInv'
<1>1. RequestKept(request') /\ request'.kind = request.kind /\ ~request'.expect
  BY ContinuedIs DEF send_continue, IInv
<1>2. ~ContinueNow'
  BY <1>1 DEF ContinueNow, WantsContinue
<1>3. request.kind \in {"fixed", "big"} => rcv.remain > 0
  BY DEF send_continue, IInv, Expecting, ContinueNow
<1>4. Typed'
  BY DEF send_continue, loop_vars, IInv, Typed
<1>5. Expecting'
  BY <1>1, <1>2, <1>3 DEF send_continue, IInv, Expecting
<1> QED
  BY <1>1, <1>4, <1>5 DEF send_continue, loop_vars, IInv

LEMMA NextRoundTyped ==
    ASSUME IInv, pc = "returned", NextRound
    PROVE  /\ stream' = stream /\ fed' = fed /\ served' = served
           /\ s' = <<>> /\ rounds' = 0 /\ n' = 0 /\ pc' \in {"idle", "call"}
           /\ data' \in Seq(Token) /\ Len(data') \in Nat
           /\ pc' # "idle" => data' # <<>>
<1>1. data \in Seq(Token) /\ Len(data) \in Nat /\ n \in 1 .. Len(data)
  BY LenProperties DEF IInv, Typed, Expecting
<1>2. n + 1 \in 1 .. Len(data) + 1
  BY <1>1
<1>3. data' \in Seq(Token) /\ Len(data') = Len(data) + 1 - (n + 1)
  BY <1>1, <1>2, Cut DEF NextRound
<1>4. ASSUME pc' # "idle"
      PROVE  data' # <<>>
  <2>1. ~(n >= Len(data))
    BY <1>4 DEF NextRound
  <2>2. Len(data') > 0
    BY <1>1, <1>3, <2>1
  <2> QED
    BY <2>2, EmptySeq
<1> QED
  BY <1>1, <1>3, <1>4 DEF NextRound

LEMMA OutcomeTyped ==
    ASSUME IInv
    PROVE  Outcome \in Outcomes
<1>1. <<>> \in Seq(Token) /\ rcv.buf \in Seq(Token)
  BY Patterns DEF IInv, ReceiverKept
<1> QED
  BY <1>1 DEF Outcome, Outcomes, Rejected, Accepted

LEMMA QueueKeeps ==
    ASSUME IInv, queue_request
    PROVE  IInv'
<1>1. /\ stream' = stream /\ fed' = fed /\ served' = served
      /\ s' = <<>> /\ rounds' = 0 /\ n' = 0 /\ pc' \in {"idle", "call"}
      /\ data' \in Seq(Token) /\ Len(data') \in Nat
      /\ pc' # "idle" => data' # <<>>
  BY NextRoundTyped DEF queue_request
<1>2. RequestKept(request') /\ ReceiverKept(rcv')
  BY NewOnesKept DEF queue_request
<1>3. request'.kind = "none" /\ ~request'.expect
  BY DEF queue_request, NewRequest
<1>4. requests' \in Seq(Outcomes) /\ served' \in 0 .. Len(requests')
  <2>1. /\ requests \in Seq(Outcomes) /\ Len(requests) \in Nat
        /\ served \in 0 .. Len(requests)
    BY LenProperties DEF IInv, Typed
  <2>2. /\ Append(requests, Outcome) \in Seq(Outcomes)
        /\ Len(Append(requests, Outcome)) = Len(requests) + 1
    BY <2>1, OutcomeTyped, AppendProperties
  <2>3. requests' = requests \/ requests' = Append(requests, Outcome)
    BY DEF queue_request
  <2> QED
    BY <1>1, <2>1, <2>2, <2>3
<1>5. Typed'
  <2>1. s' \in Seq(Token) /\ sent_continue' \in BOOLEAN
    BY <1>1, Patterns DEF queue_request
  <2> QED
    BY <1>1, <1>4, <2>1 DEF IInv, Typed
<1>6. Expecting'
  BY <1>1, <1>3 DEF Expecting, ContinueNow, WantsContinue
<1> QED
  BY <1>1, <1>2, <1>5, <1>6 DEF IInv

LEMMA KeepKeeps ==
    ASSUME IInv, keep_request
    PROVE  IInv'
<1>1. /\ stream' = stream /\ fed' = fed /\ served' = served
      /\ s' = <<>> /\ rounds' = 0 /\ n' = 0 /\ pc' \in {"idle", "call"}
      /\ data' \in Seq(Token) /\ Len(data') \in Nat
      /\ pc' # "idle" => data' # <<>>
  BY NextRoundTyped DEF keep_request
<1>2. ~ContinueNow'
  BY <1>1 DEF keep_request, ContinueNow, WantsContinue, Idle
<1>3. request.kind \in {"fixed", "big"} => rcv.remain > 0
  BY DEF keep_request, IInv, Expecting
<1>4. Typed'
  <2>1. s' \in Seq(Token)
    BY <1>1, Patterns
  <2> QED
    BY <1>1, <2>1 DEF keep_request, IInv, Typed
<1>5. Expecting'
  BY <1>1, <1>2, <1>3 DEF keep_request, Expecting
<1> QED
  BY <1>1, <1>4, <1>5 DEF keep_request, IInv

LEMMA ServiceEndsKeeps ==
    ASSUME IInv, service_ends
    PROVE  IInv'
<1>1. /\ requests \in Seq(Outcomes) /\ Len(requests) \in Nat
      /\ served \in 0 .. Len(requests) /\ served # Len(requests)
  BY LenProperties DEF service_ends, Idle, IInv, Typed
<1>2. served' \in 0 .. Len(requests)
  BY <1>1 DEF service_ends
<1> DEFINE due == served' = Len(requests) /\ WantsContinue
<1>3. /\ request' = IF due THEN Continued ELSE request
      /\ sent_continue' = (sent_continue \/ due)
  BY DEF service_ends
<1>4. RequestKept(request') /\ request'.kind = request.kind
  BY <1>3, ContinuedIs DEF IInv
<1>5. ~ContinueNow'
  <2>1. CASE due
    BY <1>3, <2>1, ContinuedIs DEF IInv, ContinueNow, WantsContinue
  <2>2. CASE ~due
    BY <1>3, <2>2 DEF service_ends, ContinueNow, WantsContinue, Idle
  <2> QED
    BY <2>1, <2>2
<1>6. sent_continue' \in BOOLEAN
  BY <1>3
<1>7. Typed'
  BY <1>2, <1>6 DEF service_ends, loop_vars, IInv, Typed
<1>8. Expecting'
  BY <1>4, <1>5 DEF service_ends, IInv, Expecting
<1> QED
  BY <1>4, <1>7, <1>8 DEF service_ends, loop_vars, IInv

LEMMA InvNext == IInv /\ [Next]_vars => IInv'
<1> SUFFICES ASSUME IInv, [Next]_vars
             PROVE  IInv'
  OBVIOUS
<1>1. CASE handle_read
  BY <1>1, ReadKeeps
<1>2. CASE header_too_large \/ header_unfinished \/ header_blank \/ parse_header
  BY <1>2, HeaderKeeps
<1>3. CASE fixed_body
  BY <1>3, FixedKeeps
<1>4. CASE chunked_body
  BY <1>4, ChunkedKeeps
<1>5. CASE chunk_data
  BY <1>5, DataKeeps
<1>6. CASE chunk_end
  BY <1>6, ChunkEndKeeps
<1>7. CASE control_line_unfinished \/ control_line \/ control_line_invalid
  BY <1>7, ControlLineKeeps
<1>8. CASE trailer_unfinished \/ trailer
  BY <1>8, TrailerKeeps
<1>9. CASE chunks_consumed
  BY <1>9, ConsumedKeeps
<1>10. CASE body_received
  BY <1>10, BodyReceivedKeeps
<1>11. CASE send_continue
  BY <1>11, ContinueKeeps
<1>12. CASE queue_request
  BY <1>12, QueueKeeps
<1>13. CASE keep_request
  BY <1>13, KeepKeeps
<1>14. CASE service_ends
  BY <1>14, ServiceEndsKeeps
<1>15. CASE all_answered
  BY <1>15, Unchanged DEF all_answered
<1>16. CASE UNCHANGED vars
  BY <1>16, Unchanged
<1> QED
  BY <1>1, <1>2, <1>3, <1>4, <1>5, <1>6, <1>7, <1>8, <1>9, <1>10, <1>11, <1>12, <1>13,
     <1>14, <1>15, <1>16 DEF Next, Received

LEMMA InvAlways == Spec => []IInv
BY Initially, InvNext, PTL DEF Spec


----------------------------------------------------------------------------
(* Sequences that grow at their end *)

LEMMA Associative ==
    ASSUME NEW a \in Seq(Token), NEW b \in Seq(Token), NEW c \in Seq(Token)
    PROVE  (a \o b) \o c = a \o (b \o c)
BY ConcatAssociative

\* The element of a cut, and of a concatenation, at each place.
LEMMA CutAt ==
    ASSUME NEW a \in Seq(Token), NEW i \in 1 .. Len(a) + 1
    PROVE  /\ \A k \in 1 .. Len(a) + 1 - i : From(a, i)[k] = a[i + k - 1]
           /\ \A k \in 1 .. i - 1 : Upto(a, i - 1)[k] = a[k]
<1>1. Len(a) \in Nat /\ \A k \in 1 .. Len(a) : a[k] \in Token
  BY LenProperties, ElementOfSeq
<1>2. \A k \in 1 .. Len(a) + 1 - i : From(a, i)[k] = a[i + k - 1]
  <2>1. \A k \in i .. Len(a) : a[k] \in Token
    BY <1>1
  <2>2. \A k \in 1 .. Len(a) - i + 1 : SubSeq(a, i, Len(a))[k] = a[i + k - 1]
    BY <1>1, <2>1, SubSeqProperties
  <2>3. Len(a) - i + 1 = Len(a) + 1 - i
    BY <1>1
  <2> QED
    BY <2>2, <2>3 DEF From
<1>3. \A k \in 1 .. i - 1 : Upto(a, i - 1)[k] = a[k]
  <2>1. \A k \in 1 .. i - 1 : a[k] \in Token
    BY <1>1
  <2>2. \A k \in 1 .. (i - 1) - 1 + 1 : SubSeq(a, 1, i - 1)[k] = a[1 + k - 1]
    BY <1>1, <2>1, SubSeqProperties
  <2>3. \A k \in 1 .. i - 1 : 1 + k - 1 = k /\ k \in 1 .. (i - 1) - 1 + 1
    BY <1>1
  <2> QED
    BY <2>2, <2>3 DEF Upto
<1> QED
  BY <1>2, <1>3

\* The first part of a sequence and the rest of it are the sequence.
LEMMA Joined ==
    ASSUME NEW a \in Seq(Token), NEW i \in 0 .. Len(a)
    PROVE  Upto(a, i) \o From(a, i + 1) = a
<1> DEFINE u == Upto(a, i)
           f == From(a, i + 1)
           m == i + 1
<1>1. Len(a) \in Nat /\ m \in 1 .. Len(a) + 1 /\ m - 1 = i
  BY LenProperties
<1>2. /\ From(a, m) \in Seq(Token) /\ Len(From(a, m)) = Len(a) + 1 - m
      /\ Upto(a, m - 1) \in Seq(Token) /\ Len(Upto(a, m - 1)) = m - 1
      /\ \A k \in 1 .. Len(a) + 1 - m : From(a, m)[k] = a[m + k - 1]
      /\ \A k \in 1 .. m - 1 : Upto(a, m - 1)[k] = a[k]
  <2> HIDE DEF m
  <2> QED
    BY <1>1, Cut, CutAt
<1>3. /\ f \in Seq(Token) /\ Len(f) = Len(a) - i
      /\ u \in Seq(Token) /\ Len(u) = i
      /\ \A k \in 1 .. Len(a) - i : f[k] = a[i + k]
      /\ \A k \in 1 .. i : u[k] = a[k]
  BY <1>1, <1>2
<1> HIDE DEF u, f
<1>4. /\ u \o f \in Seq(Token) /\ Len(u \o f) = Len(a)
      /\ \A k \in 1 .. Len(a) : (u \o f)[k] = IF k =< i THEN u[k] ELSE f[k - i]
  BY <1>1, <1>3, ConcatProperties
<1>5. \A k \in 1 .. Len(a) : (u \o f)[k] = a[k]
  <2> TAKE k \in 1 .. Len(a)
  <2>1. CASE k =< i
    BY <1>1, <1>3, <1>4, <2>1
  <2>2. CASE k > i
    <3>1. k - i \in 1 .. Len(a) - i /\ i + (k - i) = k
      BY <1>1, <2>2
    <3>2. f[k - i] = a[k]
      BY <1>3, <3>1
    <3> QED
      BY <1>1, <1>4, <2>2, <3>2
  <2>3. k =< i \/ k > i
    BY <1>1
  <2> QED
    BY <2>1, <2>2, <2>3
<1>6. u \o f = a
  BY <1>1, <1>4, <1>5, SeqEqual
<1> QED
  BY <1>6 DEF u, f

\* What is added at the end does not change what is in front of it.
LEMMA CutOfLonger ==
    ASSUME NEW a \in Seq(Token), NEW b \in Seq(Token), NEW i \in 0 .. Len(a)
    PROVE  /\ Upto(a \o b, i) = Upto(a, i)
           /\ From(a \o b, i + 1) = From(a, i + 1) \o b
<1> DEFINE c == a \o b
           u == Upto(a, i)
           v == Upto(c, i)
           f == From(a, i + 1)
           g == From(c, i + 1)
           m == i + 1
<1>1. Len(a) \in Nat /\ Len(b) \in Nat
  BY LenProperties
<1>2. /\ c \in Seq(Token) /\ Len(c) = Len(a) + Len(b)
      /\ \A k \in 1 .. Len(a) + Len(b) : c[k] = IF k =< Len(a) THEN a[k] ELSE b[k - Len(a)]
  BY ConcatProperties
<1> HIDE DEF c
<1>3. m \in 1 .. Len(a) + 1 /\ m \in 1 .. Len(c) + 1 /\ m - 1 = i
  BY <1>1, <1>2
<1>4. /\ From(a, m) \in Seq(Token) /\ Len(From(a, m)) = Len(a) + 1 - m
      /\ Upto(a, m - 1) \in Seq(Token) /\ Len(Upto(a, m - 1)) = m - 1
      /\ \A k \in 1 .. Len(a) + 1 - m : From(a, m)[k] = a[m + k - 1]
      /\ \A k \in 1 .. m - 1 : Upto(a, m - 1)[k] = a[k]
  <2> HIDE DEF m
  <2> QED
    BY <1>3, Cut, CutAt
<1>5. /\ From(c, m) \in Seq(Token) /\ Len(From(c, m)) = Len(c) + 1 - m
      /\ Upto(c, m - 1) \in Seq(Token) /\ Len(Upto(c, m - 1)) = m - 1
      /\ \A k \in 1 .. Len(c) + 1 - m : From(c, m)[k] = c[m + k - 1]
      /\ \A k \in 1 .. m - 1 : Upto(c, m - 1)[k] = c[k]
  <2> HIDE DEF m
  <2> QED
    BY <1>2, <1>3, Cut, CutAt
<1>6. /\ f \in Seq(Token) /\ Len(f) = Len(a) - i
      /\ u \in Seq(Token) /\ Len(u) = i
      /\ g \in Seq(Token) /\ Len(g) = Len(a) + Len(b) - i
      /\ v \in Seq(Token) /\ Len(v) = i
  <2>1. f \in Seq(Token) /\ Len(f) = Len(a) - i /\ u \in Seq(Token) /\ Len(u) = i
    BY <1>1, <1>3, <1>4
  <2>2. Len(c) + 1 - m = Len(a) + Len(b) - i
    BY <1>1, <1>2
  <2>3. g \in Seq(Token) /\ Len(g) = Len(a) + Len(b) - i
    BY <1>5, <2>2
  <2>4. v \in Seq(Token) /\ Len(v) = i
    BY <1>3, <1>5
  <2> HIDE DEF u, v, f, g
  <2> QED
    BY <2>1, <2>3, <2>4
<1>9. \A k \in 1 .. i : u[k] = a[k] /\ v[k] = c[k]
  BY <1>3, <1>4, <1>5
<1>10. \A k \in 1 .. Len(a) - i : f[k] = a[i + k]
  <2>1. \A k \in 1 .. Len(a) - i : f[k] = a[m + k - 1]
    BY <1>1, <1>4
  <2>2. \A k \in 1 .. Len(a) - i : m + k - 1 = i + k
    BY <1>1
  <2> HIDE DEF f, m
  <2> QED
    BY <2>1, <2>2
<1>11. \A k \in 1 .. Len(a) + Len(b) - i : g[k] = c[i + k]
  <2>1. \A k \in 1 .. Len(a) + Len(b) - i : g[k] = c[m + k - 1]
    BY <1>1, <1>2, <1>5
  <2>2. \A k \in 1 .. Len(a) + Len(b) - i : m + k - 1 = i + k
    BY <1>1
  <2> HIDE DEF g, m
  <2> QED
    BY <2>1, <2>2
<1> HIDE DEF u, v, f, g, m
<1>7. v = u
  <2>1. \A k \in 1 .. i : v[k] = u[k]
    BY <1>1, <1>2, <1>9
  <2> QED
    BY <1>6, <2>1, SeqEqual
<1>8. g = f \o b
  <2>1. /\ f \o b \in Seq(Token) /\ Len(f \o b) = Len(g)
        /\ \A k \in 1 .. Len(g) : (f \o b)[k] = IF k =< Len(f) THEN f[k] ELSE b[k - Len(f)]
    <3>1. /\ f \o b \in Seq(Token) /\ Len(f \o b) = Len(f) + Len(b)
          /\ \A k \in 1 .. Len(f) + Len(b) : (f \o b)[k] = IF k =< Len(f) THEN f[k] ELSE b[k - Len(f)]
      BY <1>6, ConcatProperties
    <3>2. Len(f) + Len(b) = Len(g)
      BY <1>1, <1>6
    <3> QED
      BY <3>1, <3>2
  <2>2. \A k \in 1 .. Len(g) : g[k] = (f \o b)[k]
    <3> TAKE k \in 1 .. Len(g)
    <3>1. g[k] = c[i + k] /\ i + k \in 1 .. Len(a) + Len(b)
      BY <1>1, <1>6, <1>11
    <3>2. CASE k =< Len(f)
      BY <1>1, <1>2, <1>6, <1>10, <2>1, <3>1, <3>2
    <3>3. CASE k > Len(f)
      <4>1. ~(i + k =< Len(a)) /\ (i + k) - Len(a) = k - Len(f)
        BY <1>1, <1>6, <3>3
      <4>2. g[k] = b[i + k - Len(a)]
        BY <1>2, <3>1, <4>1
      <4>3. (f \o b)[k] = b[k - Len(f)]
        BY <1>1, <1>6, <2>1, <3>3
      <4> QED
        BY <4>1, <4>2, <4>3
    <3> QED
      BY <1>1, <1>6, <3>2, <3>3
  <2> QED
    BY <1>6, <2>1, <2>2, SeqEqual
<1> QED
  BY <1>7, <1>8 DEF u, v, f, g, c

\* Nor does what is in front change what comes after it.
LEMMA CutOfSecond ==
    ASSUME NEW a \in Seq(Token), NEW b \in Seq(Token), NEW i \in 0 .. Len(b)
    PROVE  /\ Upto(a \o b, Len(a) + i) = a \o Upto(b, i)
           /\ From(a \o b, Len(a) + i + 1) = From(b, i + 1)
<1> DEFINE u == Upto(b, i)
           f == From(b, i + 1)
           p == a \o u
<1>1. Len(a) \in Nat /\ Len(b) \in Nat
  BY LenProperties
<1>2. f \in Seq(Token) /\ Len(f) = Len(b) - i /\ u \in Seq(Token) /\ Len(u) = i /\ u \o f = b
  <2> DEFINE m == i + 1
  <2>1. m \in 1 .. Len(b) + 1 /\ m - 1 = i
    BY <1>1
  <2>2. /\ From(b, m) \in Seq(Token) /\ Len(From(b, m)) = Len(b) + 1 - m
        /\ Upto(b, m - 1) \in Seq(Token) /\ Len(Upto(b, m - 1)) = m - 1
    <3> HIDE DEF m
    <3> QED
      BY <2>1, Cut
  <2> QED
    BY <1>1, <2>1, <2>2, Joined
<1> HIDE DEF u, f
<1>3. p \in Seq(Token) /\ Len(p) = Len(a) + i
  <2>1. a \o u \in Seq(Token) /\ Len(a \o u) = Len(a) + Len(u)
    BY <1>2, ConcatProperties
  <2> QED
    BY <1>2, <2>1
<1>4. a \o b = p \o f
  <2>1. (a \o u) \o f = a \o (u \o f)
    BY <1>2, Associative
  <2> QED
    BY <1>2, <2>1
<1> DEFINE j == Len(a) + i
<1>5. j \in 0 .. Len(p) /\ j = Len(p)
  BY <1>1, <1>3
<1> HIDE DEF p
<1>6. Upto(p \o f, j) = Upto(p, j) /\ From(p \o f, j + 1) = From(p, j + 1) \o f
  <2> HIDE DEF j
  <2> QED
    BY <1>2, <1>3, <1>5, CutOfLonger
<1>7. Upto(p, j) = p
  BY <1>3, <1>5, SubSeqFull DEF Upto
<1>8. From(p, j + 1) = <<>>
  BY <1>3, <1>5, SubSeqEmpty DEF From
<1>9. <<>> \o f = f
  BY <1>2, ConcatEmptySeq
<1> QED
  BY <1>4, <1>6, <1>7, <1>8, <1>9 DEF u, f, p

LEMMA CutOfCut ==
    ASSUME NEW a \in Seq(Token), NEW i \in 0 .. Len(a), NEW j \in 0 .. Len(a) - i
    PROVE  /\ From(From(a, i + 1), j + 1) = From(a, i + j + 1)
           /\ Upto(a, i) \o Upto(From(a, i + 1), j) = Upto(a, i + j)
<1> DEFINE u == Upto(a, i)
           f == From(a, i + 1)
           m == i + 1
<1>1. Len(a) \in Nat /\ m \in 1 .. Len(a) + 1 /\ m - 1 = i
  BY LenProperties
<1>2. /\ From(a, m) \in Seq(Token) /\ Len(From(a, m)) = Len(a) + 1 - m
      /\ Upto(a, m - 1) \in Seq(Token) /\ Len(Upto(a, m - 1)) = m - 1
  <2> HIDE DEF m
  <2> QED
    BY <1>1, Cut
<1>3. /\ f \in Seq(Token) /\ Len(f) = Len(a) - i /\ j \in 0 .. Len(f)
      /\ u \in Seq(Token) /\ Len(u) = i
      /\ u \o f = a
  BY <1>1, <1>2, Joined
<1> HIDE DEF u, f
<1>4. /\ Upto(u \o f, Len(u) + j) = u \o Upto(f, j)
      /\ From(u \o f, Len(u) + j + 1) = From(f, j + 1)
  BY <1>3, CutOfSecond
<1> QED
  BY <1>3, <1>4 DEF u, f

\* Find gives the first of the places.
LEMMA FirstFound ==
    ASSUME NEW a \in Seq(Token), NEW p \in Seq(Token),
           NEW i \in 1 .. Len(a) - Len(p) + 1, SubSeq(a, i, i + Len(p) - 1) = p
    PROVE  Find(a, p) # 0 /\ Find(a, p) =< i
<1> DEFINE hits == {k \in 1 .. Len(a) - Len(p) + 1 : SubSeq(a, k, k + Len(p) - 1) = p}
<1>1. Len(a) \in Nat /\ Len(p) \in Nat
  BY LenProperties
<1>2. i \in hits /\ hits \in SUBSET Nat
  BY <1>1
<1>3. Find(a, p) = Min(hits)
  BY <1>2 DEF Find
<1>4. \A k \in hits : k # 0
  BY <1>1
<1> HIDE DEF hits
<1>5. \E x \in hits : \A y \in hits : x =< y
  BY <1>2, LeastOf
<1>6. Min(hits) \in hits /\ \A y \in hits : Min(hits) =< y
  BY <1>5 DEF Min
<1> QED
  BY <1>2, <1>3, <1>4, <1>6

\* What has been found is found at the same place when more has come.
LEMMA FoundStays ==
    ASSUME NEW a \in Seq(Token), NEW b \in Seq(Token), NEW p \in Seq(Token),
           Len(p) > 0, Find(a, p) # 0
    PROVE  Find(a \o b, p) = Find(a, p)
<1> DEFINE c == a \o b
           i == Find(a, p)
           j == Find(c, p)
<1>1. Len(a) \in Nat /\ Len(b) \in Nat /\ Len(p) \in Nat
  BY LenProperties
<1>2. c \in Seq(Token) /\ Len(c) = Len(a) + Len(b)
  BY ConcatProperties
<1>3. /\ i \in 1 .. Len(a) - Len(p) + 1 /\ SubSeq(a, i, i + Len(p) - 1) = p
  BY FindFacts
<1>4. \A k \in 1 .. Len(a) - Len(p) + 1 :
          SubSeq(c, k, k + Len(p) - 1) = SubSeq(a, k, k + Len(p) - 1)
  <2> TAKE k \in 1 .. Len(a) - Len(p) + 1
  <2> DEFINE l == k + Len(p) - 1
  <2>1. k \in 1 .. Len(a) /\ l \in 1 .. Len(a)
    BY <1>1
  <2> HIDE DEF l
  <2>2. SubSeq(a \o b, k, l) = SubSeq(a, k, l)
    BY <2>1, SubSeqOfConcat1
  <2> QED
    BY <2>2 DEF l
<1>5. i \in 1 .. Len(c) - Len(p) + 1 /\ SubSeq(c, i, i + Len(p) - 1) = p
  BY <1>1, <1>2, <1>3, <1>4
<1> HIDE DEF c, i
<1>6. j # 0 /\ j =< i
  BY <1>2, <1>5, FirstFound
<1>7. j \in 1 .. Len(c) - Len(p) + 1 /\ SubSeq(c, j, j + Len(p) - 1) = p
  BY <1>2, <1>6, FindFacts
<1> HIDE DEF j
<1>8. j \in 1 .. Len(a) - Len(p) + 1
  BY <1>1, <1>2, <1>3, <1>6, <1>7
<1>9. i =< j
  BY <1>4, <1>7, <1>8, FirstFound DEF i
<1>10. i = j
  BY <1>3, <1>6, <1>8, <1>9
<1> QED
  BY <1>10 DEF i, j, c

LEMMA DoubleNewlineStays ==
    ASSUME NEW a \in Seq(Token), NEW b \in Seq(Token), DoubleNewline(a) # 0
    PROVE  DoubleNewline(a \o b) = DoubleNewline(a)
<1> DEFINE four == CRLF \o CRLF
<1>1. four \in Seq(Token) /\ Len(four) > 0
  BY Patterns
<1>2. Find(a, four) # 0
  BY DoubleNewlineIs
<1> HIDE DEF four
<1>3. Find(a \o b, four) = Find(a, four)
  BY <1>1, <1>2, FoundStays
<1> QED
  BY <1>3 DEF DoubleNewline, four

\* What is not in a, and is in a and b together, ends in b.
LEMMA DoubleNewlineBeyond ==
    ASSUME NEW a \in Seq(Token), NEW b \in Seq(Token),
           DoubleNewline(a) = 0, DoubleNewline(a \o b) # 0
    PROVE  DoubleNewline(a \o b) > Len(a) /\ DoubleNewline(a \o b) =< Len(a) + Len(b)
<1> DEFINE four == CRLF \o CRLF
           i == Find(a \o b, four)
<1>1. four \in Seq(Token) /\ Len(four) = 4 /\ Len(four) > 0
  BY Patterns
<1>2. a \o b \in Seq(Token)
  BY ConcatProperties
<1>3. Find(a, four) = 0 /\ i # 0 /\ i \in Nat /\ DoubleNewline(a \o b) = i + 3
  <2>1. Find(a, four) = 0
    BY DoubleNewlineIs
  <2>2. i # 0 /\ DoubleNewline(a \o b) = i + 3
    BY <1>2, DoubleNewlineIs
  <2>3. i \in Nat
    BY <1>1, <1>2, FindFacts
  <2> QED
    BY <2>1, <2>2, <2>3
<1> HIDE DEF four
<1>4. i + Len(four) - 1 > Len(a) /\ i + Len(four) - 1 =< Len(a) + Len(b)
  BY <1>1, <1>3, FoundBeyond
<1> HIDE DEF i
<1>5. i + Len(four) - 1 = i + 3
  BY <1>1, <1>3
<1> QED
  BY <1>3, <1>4, <1>5

\* The same of a line end.
LEMMA LineEndBeyond ==
    ASSUME NEW a \in Seq(Token), NEW b \in Seq(Token),
           Find(a, CRLF) = 0, Find(a \o b, CRLF) # 0
    PROVE  Find(a \o b, CRLF) + 1 > Len(a) /\ Find(a \o b, CRLF) + 1 =< Len(a) + Len(b)
<1> DEFINE i == Find(a \o b, CRLF)
           p == CRLF
<1>1. p \in Seq(Token) /\ Len(p) = 2 /\ Len(p) > 0
  BY Patterns
<1>2. a \o b \in Seq(Token)
  BY ConcatProperties
<1>3. i # 0 /\ i \in Nat /\ Find(a, p) = 0
  BY <1>1, <1>2, FindFacts
<1>4. i + Len(p) - 1 > Len(a) /\ i + Len(p) - 1 =< Len(a) + Len(b)
  BY <1>1, <1>3, FoundBeyond
<1> HIDE DEF i, p
<1>5. i + Len(p) - 1 = i + 1
  BY <1>1, <1>3
<1>6. i + 1 > Len(a) /\ i + 1 =< Len(a) + Len(b)
  BY <1>4, <1>5
<1> QED
  BY <1>6 DEF i

\* The place of a line end, and of a double newline.
LEMMA LineEndIs ==
    ASSUME NEW a \in Seq(Token)
    PROVE  /\ Find(a, CRLF) \in Nat
           /\ Find(a, CRLF) # 0 => Find(a, CRLF) + 1 =< Len(a)
<1>1. Find(a, CRLF) \in Nat
  BY FindFacts, Patterns
<1>2. Find(a, CRLF) # 0 => Find(a, CRLF) \in 1 .. Len(a) - Len(CRLF) + 1
  BY FindFacts, Patterns
<1>3. Find(a, CRLF) # 0 => Find(a, CRLF) + 1 =< Len(a)
  BY <1>2, Patterns, LenProperties
<1> QED
  BY <1>1, <1>3

LEMMA DoubleNewlineIn ==
    ASSUME NEW a \in Seq(Token), DoubleNewline(a) # 0
    PROVE  DoubleNewline(a) \in 4 .. Len(a)
<1> DEFINE four == CRLF \o CRLF
           i == Find(a, four)
<1>1. four \in Seq(Token) /\ Len(four) = 4 /\ Len(a) \in Nat
  BY Patterns, LenProperties
<1>2. i # 0 /\ DoubleNewline(a) = i + 3
  BY DoubleNewlineIs
<1> HIDE DEF four
<1>3. i \in 1 .. Len(a) - Len(four) + 1
  BY <1>1, <1>2, FindFacts
<1> HIDE DEF i
<1> QED
  BY <1>1, <1>2, <1>3

----------------------------------------------------------------------------
(* The reference definitions are defined: each is the only function with its *)
(* equation, because a value depends on those of shorter sequences.          *)

\* Chunked[a], where f is asked for what is shorter.
ChunkStep(f, a) ==
    LET eol == Find(a, CRLF)
        line == Upto(a, eol - 1)
        after == From(a, eol + 2)
        k == Size(SizePart(line))
    IN CASE eol = 0 -> More
         [] eol = 1 -> Shift(f[after], 2, <<>>)
         [] eol > 1 /\ ~IsControlLine(line) -> Bad
         [] OTHER ->
              CASE k = 0 -> Shift(Trailer(after), eol + 1, <<>>)
                [] k > 0 /\ Len(after) < k + 2 -> More
                [] OTHER ->
                     IF SubSeq(after, k + 1, k + 2) = CRLF
                     THEN Shift(f[From(after, k + 3)], eol + k + 3, Upto(after, k))
                     ELSE Bad

AgreeBelow(f, g, a) == \A b \in Seq(Token) : Len(b) < Len(a) => f[b] = g[b]

\* What is left after a control line, and after the chunk that it announces.
LEMMA AfterLine ==
    ASSUME NEW a \in Seq(Token), Find(a, CRLF) # 0
    PROVE  /\ From(a, Find(a, CRLF) + 2) \in Seq(Token)
           /\ Len(From(a, Find(a, CRLF) + 2)) = Len(a) - Find(a, CRLF) - 1
           /\ Find(a, CRLF) \in 1 .. Len(a) - 1
           /\ Size(SizePart(Upto(a, Find(a, CRLF) - 1))) \in Nat
<1> DEFINE i == Find(a, CRLF)
           m == i + 2
<1>1. i \in Nat /\ i # 0 /\ i + 1 =< Len(a) /\ Len(a) \in Nat
  BY LineEndIs, LenProperties
<1>2. Size(SizePart(Upto(a, i - 1))) \in Nat
  <2>1. i \in 1 .. Len(a)
    BY <1>1
  <2> HIDE DEF i
  <2> QED
    BY <2>1, LineTyped
<1> HIDE DEF i
<1>3. m \in 1 .. Len(a) + 1
  BY <1>1
<1> HIDE DEF m
<1>4. From(a, m) \in Seq(Token) /\ Len(From(a, m)) = Len(a) + 1 - m
  BY <1>3, Cut
<1>5. Len(a) + 1 - m = Len(a) - i - 1 /\ i \in 1 .. Len(a) - 1
  BY <1>1 DEF m
<1> QED
  BY <1>2, <1>4, <1>5 DEF m, i

LEMMA AfterChunk ==
    ASSUME NEW a \in Seq(Token), NEW k \in Nat, Len(a) >= k + 2
    PROVE  /\ From(a, k + 3) \in Seq(Token) /\ Len(From(a, k + 3)) = Len(a) - k - 2
           /\ Upto(a, k) \in Seq(Token) /\ Len(Upto(a, k)) = k
<1> DEFINE m == k + 3
           l == k + 1
<1>1. Len(a) \in Nat
  BY LenProperties
<1>2. m \in 1 .. Len(a) + 1 /\ l \in 1 .. Len(a) + 1 /\ l - 1 = k
  BY <1>1
<1>3. /\ From(a, m) \in Seq(Token) /\ Len(From(a, m)) = Len(a) + 1 - m
      /\ Upto(a, l - 1) \in Seq(Token) /\ Len(Upto(a, l - 1)) = l - 1
  <2> HIDE DEF m, l
  <2> QED
    BY <1>2, Cut
<1>4. Len(a) + 1 - m = Len(a) - k - 2
  BY <1>1
<1> QED
  BY <1>2, <1>3, <1>4

LEMMA ChunkStepLocal ==
    ASSUME NEW a \in Seq(Token), NEW f, NEW g, AgreeBelow(f, g, a)
    PROVE  ChunkStep(f, a) = ChunkStep(g, a)
<1> DEFINE eol == Find(a, CRLF)
           line == Upto(a, eol - 1)
           after == From(a, eol + 2)
           k == Size(SizePart(line))
<1>1. CASE eol = 0
  BY <1>1 DEF ChunkStep
<1>2. CASE eol # 0
  <2>1. /\ after \in Seq(Token) /\ Len(after) = Len(a) - eol - 1
        /\ eol \in 1 .. Len(a) - 1 /\ k \in Nat /\ Len(a) \in Nat
    BY <1>2, AfterLine, LenProperties
  <2> HIDE DEF k, after, line, eol
  <2>2. f[after] = g[after]
    BY <2>1 DEF AgreeBelow
  <2>3. ASSUME Len(after) >= k + 2
        PROVE  f[From(after, k + 3)] = g[From(after, k + 3)]
    <3>1. From(after, k + 3) \in Seq(Token) /\ Len(From(after, k + 3)) = Len(after) - k - 2
      BY <2>1, <2>3, AfterChunk
    <3>2. Len(From(after, k + 3)) < Len(a)
      BY <2>1, <3>1
    <3> QED
      BY <3>1, <3>2 DEF AgreeBelow
  <2>4. Len(after) < k + 2 \/ Len(after) >= k + 2
    BY <2>1
  <2>5. k = 0 \/ k > 0
    BY <2>1
  <2>6. eol = 1 \/ eol > 1
    BY <2>1
  <2>7. CASE eol = 1
    BY <2>2, <2>7 DEF ChunkStep, k, after, line, eol
  <2>8. CASE eol > 1
    <3> DEFINE Next1(h) == IF SubSeq(after, k + 1, k + 2) = CRLF
                     THEN Shift(h[From(after, k + 3)], eol + k + 3, Upto(after, k))
                     ELSE Bad
    <3>9. eol # 0 /\ eol # 1
      BY <2>8
    <3>1. \A h : ChunkStep(h, a) = IF ~IsControlLine(line) THEN Bad
              ELSE IF k = 0 THEN Shift(Trailer(after), eol + 1, <<>>)
              ELSE IF Len(after) < k + 2 THEN More
              ELSE Next1(h)
      <4> SUFFICES ASSUME NEW h PROVE ChunkStep(h, a) = IF ~IsControlLine(line) THEN Bad
              ELSE IF k = 0 THEN Shift(Trailer(after), eol + 1, <<>>)
              ELSE IF Len(after) < k + 2 THEN More
              ELSE Next1(h)
        OBVIOUS
      <4>1. ChunkStep(h, a) =
              CASE eol = 0 -> More
         [] eol = 1 -> Shift(h[after], 2, <<>>)
         [] eol > 1 /\ ~IsControlLine(line) -> Bad
         [] OTHER ->
              CASE k = 0 -> Shift(Trailer(after), eol + 1, <<>>)
                [] k > 0 /\ Len(after) < k + 2 -> More
                [] OTHER -> Next1(h)
        BY DEF ChunkStep, k, after, line, eol
      <4> HIDE DEF Next1
      <4> QED
        BY <4>1, <3>9, <2>8, <2>5
    <3>2. Len(after) >= k + 2 => Next1(f) = Next1(g)
      BY <2>3
    <3> HIDE DEF Next1
    <3> QED
      BY <3>1, <3>2, <2>4
  <2> QED
    BY <2>6, <2>7, <2>8
<1> QED
  BY <1>1, <1>2

UpToLength(k) == {a \in Seq(Token) : Len(a) =< k}
IsChunked(g, k) == g = [a \in UpToLength(k) |-> ChunkStep(g, a)]

LEMMA ChunkedUpTo ==
    ASSUME NEW k \in Nat
    PROVE  \E g : IsChunked(g, k)
<1> DEFINE T == {j \in Nat : ~\E g : IsChunked(g, j)}
<1>1. SUFFICES ASSUME T # {}
               PROVE  FALSE
  BY <1>1
<1>2. PICK j \in T : \A y \in T : j =< y
  BY <1>1, LeastOf
<1>3. PICK h : j = 0 \/ IsChunked(h, j - 1)
  <2>1. CASE j = 0
    BY <2>1
  <2>2. CASE j # 0
    <3>1. j - 1 \in Nat /\ ~(j =< j - 1)
      BY <1>2, <2>2
    <3> QED
      BY <1>2, <3>1
  <2> QED
    BY <2>1, <2>2
<1> DEFINE g == [a \in UpToLength(j) |-> ChunkStep(h, a)]
<1>4. ASSUME NEW a \in UpToLength(j)
      PROVE  ChunkStep(h, a) = ChunkStep(g, a)
  <2>1. a \in Seq(Token) /\ Len(a) \in Nat /\ Len(a) =< j /\ j \in Nat
    BY <1>2, LenProperties DEF UpToLength
  <2>2. ASSUME NEW b \in Seq(Token), Len(b) < Len(a)
        PROVE  h[b] = g[b]
    <3>1. Len(b) \in Nat /\ j # 0 /\ Len(b) =< j - 1 /\ Len(b) =< j
      BY <2>1, <2>2, LenProperties
    <3>2. b \in UpToLength(j - 1) /\ b \in UpToLength(j)
      BY <3>1 DEF UpToLength
    <3>3. h[b] = ChunkStep(h, b)
      BY <1>3, <3>1, <3>2 DEF IsChunked
    <3>4. g[b] = ChunkStep(h, b)
      BY <3>2
    <3> QED
      BY <3>3, <3>4
  <2> HIDE DEF g
  <2>3. AgreeBelow(h, g, a)
    BY <2>2 DEF AgreeBelow
  <2> QED
    BY <2>1, <2>3, ChunkStepLocal
<1>5. IsChunked(g, j)
  <2>1. [a \in UpToLength(j) |-> ChunkStep(h, a)] = [a \in UpToLength(j) |-> ChunkStep(g, a)]
    <3> HIDE DEF g
    <3> QED
      BY <1>4
  <2> QED
    BY <2>1 DEF IsChunked
<1> QED
  BY <1>2, <1>5

LEMMA ChunkedAgree ==
    ASSUME NEW k \in Nat, NEW m \in Nat, NEW g, NEW h, IsChunked(g, k), IsChunked(h, m),
           NEW a \in Seq(Token), Len(a) =< k, Len(a) =< m
    PROVE  g[a] = h[a]
<1> DEFINE Differ(b) == Len(b) =< k /\ Len(b) =< m /\ g[b] # h[b]
           T == {Len(b) : b \in {b \in Seq(Token) : Differ(b)}}
<1>1. SUFFICES ASSUME T # {}
               PROVE  FALSE
  BY <1>1
<1>2. T \in SUBSET Nat
  BY LenProperties
<1>3. PICK j \in T : \A y \in T : j =< y
  <2> HIDE DEF T
  <2> QED
    BY <1>1, <1>2, LeastOf
<1>4. PICK b \in Seq(Token) : Differ(b) /\ Len(b) = j
  BY <1>3
<1>5. Len(b) \in Nat
  BY LenProperties
<1>6. ASSUME NEW c \in Seq(Token), Len(c) < Len(b)
      PROVE  g[c] = h[c]
  <2>1. Len(c) \in Nat /\ Len(c) =< k /\ Len(c) =< m /\ ~(j =< Len(c))
    BY <1>4, <1>5, <1>6, LenProperties
  <2>2. Len(c) \notin T
    BY <1>3, <2>1
  <2> QED
    BY <2>1, <2>2
<1>7. AgreeBelow(g, h, b)
  BY <1>6 DEF AgreeBelow
<1>8. ChunkStep(g, b) = ChunkStep(h, b)
  BY <1>7, ChunkStepLocal
<1>9. b \in UpToLength(k) /\ b \in UpToLength(m)
  BY <1>4 DEF UpToLength
<1>10. g[b] = ChunkStep(g, b)
  BY <1>9 DEF IsChunked
<1>11. h[b] = ChunkStep(h, b)
  BY <1>9 DEF IsChunked
<1> QED
  BY <1>4, <1>8, <1>10, <1>11

\* Chunked satisfies its equation.
LEMMA ChunkedIs ==
    ASSUME NEW a \in Seq(Token)
    PROVE  Chunked[a] = ChunkStep(Chunked, a)
<1> DEFINE For(b) == CHOOSE g : IsChunked(g, Len(b))
           G == [b \in Seq(Token) |-> For(b)[b]]
<1>1. ASSUME NEW b \in Seq(Token)
      PROVE  Len(b) \in Nat /\ IsChunked(For(b), Len(b))
  <2>1. Len(b) \in Nat
    BY LenProperties
  <2>2. \E g : IsChunked(g, Len(b))
    BY <2>1, ChunkedUpTo
  <2> QED
    BY <2>1, <2>2
<1>2. ASSUME NEW b \in Seq(Token)
      PROVE  For(b)[b] = ChunkStep(G, b)
  <2>1. Len(b) \in Nat /\ IsChunked(For(b), Len(b))
    BY <1>1
  <2>2. b \in UpToLength(Len(b))
    BY <2>1 DEF UpToLength
  <2> DEFINE f == For(b)
  <2>3. f[b] = ChunkStep(f, b)
    <3>1. IsChunked(f, Len(b))
      BY <2>1
    <3> HIDE DEF f
    <3> QED
      BY <2>2, <3>1 DEF IsChunked
  <2>4. ASSUME NEW c \in Seq(Token), Len(c) < Len(b)
        PROVE  f[c] = G[c]
    <3>1. Len(c) \in Nat /\ IsChunked(For(c), Len(c)) /\ Len(c) =< Len(b) /\ Len(c) =< Len(c)
      BY <1>1, <2>1, <2>4
    <3>2. G[c] = For(c)[c]
      OBVIOUS
    <3> DEFINE h == For(c)
    <3>3. IsChunked(h, Len(c)) /\ IsChunked(f, Len(b)) /\ G[c] = h[c]
      BY <2>1, <3>1, <3>2
    <3> HIDE DEF f, h, G
    <3>4. f[c] = h[c]
      BY <2>1, <3>1, <3>3, ChunkedAgree
    <3> QED
      BY <3>3, <3>4
  <2> HIDE DEF f, G
  <2>5. AgreeBelow(f, G, b)
    BY <2>4 DEF AgreeBelow
  <2>6. ChunkStep(f, b) = ChunkStep(G, b)
    BY <2>5, ChunkStepLocal
  <2>7. f[b] = ChunkStep(G, b)
    BY <2>3, <2>6
  <2> QED
    BY <2>7 DEF f
<1>3. G = [b \in Seq(Token) |-> ChunkStep(G, b)]
  <2>1. G = [b \in Seq(Token) |-> For(b)[b]]
    OBVIOUS
  <2> HIDE DEF G, For
  <2> QED
    BY <1>2, <2>1
<1> HIDE DEF G
<1>4. \E f : f = [b \in Seq(Token) |-> ChunkStep(f, b)]
  BY <1>3
<1> DEFINE C == CHOOSE f : f = [b \in Seq(Token) |-> ChunkStep(f, b)]
<1>5. C = [b \in Seq(Token) |-> ChunkStep(C, b)]
  BY <1>4
<1>6. Chunked = C
  BY DEF Chunked, ChunkStep
<1> HIDE DEF C
<1>7. C[a] = ChunkStep(C, a)
  BY <1>5
<1> QED
  BY <1>6, <1>7

\* What Chunked gives, and that it lies in a and is longer than its first line.
Bodies == [status : {"more", "error", "ok"}, len : Nat, data : Seq(Token)]
LiesIn(c, a) ==
    /\ c \in Bodies
    /\ c.status = "ok" => c.len =< Len(a) /\ Find(a, CRLF) # 0 /\ c.len > Find(a, CRLF)

LEMMA ShiftIs ==
    ASSUME NEW c \in Bodies, NEW k \in Nat, NEW d \in Seq(Token)
    PROVE  /\ Shift(c, k, d) \in Bodies
           /\ Shift(c, k, d).status = c.status
           /\ Shift(c, k, d).len = c.len + k
           /\ Shift(c, k, d).data = d \o c.data
<1>1. c.data \in Seq(Token) /\ c.len \in Nat /\ c.len + k \in Nat
  BY DEF Bodies
<1>2. d \o c.data \in Seq(Token)
  BY <1>1, ConcatProperties
<1> QED
  BY <1>1, <1>2 DEF Shift, Bodies

LEMMA NoBodies == More \in Bodies /\ Bad \in Bodies /\ More.status = "more" /\ Bad.status = "error"
<1>1. <<>> \in Seq(Token)
  BY EmptySeq
<1> QED
  BY <1>1 DEF More, Bad, Bodies

LEMMA TrailerIs ==
    ASSUME NEW a \in Seq(Token)
    PROVE  /\ Trailer(a) \in Bodies /\ Trailer(a).data = <<>>
           /\ Trailer(a).status = "ok" => Trailer(a).len \in 2 .. Len(a)
<1>1. <<>> \in Seq(Token)
  BY EmptySeq
<1>2. CASE IsPrefix(CRLF, a)
  <2>1. Trailer(a) = [status |-> "ok", len |-> 2, data |-> <<>>]
    BY <1>2 DEF Trailer
  <2>2. 2 =< Len(a)
    BY <1>2, Patterns DEF IsPrefix
  <2> QED
    BY <1>1, <2>1, <2>2, LenProperties DEF Bodies
<1>3. CASE ~IsPrefix(CRLF, a) /\ DoubleNewline(a) = 0
  <2>1. Trailer(a) = More
    BY <1>3 DEF Trailer
  <2> QED
    BY <2>1, NoBodies DEF More
<1>4. CASE ~IsPrefix(CRLF, a) /\ DoubleNewline(a) # 0
  <2> DEFINE m == DoubleNewline(a)
  <2>1. Trailer(a) = [status |-> "ok", len |-> m, data |-> <<>>]
    BY <1>4 DEF Trailer
  <2>2. m \in 4 .. Len(a)
    BY <1>4, DoubleNewlineIn
  <2> HIDE DEF m
  <2>3. m \in Nat /\ m \in 2 .. Len(a)
    BY <2>2, LenProperties
  <2> QED
    BY <1>1, <2>1, <2>3 DEF Bodies
<1> QED
  BY <1>2, <1>3, <1>4

\* How a chunked body begins.
LEMMA ChunkedBegins ==
    ASSUME NEW a \in Seq(Token), NEW i, i = Find(a, CRLF),
           NEW x, x = From(a, i + 2), NEW k, k = Size(SizePart(Upto(a, i - 1)))
    PROVE  /\ i = 0 => Chunked[a] = More
           /\ i = 1 => Chunked[a] = Shift(Chunked[x], 2, <<>>)
           /\ i > 1 /\ ~IsControlLine(Upto(a, i - 1)) => Chunked[a] = Bad
           /\ i > 1 /\ IsControlLine(Upto(a, i - 1)) =>
                 /\ k = 0 => Chunked[a] = Shift(Trailer(x), i + 1, <<>>)
                 /\ k > 0 /\ Len(x) < k + 2 => Chunked[a] = More
                 /\ k > 0 /\ ~(Len(x) < k + 2) =>
                       IF SubSeq(x, k + 1, k + 2) = CRLF
                       THEN Chunked[a] = Shift(Chunked[From(x, k + 3)], i + k + 3, Upto(x, k))
                       ELSE Chunked[a] = Bad
<1> DEFINE line == Upto(a, i - 1)
           last == IF SubSeq(x, k + 1, k + 2) = CRLF
                   THEN Shift(Chunked[From(x, k + 3)], i + k + 3, Upto(x, k))
                   ELSE Bad
           skip == Shift(Chunked[x], 2, <<>>)
           ends == Shift(Trailer(x), i + 1, <<>>)
<1>1. i \in Nat
  BY LineEndIs
<1>2. Chunked[a] =
        CASE i = 0 -> More
          [] i = 1 -> skip
          [] i > 1 /\ ~IsControlLine(line) -> Bad
          [] OTHER ->
               CASE k = 0 -> ends
                 [] k > 0 /\ Len(x) < k + 2 -> More
                 [] OTHER -> last
  BY ChunkedIs DEF ChunkStep
<1>3. i # 0 => k \in Nat
  BY AfterLine
<1> HIDE DEF line, last, skip, ends
<1>4. /\ i = 0 => Chunked[a] = More
      /\ i = 1 => Chunked[a] = skip
      /\ i > 1 /\ ~IsControlLine(line) => Chunked[a] = Bad
      /\ i > 1 /\ IsControlLine(line) =>
            /\ k = 0 => Chunked[a] = ends
            /\ k > 0 /\ Len(x) < k + 2 => Chunked[a] = More
            /\ k > 0 /\ ~(Len(x) < k + 2) => Chunked[a] = last
  <2>1. i = 0 => Chunked[a] = More
    BY <1>2
  <2>2. i = 1 => Chunked[a] = skip
    BY <1>2
  <2>3. i > 1 /\ ~IsControlLine(line) => Chunked[a] = Bad
    BY <1>2
  <2>4. ASSUME i > 1, IsControlLine(line)
        PROVE  /\ k = 0 => Chunked[a] = ends
               /\ k > 0 /\ Len(x) < k + 2 => Chunked[a] = More
               /\ k > 0 /\ ~(Len(x) < k + 2) => Chunked[a] = last
    <3>1. Chunked[a] = CASE k = 0 -> ends
                         [] k > 0 /\ Len(x) < k + 2 -> More
                         [] OTHER -> last
      BY <1>1, <1>2, <2>4
    <3> QED
      BY <3>1
  <2> QED
    BY <2>1, <2>2, <2>3, <2>4
<1>5. /\ SubSeq(x, k + 1, k + 2) = CRLF => last = Shift(Chunked[From(x, k + 3)], i + k + 3, Upto(x, k))
      /\ SubSeq(x, k + 1, k + 2) # CRLF => last = Bad
  BY DEF last
<1> QED
  BY <1>4, <1>5 DEF line, skip, ends

LEMMA ChunkedLiesIn ==
    ASSUME NEW a \in Seq(Token)
    PROVE  LiesIn(Chunked[a], a)
<1> DEFINE T == {Len(b) : b \in {b \in Seq(Token) : ~LiesIn(Chunked[b], b)}}
<1>1. SUFFICES ASSUME T # {}
               PROVE  FALSE
  BY <1>1
<1>2. T \in SUBSET Nat
  BY LenProperties
<1>3. PICK j \in T : \A y \in T : j =< y
  <2> HIDE DEF T
  <2> QED
    BY <1>1, <1>2, LeastOf
<1>4. PICK b \in Seq(Token) : ~LiesIn(Chunked[b], b) /\ Len(b) = j
  BY <1>3
<1>5. Len(b) \in Nat
  BY LenProperties
<1>6. ASSUME NEW c \in Seq(Token), Len(c) < Len(b)
      PROVE  LiesIn(Chunked[c], c)
  <2>1. Len(c) \in Nat /\ ~(j =< Len(c))
    BY <1>4, <1>5, <1>6, LenProperties
  <2>2. Len(c) \notin T
    BY <1>3, <2>1
  <2> QED
    BY <2>2
<1> DEFINE i == Find(b, CRLF)
           x == From(b, i + 2)
           k == Size(SizePart(Upto(b, i - 1)))
           Ok == LiesIn(Chunked[b], b)
<1>7. i # 0 => /\ x \in Seq(Token) /\ Len(x) = Len(b) - i - 1
               /\ i \in 1 .. Len(b) - 1 /\ k \in Nat
  BY AfterLine
<1>8. <<>> \in Seq(Token) /\ i \in Nat
  BY EmptySeq, LineEndIs
<1>9. /\ i = 0 => Chunked[b] = More
      /\ i = 1 => Chunked[b] = Shift(Chunked[x], 2, <<>>)
      /\ i > 1 /\ ~IsControlLine(Upto(b, i - 1)) => Chunked[b] = Bad
      /\ i > 1 /\ IsControlLine(Upto(b, i - 1)) =>
            /\ k = 0 => Chunked[b] = Shift(Trailer(x), i + 1, <<>>)
            /\ k > 0 /\ Len(x) < k + 2 => Chunked[b] = More
            /\ k > 0 /\ ~(Len(x) < k + 2) =>
                  IF SubSeq(x, k + 1, k + 2) = CRLF
                  THEN Chunked[b] = Shift(Chunked[From(x, k + 3)], i + k + 3, Upto(x, k))
                  ELSE Chunked[b] = Bad
  BY ChunkedBegins
<1> HIDE DEF k, x
<1>10. Chunked[b] = More \/ Chunked[b] = Bad => Ok
  BY NoBodies DEF LiesIn
<1> DEFINE Part(c, l, d) ==
             /\ c \in Bodies /\ l \in Nat /\ d \in Seq(Token) /\ l > i /\ i # 0
             /\ c.status = "ok" => c.len + l =< Len(b)
             /\ Chunked[b] = Shift(c, l, d)
<1>11. ASSUME NEW c, NEW l, NEW d, Part(c, l, d)
       PROVE  Ok
  <2>1. /\ Chunked[b] \in Bodies /\ Chunked[b].status = c.status
        /\ Chunked[b].len = c.len + l
    BY <1>11, ShiftIs
  <2>2. c.len \in Nat
    BY <1>11 DEF Bodies
  <2>3. c.status = "ok" => Chunked[b].len =< Len(b) /\ Chunked[b].len > i
    BY <1>8, <1>11, <2>1, <2>2
  <2> QED
    BY <1>11, <2>1, <2>3 DEF LiesIn
<1> HIDE DEF Ok, i
<1>12. ASSUME i = 1
       PROVE  Ok
  <2>1. x \in Seq(Token) /\ Len(x) = Len(b) - 2 /\ Len(x) < Len(b)
    BY <1>5, <1>7, <1>12
  <2>2. Chunked[x] \in Bodies /\ (Chunked[x].status = "ok" => Chunked[x].len =< Len(x))
    BY <1>6, <2>1 DEF LiesIn
  <2>3. Chunked[x].len \in Nat
    BY <2>2 DEF Bodies
  <2>4. Chunked[x].status = "ok" => Chunked[x].len + 2 =< Len(b)
    BY <1>5, <2>1, <2>2, <2>3
  <2>5. Part(Chunked[x], 2, <<>>)
    BY <1>8, <1>9, <1>12, <2>2, <2>4
  <2> HIDE DEF Part
  <2> QED
    BY <1>11, <2>5
<1>13. ASSUME i > 1, IsControlLine(Upto(b, i - 1)), k = 0
       PROVE  Ok
  <2> DEFINE c == Trailer(x)
             l == i + 1
  <2>1. x \in Seq(Token) /\ Len(x) = Len(b) - i - 1
    BY <1>7, <1>13
  <2>2. c \in Bodies /\ (c.status = "ok" => c.len \in 2 .. Len(x))
    BY <2>1, TrailerIs
  <2>3. c.status = "ok" => c.len + l =< Len(b)
    BY <1>5, <1>8, <2>1, <2>2
  <2>4. l \in Nat /\ l > i /\ i # 0 /\ Chunked[b] = Shift(c, l, <<>>)
    BY <1>8, <1>9, <1>13
  <2> HIDE DEF c, l
  <2>5. Part(c, l, <<>>)
    BY <1>8, <2>2, <2>3, <2>4
  <2> HIDE DEF Part
  <2> QED
    BY <1>11, <2>5
<1>14. ASSUME i > 1, IsControlLine(Upto(b, i - 1)), k > 0, ~(Len(x) < k + 2),
              SubSeq(x, k + 1, k + 2) = CRLF
       PROVE  Ok
  <2> DEFINE z == From(x, k + 3)
             c == Chunked[z]
             l == i + k + 3
             d == Upto(x, k)
  <2>1. /\ x \in Seq(Token) /\ Len(x) = Len(b) - i - 1 /\ k \in Nat /\ Len(x) >= k + 2
        /\ Len(x) \in Nat
    BY <1>7, <1>14, LenProperties
  <2>2. z \in Seq(Token) /\ Len(z) = Len(x) - k - 2 /\ d \in Seq(Token)
    BY <2>1, AfterChunk
  <2>3. Len(z) < Len(b)
    BY <1>5, <1>8, <2>1, <2>2
  <2>4. c \in Bodies /\ (c.status = "ok" => c.len =< Len(z))
    BY <1>6, <2>2, <2>3 DEF LiesIn
  <2>5. l \in Nat /\ l > i /\ i # 0 /\ Chunked[b] = Shift(c, l, d)
    BY <1>8, <1>9, <1>14, <2>1
  <2>6. c.len \in Nat
    BY <2>4 DEF Bodies
  <2>7. c.status = "ok" => c.len + l =< Len(b)
    <3> HIDE DEF c, z
    <3> QED
      BY <1>5, <1>8, <2>1, <2>2, <2>4, <2>6
  <2> HIDE DEF c, l, d
  <2>8. Part(c, l, d)
    BY <2>2, <2>4, <2>5, <2>7
  <2> HIDE DEF Part
  <2> QED
    BY <1>11, <2>8
<1>15. Ok
  <2>1. i = 0 \/ i = 1 \/ i > 1
    BY <1>8
  <2>2. i > 1 => k = 0 \/ k > 0
    BY <1>7
  <2> QED
    BY <1>9, <1>10, <1>12, <1>13, <1>14, <2>1, <2>2
<1> QED
  BY <1>4, <1>15 DEF Ok

\* Frames[a], where f is asked for what is shorter.
FrameStep(f, a) ==
    LET end == DoubleNewline(a)
        text == LStrip(Upto(a, end))
        h == ParsedHeader(text, <<>>)
        body == From(a, end + 1)
        c == Chunked[body]
        rest(k, bytes) == <<Accepted(bytes)>> \o f[From(body, k + 1)]
    IN CASE end >= MaxHeader \/ (end = 0 /\ Len(a) >= MaxHeader) -> <<Rejected>>
         [] end = 0 /\ Len(a) < MaxHeader -> <<>>
         [] OTHER ->
              CASE text = <<>> -> f[body]
                [] text # <<>> /\ (~h.ok \/ h.kind = "big") -> <<Rejected>>
                [] OTHER ->
                     CASE h.kind = "none" -> rest(0, <<>>)
                       [] h.kind = "fixed" ->
                            IF Len(body) < BodyLength THEN <<>>
                            ELSE rest(BodyLength, Upto(body, BodyLength))
                       [] h.kind = "chunked" ->
                            CASE c.status = "error" \/ TooLong(c, body) -> <<Rejected>>
                              [] c.status = "ok" /\ ~TooLong(c, body) ->
                                   rest(c.len, c.data)
                              [] OTHER -> <<>>

Limits == /\ MaxHeader \in Nat /\ MaxHeader > 0 /\ MaxBody \in Nat /\ MaxBody > 0
          /\ BodyLength \in Nat /\ BodyLength > 0 /\ BodyLength < MaxBody

LEMMA LimitsAre == Limits
BY LimitsUsable DEF Limits

LEMMA HeaderIs == \A text, old : ParsedHeader(text, old).kind \in {"none", "fixed", "chunked", "big"}
BY DEF ParsedHeader

\* What comes of a chunked body that ends in a and has the rest c there, after
\* `done` bytes with the data buf in them; f frames what follows.
WholeWith(f, c, done, buf, a) ==
    IF c.status = "error" \/ done + (IF c.status = "ok" THEN c.len ELSE Len(a)) >= MaxBody
    THEN <<Rejected>>
    ELSE IF c.status = "ok" THEN <<Accepted(buf \o c.data)>> \o f[From(a, c.len + 1)]
    ELSE <<>>
Whole(c, done, buf, a) == WholeWith(Frames, c, done, buf, a)

\* The cases of FrameStep, one after the other.
FrameCases(f, a, e, text, h, x) ==
    /\ e >= MaxHeader => FrameStep(f, a) = <<Rejected>>
    /\ e = 0 => FrameStep(f, a) = IF Len(a) >= MaxHeader THEN <<Rejected>> ELSE <<>>
    /\ e # 0 /\ e < MaxHeader =>
          /\ x \in Seq(Token) /\ Len(x) = Len(a) - e /\ e \in Nat
          /\ text = <<>> => FrameStep(f, a) = f[x]
          /\ text # <<>> /\ (~h.ok \/ h.kind = "big") => FrameStep(f, a) = <<Rejected>>
          /\ text # <<>> /\ h.ok /\ h.kind = "none" =>
                FrameStep(f, a) = <<Accepted(<<>>)>> \o f[x]
          /\ text # <<>> /\ h.ok /\ h.kind = "fixed" =>
                FrameStep(f, a) =
                    IF Len(x) < BodyLength THEN <<>>
                    ELSE <<Accepted(Upto(x, BodyLength))>> \o f[From(x, BodyLength + 1)]
          /\ text # <<>> /\ h.ok /\ h.kind = "chunked" =>
                FrameStep(f, a) = WholeWith(f, Chunked[x], 0, <<>>, x)

LEMMA FrameStepIs ==
    ASSUME NEW f, NEW a \in Seq(Token)
    PROVE  LET e == DoubleNewline(a)
               text == LStrip(Upto(a, e))
           IN FrameCases(f, a, e, text, ParsedHeader(text, <<>>), From(a, e + 1))
<1> DEFINE e == DoubleNewline(a)
           text == LStrip(Upto(a, e))
           h == ParsedHeader(text, <<>>)
           x == From(a, e + 1)
<1> DEFINE c == Chunked[x]
           none == <<Accepted(<<>>)>> \o f[From(x, 0 + 1)]
           fixed == IF Len(x) < BodyLength THEN <<>>
                    ELSE <<Accepted(Upto(x, BodyLength))>> \o f[From(x, BodyLength + 1)]
           ok == <<Accepted(c.data)>> \o f[From(x, c.len + 1)]
           chunked == CASE c.status = "error" \/ TooLong(c, x) -> <<Rejected>>
                        [] c.status = "ok" /\ ~TooLong(c, x) -> ok
                        [] OTHER -> <<>>
           inner == CASE text = <<>> -> f[x]
                [] text # <<>> /\ (~h.ok \/ h.kind = "big") -> <<Rejected>>
                [] OTHER ->
                     CASE h.kind = "none" -> none
                       [] h.kind = "fixed" -> fixed
                       [] h.kind = "chunked" -> chunked
           F == FrameStep(f, a)
<1>1. F = CASE e >= MaxHeader \/ (e = 0 /\ Len(a) >= MaxHeader) -> <<Rejected>>
            [] e = 0 /\ Len(a) < MaxHeader -> <<>>
            [] OTHER -> inner
  BY DEF FrameStep
<1>2. /\ MaxHeader \in Nat /\ MaxHeader > 0 /\ Len(a) \in Nat
      /\ e \in Nat /\ (e # 0 => e \in 4 .. Len(a))
  BY LimitsAre, LenProperties, DoubleNewlineIs, DoubleNewlineIn DEF Limits
<1> HIDE DEF F, inner, h, text
<1>3. e >= MaxHeader => F = <<Rejected>>
  BY <1>1, <1>2
<1>4. e = 0 => F = IF Len(a) >= MaxHeader THEN <<Rejected>> ELSE <<>>
  BY <1>1, <1>2
<1>5. ASSUME e # 0, e < MaxHeader
      PROVE  F = inner
  BY <1>1, <1>2, <1>5
<1>6. ASSUME e # 0
      PROVE  x \in Seq(Token) /\ Len(x) = Len(a) - e
  <2> DEFINE m == e + 1
  <2>1. m \in 1 .. Len(a) + 1 /\ Len(a) + 1 - m = Len(a) - e
    BY <1>2, <1>6
  <2>2. From(a, m) \in Seq(Token) /\ Len(From(a, m)) = Len(a) + 1 - m
    <3> HIDE DEF m
    <3> QED
      BY <2>1, Cut
  <2> QED
    BY <2>1, <2>2
<1> HIDE DEF none, fixed, chunked
<1>7. text = <<>> => inner = f[x]
  BY DEF inner
<1>8. text # <<>> /\ (~h.ok \/ h.kind = "big") => inner = <<Rejected>>
  BY DEF inner
<1>9. ASSUME text # <<>>, h.ok, h.kind # "big"
      PROVE  inner = CASE h.kind = "none" -> none
                       [] h.kind = "fixed" -> fixed
                       [] h.kind = "chunked" -> chunked
  BY <1>9 DEF inner
<1>10. text # <<>> /\ h.ok /\ h.kind = "none" => inner = none
  BY <1>9
<1>11. text # <<>> /\ h.ok /\ h.kind = "fixed" => inner = fixed
  BY <1>9
<1>12. text # <<>> /\ h.ok /\ h.kind = "chunked" => inner = chunked
  BY <1>9
<1>13. e # 0 => none = <<Accepted(<<>>)>> \o f[x]
  <2> SUFFICES ASSUME e # 0 PROVE none = <<Accepted(<<>>)>> \o f[x]
    OBVIOUS
  <2>1. From(x, 1) = x
    BY <1>6, SubSeqFull DEF From
  <2>2. 0 + 1 = 1
    OBVIOUS
  <2> QED
    BY <2>1, <2>2 DEF none
<1>14. e # 0 => chunked = WholeWith(f, c, 0, <<>>, x)
  <2> SUFFICES ASSUME e # 0 PROVE chunked = WholeWith(f, c, 0, <<>>, x)
    OBVIOUS
  <2>1. LiesIn(c, x) /\ Len(x) \in Nat
    BY <1>6, ChunkedLiesIn, LenProperties
  <2>2. /\ c.len \in Nat /\ c.data \in Seq(Token)
    BY <2>1 DEF LiesIn, Bodies
  <2>3. <<>> \o c.data = c.data
    BY <2>2, ConcatEmptySeq
  <2>4. TooLong(c, x) <=> 0 + (IF c.status = "ok" THEN c.len ELSE Len(x)) >= MaxBody
    <3> HIDE DEF c
    <3>1. 0 + c.len = c.len /\ 0 + Len(x) = Len(x)
      BY <2>1, <2>2
    <3> QED
      BY <3>1 DEF TooLong
  <2> HIDE DEF c
  <2>5. ok = <<Accepted(<<>> \o c.data)>> \o f[From(x, c.len + 1)]
    BY <2>3
  <2> HIDE DEF ok
  <2>6. chunked = IF c.status = "error" \/ TooLong(c, x) THEN <<Rejected>>
                  ELSE IF c.status = "ok" THEN ok ELSE <<>>
    BY DEF chunked
  <2> QED
    BY <2>4, <2>5, <2>6 DEF WholeWith
<1>15. e # 0 /\ e < MaxHeader =>
                 /\ x \in Seq(Token) /\ Len(x) = Len(a) - e /\ e \in Nat
                 /\ text = <<>> => F = f[x]
                 /\ text # <<>> /\ (~h.ok \/ h.kind = "big") => F = <<Rejected>>
                 /\ text # <<>> /\ h.ok /\ h.kind = "none" => F = <<Accepted(<<>>)>> \o f[x]
                 /\ text # <<>> /\ h.ok /\ h.kind = "fixed" => F = fixed
                 /\ text # <<>> /\ h.ok /\ h.kind = "chunked" => F = WholeWith(f, c, 0, <<>>, x)
  BY <1>2, <1>5, <1>6, <1>7, <1>8, <1>10, <1>11, <1>12, <1>13, <1>14
<1>16. FrameCases(f, a, e, text, h, x)
  BY <1>3, <1>4, <1>15 DEF F, fixed, FrameCases
<1> QED
  BY <1>16 DEF h, text

\* What is left after k bytes.
LEMMA Rest ==
    ASSUME NEW a \in Seq(Token), NEW k \in Nat, Len(a) >= k
    PROVE  /\ From(a, k + 1) \in Seq(Token) /\ Len(From(a, k + 1)) = Len(a) - k
           /\ Upto(a, k) \in Seq(Token) /\ Len(Upto(a, k)) = k
<1> DEFINE m == k + 1
<1>1. Len(a) \in Nat
  BY LenProperties
<1>2. m \in 1 .. Len(a) + 1 /\ m - 1 = k /\ Len(a) + 1 - m = Len(a) - k
  BY <1>1
<1>3. /\ From(a, m) \in Seq(Token) /\ Len(From(a, m)) = Len(a) + 1 - m
      /\ Upto(a, m - 1) \in Seq(Token) /\ Len(Upto(a, m - 1)) = m - 1
  <2> HIDE DEF m
  <2> QED
    BY <1>2, Cut
<1> QED
  BY <1>2, <1>3

LEMMA FrameStepLocal ==
    ASSUME NEW a \in Seq(Token), NEW f, NEW g, AgreeBelow(f, g, a)
    PROVE  FrameStep(f, a) = FrameStep(g, a)
<1> DEFINE e == DoubleNewline(a)
           text == LStrip(Upto(a, e))
           h == ParsedHeader(text, <<>>)
           x == From(a, e + 1)
           c == Chunked[x]
<1>1. FrameCases(f, a, e, text, h, x) /\ FrameCases(g, a, e, text, h, x)
  BY FrameStepIs
<1>2. e \in Nat /\ MaxHeader \in Nat /\ Len(a) \in Nat /\ BodyLength \in Nat
  BY DoubleNewlineIs, LimitsAre, LenProperties DEF Limits
<1>3. h.kind \in {"none", "fixed", "chunked", "big"}
  BY HeaderIs
<1> HIDE DEF e, text, h, x
<1>4. CASE e >= MaxHeader
  BY <1>1, <1>4 DEF FrameCases
<1>5. CASE e = 0
  BY <1>1, <1>5 DEF FrameCases
<1>6. CASE e # 0 /\ e < MaxHeader
  <2>1. x \in Seq(Token) /\ Len(x) = Len(a) - e /\ Len(x) \in Nat /\ Len(x) < Len(a)
    <3>1. x \in Seq(Token) /\ Len(x) = Len(a) - e
      BY <1>1, <1>6 DEF FrameCases
    <3> QED
      BY <1>2, <1>6, <3>1, LenProperties
  <2>2. f[x] = g[x]
    BY <2>1 DEF AgreeBelow
  <2>3. ASSUME NEW k \in Nat, k =< Len(x)
        PROVE  f[From(x, k + 1)] = g[From(x, k + 1)]
    <3>1. From(x, k + 1) \in Seq(Token) /\ Len(From(x, k + 1)) = Len(x) - k
      BY <2>1, <2>3, Rest
    <3>2. Len(From(x, k + 1)) < Len(a)
      BY <1>2, <2>1, <2>3, <3>1
    <3> QED
      BY <3>1, <3>2 DEF AgreeBelow
  <2>4. CASE text = <<>>
    BY <1>1, <1>6, <2>2, <2>4 DEF FrameCases
  <2>5. CASE text # <<>> /\ (~h.ok \/ h.kind = "big")
    BY <1>1, <1>6, <2>5 DEF FrameCases
  <2>6. CASE text # <<>> /\ h.ok /\ h.kind = "none"
    BY <1>1, <1>6, <2>2, <2>6 DEF FrameCases
  <2>7. CASE text # <<>> /\ h.ok /\ h.kind = "fixed"
    <3> DEFINE fixed(q) == IF Len(x) < BodyLength THEN <<>>
                     ELSE <<Accepted(Upto(x, BodyLength))>> \o q[From(x, BodyLength + 1)]
    <3>1. FrameStep(f, a) = fixed(f) /\ FrameStep(g, a) = fixed(g)
      BY <1>1, <1>6, <2>7 DEF FrameCases
    <3>2. ~(Len(x) < BodyLength) => f[From(x, BodyLength + 1)] = g[From(x, BodyLength + 1)]
      BY <1>2, <2>1, <2>3
    <3>3. fixed(f) = fixed(g)
      BY <3>2
    <3> QED
      BY <3>1, <3>3
  <2>8. CASE text # <<>> /\ h.ok /\ h.kind = "chunked"
    <3>1. FrameStep(f, a) = WholeWith(f, c, 0, <<>>, x) /\ FrameStep(g, a) = WholeWith(g, c, 0, <<>>, x)
      BY <1>1, <1>6, <2>8 DEF FrameCases
    <3>2. LiesIn(c, x)
      BY <2>1, ChunkedLiesIn
    <3> HIDE DEF c
    <3>3. c.status = "ok" => c.len \in Nat /\ c.len =< Len(x)
      BY <3>2 DEF LiesIn, Bodies
    <3>4. c.status = "ok" => f[From(x, c.len + 1)] = g[From(x, c.len + 1)]
      BY <2>3, <3>3
    <3>5. WholeWith(f, c, 0, <<>>, x) = WholeWith(g, c, 0, <<>>, x)
      BY <3>4 DEF WholeWith
    <3> QED
      BY <3>1, <3>5
  <2> QED
    BY <1>3, <2>4, <2>5, <2>6, <2>7, <2>8
<1> QED
  BY <1>2, <1>4, <1>5, <1>6

IsFrames(g, k) == g = [a \in UpToLength(k) |-> FrameStep(g, a)]

LEMMA FramesUpTo ==
    ASSUME NEW k \in Nat
    PROVE  \E g : IsFrames(g, k)
<1> DEFINE T == {j \in Nat : ~\E g : IsFrames(g, j)}
<1>1. SUFFICES ASSUME T # {}
               PROVE  FALSE
  BY <1>1
<1>2. PICK j \in T : \A y \in T : j =< y
  BY <1>1, LeastOf
<1>3. PICK h : j = 0 \/ IsFrames(h, j - 1)
  <2>1. CASE j = 0
    BY <2>1
  <2>2. CASE j # 0
    <3>1. j - 1 \in Nat /\ ~(j =< j - 1)
      BY <1>2, <2>2
    <3> QED
      BY <1>2, <3>1
  <2> QED
    BY <2>1, <2>2
<1> DEFINE g == [a \in UpToLength(j) |-> FrameStep(h, a)]
<1>4. ASSUME NEW a \in UpToLength(j)
      PROVE  FrameStep(h, a) = FrameStep(g, a)
  <2>1. a \in Seq(Token) /\ Len(a) \in Nat /\ Len(a) =< j /\ j \in Nat
    BY <1>2, LenProperties DEF UpToLength
  <2>2. ASSUME NEW b \in Seq(Token), Len(b) < Len(a)
        PROVE  h[b] = g[b]
    <3>1. Len(b) \in Nat /\ j # 0 /\ Len(b) =< j - 1 /\ Len(b) =< j
      BY <2>1, <2>2, LenProperties
    <3>2. b \in UpToLength(j - 1) /\ b \in UpToLength(j)
      BY <3>1 DEF UpToLength
    <3>3. h[b] = FrameStep(h, b)
      BY <1>3, <3>1, <3>2 DEF IsFrames
    <3>4. g[b] = FrameStep(h, b)
      BY <3>2
    <3> QED
      BY <3>3, <3>4
  <2> HIDE DEF g
  <2>3. AgreeBelow(h, g, a)
    BY <2>2 DEF AgreeBelow
  <2> QED
    BY <2>1, <2>3, FrameStepLocal
<1>5. IsFrames(g, j)
  <2>1. [a \in UpToLength(j) |-> FrameStep(h, a)] = [a \in UpToLength(j) |-> FrameStep(g, a)]
    <3> HIDE DEF g
    <3> QED
      BY <1>4
  <2> QED
    BY <2>1 DEF IsFrames
<1> QED
  BY <1>2, <1>5

LEMMA FramesAgree ==
    ASSUME NEW k \in Nat, NEW m \in Nat, NEW g, NEW h, IsFrames(g, k), IsFrames(h, m),
           NEW a \in Seq(Token), Len(a) =< k, Len(a) =< m
    PROVE  g[a] = h[a]
<1> DEFINE Differ(b) == Len(b) =< k /\ Len(b) =< m /\ g[b] # h[b]
           T == {Len(b) : b \in {b \in Seq(Token) : Differ(b)}}
<1>1. SUFFICES ASSUME T # {}
               PROVE  FALSE
  BY <1>1
<1>2. T \in SUBSET Nat
  BY LenProperties
<1>3. PICK j \in T : \A y \in T : j =< y
  <2> HIDE DEF T
  <2> QED
    BY <1>1, <1>2, LeastOf
<1>4. PICK b \in Seq(Token) : Differ(b) /\ Len(b) = j
  BY <1>3
<1>5. Len(b) \in Nat
  BY LenProperties
<1>6. ASSUME NEW c \in Seq(Token), Len(c) < Len(b)
      PROVE  g[c] = h[c]
  <2>1. Len(c) \in Nat /\ Len(c) =< k /\ Len(c) =< m /\ ~(j =< Len(c))
    BY <1>4, <1>5, <1>6, LenProperties
  <2>2. Len(c) \notin T
    BY <1>3, <2>1
  <2> QED
    BY <2>1, <2>2
<1>7. AgreeBelow(g, h, b)
  BY <1>6 DEF AgreeBelow
<1>8. FrameStep(g, b) = FrameStep(h, b)
  BY <1>7, FrameStepLocal
<1>9. b \in UpToLength(k) /\ b \in UpToLength(m)
  BY <1>4 DEF UpToLength
<1>10. g[b] = FrameStep(g, b)
  BY <1>9 DEF IsFrames
<1>11. h[b] = FrameStep(h, b)
  BY <1>9 DEF IsFrames
<1> QED
  BY <1>4, <1>8, <1>10, <1>11

\* Frames satisfies its equation.
LEMMA FramesIs ==
    ASSUME NEW a \in Seq(Token)
    PROVE  Frames[a] = FrameStep(Frames, a)
<1> DEFINE For(b) == CHOOSE g : IsFrames(g, Len(b))
           G == [b \in Seq(Token) |-> For(b)[b]]
<1>1. ASSUME NEW b \in Seq(Token)
      PROVE  Len(b) \in Nat /\ IsFrames(For(b), Len(b))
  <2>1. Len(b) \in Nat
    BY LenProperties
  <2>2. \E g : IsFrames(g, Len(b))
    BY <2>1, FramesUpTo
  <2> QED
    BY <2>1, <2>2
<1>2. ASSUME NEW b \in Seq(Token)
      PROVE  For(b)[b] = FrameStep(G, b)
  <2>1. Len(b) \in Nat /\ IsFrames(For(b), Len(b))
    BY <1>1
  <2>2. b \in UpToLength(Len(b))
    BY <2>1 DEF UpToLength
  <2> DEFINE f == For(b)
  <2>3. f[b] = FrameStep(f, b)
    <3>1. IsFrames(f, Len(b))
      BY <2>1
    <3> HIDE DEF f
    <3> QED
      BY <2>2, <3>1 DEF IsFrames
  <2>4. ASSUME NEW c \in Seq(Token), Len(c) < Len(b)
        PROVE  f[c] = G[c]
    <3>1. Len(c) \in Nat /\ IsFrames(For(c), Len(c)) /\ Len(c) =< Len(b) /\ Len(c) =< Len(c)
      BY <1>1, <2>1, <2>4
    <3>2. G[c] = For(c)[c]
      OBVIOUS
    <3> DEFINE h == For(c)
    <3>3. IsFrames(h, Len(c)) /\ IsFrames(f, Len(b)) /\ G[c] = h[c]
      BY <2>1, <3>1, <3>2
    <3> HIDE DEF f, h, G
    <3>4. f[c] = h[c]
      BY <2>1, <3>1, <3>3, FramesAgree
    <3> QED
      BY <3>3, <3>4
  <2> HIDE DEF f, G
  <2>5. AgreeBelow(f, G, b)
    BY <2>4 DEF AgreeBelow
  <2>6. FrameStep(f, b) = FrameStep(G, b)
    BY <2>5, FrameStepLocal
  <2>7. f[b] = FrameStep(G, b)
    BY <2>3, <2>6
  <2> QED
    BY <2>7 DEF f
<1>3. G = [b \in Seq(Token) |-> FrameStep(G, b)]
  <2>1. G = [b \in Seq(Token) |-> For(b)[b]]
    OBVIOUS
  <2> HIDE DEF G, For
  <2> QED
    BY <1>2, <2>1
<1> HIDE DEF G
<1>4. \E f : f = [b \in Seq(Token) |-> FrameStep(f, b)]
  BY <1>3
<1> DEFINE C == CHOOSE f : f = [b \in Seq(Token) |-> FrameStep(f, b)]
<1>5. C = [b \in Seq(Token) |-> FrameStep(C, b)]
  BY <1>4
<1>6. Frames = C
  BY DEF Frames, FrameStep
<1> HIDE DEF C
<1>7. C[a] = FrameStep(C, a)
  BY <1>5
<1> QED
  BY <1>6, <1>7

LEMMA WholeTyped ==
    ASSUME NEW a \in Seq(Token), NEW c \in Bodies, NEW done, NEW buf \in Seq(Token),
           c.status = "ok" => c.len =< Len(a),
           \A b \in Seq(Token) : Len(b) =< Len(a) => Frames[b] \in Seq(Outcomes)
    PROVE  Whole(c, done, buf, a) \in Seq(Outcomes)
<1>1. <<>> \in Seq(Outcomes) /\ <<Rejected>> \in Seq(Outcomes)
  <2>1. Rejected \in Outcomes
    BY EmptySeq DEF Rejected, Outcomes
  <2> QED
    BY <2>1
<1>2. ASSUME c.status = "ok"
      PROVE  <<Accepted(buf \o c.data)>> \o Frames[From(a, c.len + 1)] \in Seq(Outcomes)
  <2>1. c.data \in Seq(Token) /\ c.len \in Nat
    BY DEF Bodies
  <2>2. buf \o c.data \in Seq(Token)
    BY <2>1, ConcatProperties
  <2>3. <<Accepted(buf \o c.data)>> \in Seq(Outcomes)
    <3>1. Accepted(buf \o c.data) \in Outcomes
      BY <2>2 DEF Accepted, Outcomes
    <3> QED
      BY <3>1
  <2>4. From(a, c.len + 1) \in Seq(Token) /\ Len(From(a, c.len + 1)) = Len(a) - c.len
    BY <1>2, <2>1, Rest
  <2>5. Len(From(a, c.len + 1)) =< Len(a)
    BY <2>1, <2>4, LenProperties
  <2>6. Frames[From(a, c.len + 1)] \in Seq(Outcomes)
    BY <2>4, <2>5
  <2> QED
    BY <2>3, <2>6, ConcatProperties
<1> QED
  BY <1>1, <1>2 DEF Whole, WholeWith

\* Frames gives requests.
LEMMA FramesTyped ==
    ASSUME NEW a \in Seq(Token)
    PROVE  Frames[a] \in Seq(Outcomes)
<1> DEFINE T == {Len(b) : b \in {b \in Seq(Token) : Frames[b] \notin Seq(Outcomes)}}
<1>1. SUFFICES ASSUME T # {}
               PROVE  FALSE
  BY <1>1
<1>2. T \in SUBSET Nat
  BY LenProperties
<1>3. PICK j \in T : \A y \in T : j =< y
  <2> HIDE DEF T
  <2> QED
    BY <1>1, <1>2, LeastOf
<1>4. PICK b \in Seq(Token) : Frames[b] \notin Seq(Outcomes) /\ Len(b) = j
  BY <1>3
<1>5. Len(b) \in Nat
  BY LenProperties
<1>6. ASSUME NEW c \in Seq(Token), Len(c) < Len(b)
      PROVE  Frames[c] \in Seq(Outcomes)
  <2>1. Len(c) \in Nat /\ ~(j =< Len(c))
    BY <1>4, <1>5, <1>6, LenProperties
  <2>2. Len(c) \notin T
    BY <1>3, <2>1
  <2> QED
    BY <2>2
<1> DEFINE e == DoubleNewline(b)
           text == LStrip(Upto(b, e))
           h == ParsedHeader(text, <<>>)
           x == From(b, e + 1)
           c == Chunked[x]
<1>7. FrameCases(Frames, b, e, text, h, x) /\ Frames[b] = FrameStep(Frames, b)
  BY FrameStepIs, FramesIs
<1>8. e \in Nat /\ MaxHeader \in Nat /\ BodyLength \in Nat
  BY DoubleNewlineIs, LimitsAre DEF Limits
<1>9. h.kind \in {"none", "fixed", "chunked", "big"}
  BY HeaderIs
<1>10. <<>> \in Seq(Outcomes) /\ <<Rejected>> \in Seq(Outcomes) /\ <<>> \in Seq(Token)
  <2>1. Rejected \in Outcomes
    BY EmptySeq DEF Rejected, Outcomes
  <2> QED
    BY <2>1
<1>11. ASSUME NEW d \in Seq(Token), NEW r \in Seq(Outcomes)
       PROVE  <<Accepted(d)>> \o r \in Seq(Outcomes)
  <2>1. Accepted(d) \in Outcomes
    BY DEF Accepted, Outcomes
  <2>2. <<Accepted(d)>> \in Seq(Outcomes)
    BY <2>1
  <2> QED
    BY <2>2, ConcatProperties
<1> HIDE DEF e, text, h, x
<1>12. e >= MaxHeader => Frames[b] \in Seq(Outcomes)
  BY <1>7, <1>10 DEF FrameCases
<1>13. e = 0 => Frames[b] \in Seq(Outcomes)
  BY <1>7, <1>10 DEF FrameCases
<1>14. ASSUME e # 0, e < MaxHeader
       PROVE  Frames[b] \in Seq(Outcomes)
  <2>1. x \in Seq(Token) /\ Len(x) = Len(b) - e /\ Len(x) \in Nat /\ Len(x) < Len(b)
    <3>1. x \in Seq(Token) /\ Len(x) = Len(b) - e
      BY <1>7, <1>14 DEF FrameCases
    <3> QED
      BY <1>5, <1>8, <1>14, <3>1, LenProperties
  <2>2. Frames[x] \in Seq(Outcomes)
    BY <1>6, <2>1
  <2>3. text = <<>> => Frames[b] \in Seq(Outcomes)
    BY <1>7, <1>14, <2>2 DEF FrameCases
  <2>4. text # <<>> /\ (~h.ok \/ h.kind = "big") => Frames[b] \in Seq(Outcomes)
    BY <1>7, <1>10, <1>14 DEF FrameCases
  <2>5. text # <<>> /\ h.ok /\ h.kind = "none" => Frames[b] \in Seq(Outcomes)
    <3>1. text # <<>> /\ h.ok /\ h.kind = "none" => Frames[b] = <<Accepted(<<>>)>> \o Frames[x]
      BY <1>7, <1>14 DEF FrameCases
    <3> QED
      BY <1>10, <1>11, <2>2, <3>1
  <2>6. text # <<>> /\ h.ok /\ h.kind = "fixed" => Frames[b] \in Seq(Outcomes)
    <3>1. text # <<>> /\ h.ok /\ h.kind = "fixed" =>
             Frames[b] = IF Len(x) < BodyLength THEN <<>>
                         ELSE <<Accepted(Upto(x, BodyLength))>> \o Frames[From(x, BodyLength + 1)]
      BY <1>7, <1>14 DEF FrameCases
    <3>2. ASSUME ~(Len(x) < BodyLength)
          PROVE  <<Accepted(Upto(x, BodyLength))>> \o Frames[From(x, BodyLength + 1)] \in Seq(Outcomes)
      <4>1. /\ From(x, BodyLength + 1) \in Seq(Token) /\ Len(From(x, BodyLength + 1)) = Len(x) - BodyLength
            /\ Upto(x, BodyLength) \in Seq(Token)
        <5>1. BodyLength \in Nat /\ Len(x) >= BodyLength
          BY <1>8, <2>1, <3>2
        <5> QED
          BY <2>1, <5>1, Rest
      <4>2. Len(From(x, BodyLength + 1)) < Len(b)
        BY <1>5, <1>8, <2>1, <4>1
      <4> QED
        BY <1>6, <1>11, <4>1, <4>2
    <3> QED
      BY <1>10, <3>1, <3>2
  <2>7. text # <<>> /\ h.ok /\ h.kind = "chunked" => Frames[b] \in Seq(Outcomes)
    <3>1. text # <<>> /\ h.ok /\ h.kind = "chunked" => Frames[b] = Whole(c, 0, <<>>, x)
      BY <1>7, <1>14 DEF FrameCases, Whole
    <3>2. c \in Bodies /\ (c.status = "ok" => c.len =< Len(x))
      BY <2>1, ChunkedLiesIn DEF LiesIn
    <3>3. \A d \in Seq(Token) : Len(d) =< Len(x) => Frames[d] \in Seq(Outcomes)
      <4> TAKE d \in Seq(Token)
      <4>1. Len(d) \in Nat
        BY LenProperties
      <4> QED
        BY <1>5, <1>6, <2>1, <4>1
    <3> HIDE DEF c
    <3>4. Whole(c, 0, <<>>, x) \in Seq(Outcomes)
      BY <1>10, <2>1, <3>2, <3>3, WholeTyped
    <3> QED
      BY <3>1, <3>4
  <2> QED
    BY <1>9, <2>3, <2>4, <2>5, <2>6, <2>7
<1> QED
  BY <1>4, <1>8, <1>12, <1>13, <1>14

----------------------------------------------------------------------------
(* A chunked body that is read in parts *)

Fits(c, a) == c \in Bodies /\ (c.status = "ok" => c.len =< Len(a))

\* What precedes the rest of a body can be counted apart.
LEMMA WholeShift ==
    ASSUME NEW c, NEW done \in Int, NEW buf \in Seq(Token),
           NEW p \in Seq(Token), NEW a \in Seq(Token), NEW d \in Seq(Token),
           Fits(c, a)
    PROVE  Whole(Shift(c, Len(p), d), done, buf, p \o a) = Whole(c, done + Len(p), buf \o d, a)
<1> DEFINE k == Len(p)
           e == Shift(c, k, d)
<1>1. k \in Nat /\ Len(a) \in Nat /\ Len(p \o a) = k + Len(a)
  BY LenProperties, ConcatProperties
<1>2. /\ c \in Bodies /\ c.len \in Nat /\ c.data \in Seq(Token)
      /\ c.status = "ok" => c.len =< Len(a)
  BY DEF Fits, Bodies
<1>3. e.status = c.status /\ e.len = c.len + k /\ e.data = d \o c.data
  BY <1>1, <1>2, ShiftIs
<1>4. buf \o (d \o c.data) = (buf \o d) \o c.data
  BY <1>2, Associative
<1>5. c.status = "ok" => From(p \o a, c.len + k + 1) = From(a, c.len + 1)
  <2> SUFFICES ASSUME c.status = "ok"
               PROVE  From(p \o a, c.len + k + 1) = From(a, c.len + 1)
    OBVIOUS
  <2>1. c.len \in 0 .. Len(a)
    BY <1>2
  <2>2. From(p \o a, Len(p) + c.len + 1) = From(a, c.len + 1)
    BY <2>1, CutOfSecond
  <2>3. Len(p) + c.len + 1 = c.len + k + 1
    BY <1>1, <1>2
  <2> QED
    BY <2>2, <2>3
<1> HIDE DEF e, k
<1>6. /\ done + (c.len + k) = (done + k) + c.len
      /\ done + (k + Len(a)) = (done + k) + Len(a)
  <2>1. ASSUME NEW x \in Int, NEW y \in Int, NEW z \in Int
        PROVE  x + (y + z) = (x + z) + y /\ x + (y + z) = (x + y) + z
    OBVIOUS
  <2>2. c.len \in Int /\ k \in Int /\ Len(a) \in Int
    BY <1>1, <1>2
  <2> QED
    BY <2>1, <2>2
<1>7. CASE c.status = "ok"
  BY <1>3, <1>4, <1>5, <1>6, <1>7 DEF Whole, WholeWith, e, k
<1>8. CASE c.status # "ok"
  BY <1>1, <1>3, <1>6, <1>8 DEF Whole, WholeWith, e, k
<1> QED
  BY <1>7, <1>8

\* What remains of a chunk of which k bytes are to come, and then of the body.
After(k, a) ==
    IF Len(a) < k + 2 THEN More
    ELSE IF SubSeq(a, k + 1, k + 2) = CRLF
         THEN Shift(Chunked[From(a, k + 3)], k + 2, Upto(a, k))
         ELSE Bad

WholeAfter(k, a, done, buf) ==
    IF Len(a) < k + 2 THEN (IF done + Len(a) >= MaxBody THEN <<Rejected>> ELSE <<>>)
    ELSE IF SubSeq(a, k + 1, k + 2) = CRLF
         THEN Whole(Chunked[From(a, k + 3)], done + k + 2, buf \o Upto(a, k), From(a, k + 3))
         ELSE <<Rejected>>

LEMMA WholeOfNone ==
    ASSUME NEW done \in Int, NEW buf, NEW a
    PROVE  /\ Whole(More, done, buf, a) =
                 IF done + Len(a) >= MaxBody THEN <<Rejected>> ELSE <<>>
           /\ Whole(Bad, done, buf, a) = <<Rejected>>
BY DEF Whole, WholeWith, More, Bad

LEMMA AfterIs ==
    ASSUME NEW k \in Nat, NEW a \in Seq(Token), NEW done \in Int, NEW buf \in Seq(Token)
    PROVE  Whole(After(k, a), done, buf, a) = WholeAfter(k, a, done, buf)
<1>1. CASE Len(a) < k + 2
  BY <1>1, WholeOfNone DEF After, WholeAfter
<1>2. CASE ~(Len(a) < k + 2) /\ SubSeq(a, k + 1, k + 2) # CRLF
  BY <1>2, WholeOfNone DEF After, WholeAfter
<1>3. CASE ~(Len(a) < k + 2) /\ SubSeq(a, k + 1, k + 2) = CRLF
  <2> DEFINE m == k + 2
             p == Upto(a, m)
             z == From(a, k + 3)
             c == Chunked[z]
             d == Upto(a, k)
  <2>1. Len(a) >= k + 2 /\ m \in Nat /\ m \in 0 .. Len(a) /\ Len(a) >= m
    BY <1>3, LenProperties
  <2>2. z \in Seq(Token) /\ d \in Seq(Token)
    BY <2>1, AfterChunk
  <2>3. p \in Seq(Token) /\ Len(p) = m /\ p \o From(a, m + 1) = a
    <3> HIDE DEF m
    <3> QED
      BY <2>1, Rest, Joined
  <2>4. m + 1 = k + 3
    OBVIOUS
  <2>5. Fits(c, z)
    BY <2>2, ChunkedLiesIn DEF LiesIn, Fits
  <2>6. After(k, a) = Shift(c, m, d)
    BY <1>3 DEF After
  <2>7. WholeAfter(k, a, done, buf) = Whole(c, done + m, buf \o d, z)
    <3>1. done + k + 2 = done + m
      OBVIOUS
    <3> QED
      BY <1>3, <3>1 DEF WholeAfter
  <2>8. p \o z = a
    BY <2>3, <2>4
  <2> HIDE DEF p, z, c, d, m
  <2>9. Whole(Shift(c, Len(p), d), done, buf, p \o z) = Whole(c, done + Len(p), buf \o d, z)
    <3>1. p \in Seq(Token)
      BY <2>3
    <3> QED
      BY <2>2, <2>5, <3>1, WholeShift
  <2> QED
    BY <2>3, <2>6, <2>7, <2>8, <2>9
<1> QED
  BY <1>1, <1>2, <1>3

\* The first j bytes of it.
LEMMA AfterPart ==
    ASSUME NEW k \in Nat, NEW a \in Seq(Token), NEW done \in Int, NEW buf \in Seq(Token),
           NEW j \in 0 .. k, j =< Len(a)
    PROVE  WholeAfter(k, a, done, buf) =
               WholeAfter(k - j, From(a, j + 1), done + j, buf \o Upto(a, j))
<1> DEFINE b == From(a, j + 1)
           u == Upto(a, j)
           l == k - j
<1>1. Len(a) \in Nat /\ j \in Nat /\ Len(a) >= j /\ j \in 0 .. Len(a)
  BY LenProperties
<1>2. /\ b \in Seq(Token) /\ Len(b) = Len(a) - j
      /\ u \in Seq(Token) /\ Len(u) = j /\ u \o b = a
  BY <1>1, Rest, Joined
<1>3. l \in Nat
  OBVIOUS
<1> HIDE DEF b, u
<1>4. CASE Len(a) < k + 2
  <2>1. Len(b) < l + 2 /\ done + j + Len(b) = done + Len(a)
    BY <1>1, <1>2, <1>4
  <2> QED
    BY <1>4, <2>1 DEF WholeAfter, b, u
<1>5. CASE ~(Len(a) < k + 2)
  <2>1. ~(Len(b) < l + 2) /\ Len(b) \in Nat
    BY <1>1, <1>2, <1>5
  <2>2. SubSeq(a, k + 1, k + 2) = SubSeq(b, l + 1, l + 2)
    <3> DEFINE v == k + 1
               w == k + 2
    <3>1. /\ v \in Len(u) + 1 .. Len(u) + Len(b) /\ w \in Len(u) + 1 .. Len(u) + Len(b)
          /\ v - Len(u) = l + 1 /\ w - Len(u) = l + 2
      BY <1>1, <1>2, <1>5
    <3> HIDE DEF v, w
    <3>2. SubSeq(u \o b, v, w) = SubSeq(b, v - Len(u), w - Len(u))
      BY <1>2, <3>1, SubSeqOfConcat2
    <3> QED
      BY <1>2, <3>1, <3>2 DEF v, w
  <2> DEFINE q == l + 2
  <2>3. q \in 0 .. Len(b) /\ l \in 0 .. Len(b)
    BY <1>3, <2>1
  <2>4. From(u \o b, Len(u) + q + 1) = From(b, q + 1) /\ Upto(u \o b, Len(u) + l) = u \o Upto(b, l)
    <3> HIDE DEF q, l
    <3> QED
      BY <1>2, <2>3, CutOfSecond
  <2>5. Len(u) + q + 1 = k + 3 /\ q + 1 = l + 3 /\ Len(u) + l = k
    BY <1>1, <1>2
  <2>6. From(a, k + 3) = From(b, l + 3) /\ Upto(a, k) = u \o Upto(b, l)
    BY <1>2, <2>4, <2>5
  <2>7. buf \o (u \o Upto(b, l)) = (buf \o u) \o Upto(b, l)
    <3>1. Upto(b, l) \in Seq(Token)
      <4> HIDE DEF l
      <4> QED
        BY <1>2, <1>3, <2>1, <2>3, Rest
    <3> HIDE DEF l
    <3> QED
      BY <1>2, <3>1, Associative
  <2>8. done + k + 2 = done + j + l + 2
    BY <1>1
  <2> DEFINE goal == WholeAfter(l, b, done + j, buf \o u)
  <2>9. goal = IF SubSeq(b, l + 1, l + 2) = CRLF
               THEN Whole(Chunked[From(b, l + 3)], done + j + l + 2, (buf \o u) \o Upto(b, l), From(b, l + 3))
               ELSE <<Rejected>>
    <3> HIDE DEF l
    <3> QED
      BY <2>1 DEF WholeAfter
  <2>10. WholeAfter(k, a, done, buf) =
             IF SubSeq(a, k + 1, k + 2) = CRLF
             THEN Whole(Chunked[From(a, k + 3)], done + k + 2, buf \o Upto(a, k), From(a, k + 3))
             ELSE <<Rejected>>
    BY <1>5 DEF WholeAfter
  <2> HIDE DEF l
  <2>11. WholeAfter(k, a, done, buf) = goal
    <3> HIDE DEF goal
    <3> QED
      BY <2>2, <2>6, <2>7, <2>8, <2>9, <2>10
  <2> QED
    BY <2>11 DEF b, u, l
<1> QED
  BY <1>4, <1>5

\* How a body that begins with a control line goes on.
LineCases(a, i, x, k, done, buf) ==
    LET whole == Whole(Chunked[a], done, buf, a)
        control == IsControlLine(Upto(a, i - 1))
    IN /\ i = 0 => whole = IF done + Len(a) >= MaxBody THEN <<Rejected>> ELSE <<>>
       /\ i = 1 => whole = Whole(Chunked[x], done + 2, buf, x)
       /\ i > 1 /\ ~control => whole = <<Rejected>>
       /\ i > 1 /\ control /\ k = 0 => whole = Whole(Trailer(x), done + i + 1, buf, x)
       /\ i > 1 /\ control /\ k > 0 => whole = WholeAfter(k, x, done + i + 1, buf)

LEMMA LineIs ==
    ASSUME NEW a \in Seq(Token), NEW done \in Int, NEW buf \in Seq(Token)
    PROVE  LET i == Find(a, CRLF)
           IN LineCases(a, i, From(a, i + 2), Size(SizePart(Upto(a, i - 1))), done, buf)
<1> DEFINE i == Find(a, CRLF)
           x == From(a, i + 2)
           k == Size(SizePart(Upto(a, i - 1)))
           control == IsControlLine(Upto(a, i - 1))
           whole == Whole(Chunked[a], done, buf, a)
           m == i + 1
           p == Upto(a, m)
<1>1. /\ i = 0 => Chunked[a] = More
      /\ i = 1 => Chunked[a] = Shift(Chunked[x], 2, <<>>)
      /\ i > 1 /\ ~control => Chunked[a] = Bad
      /\ i > 1 /\ control =>
            /\ k = 0 => Chunked[a] = Shift(Trailer(x), i + 1, <<>>)
            /\ k > 0 /\ Len(x) < k + 2 => Chunked[a] = More
            /\ k > 0 /\ ~(Len(x) < k + 2) =>
                  IF SubSeq(x, k + 1, k + 2) = CRLF
                  THEN Chunked[a] = Shift(Chunked[From(x, k + 3)], i + k + 3, Upto(x, k))
                  ELSE Chunked[a] = Bad
  BY ChunkedBegins
<1>2. i = 0 => whole = IF done + Len(a) >= MaxBody THEN <<Rejected>> ELSE <<>>
  BY <1>1, WholeOfNone
<1>3. i > 1 /\ ~control => whole = <<Rejected>>
  BY <1>1, WholeOfNone
<1>4. i # 0 => /\ x \in Seq(Token) /\ Len(x) = Len(a) - i - 1 /\ Len(x) \in Nat
               /\ i \in 1 .. Len(a) - 1 /\ k \in Nat
  BY AfterLine, LenProperties
<1>5. i \in Nat /\ Len(a) \in Nat /\ <<>> \in Seq(Token) /\ buf \o <<>> = buf
  BY LineEndIs, LenProperties, EmptySeq, ConcatEmptySeq
<1>6. i # 0 => /\ p \in Seq(Token) /\ Len(p) = i + 1 /\ p \o x = a
               /\ m \in Nat /\ m \in 0 .. Len(a)
  <2> SUFFICES ASSUME i # 0
               PROVE  /\ p \in Seq(Token) /\ Len(p) = i + 1 /\ p \o x = a
                      /\ m \in Nat /\ m \in 0 .. Len(a)
    OBVIOUS
  <2>1. m \in Nat /\ Len(a) >= m /\ m \in 0 .. Len(a) /\ m + 1 = i + 2
    <3> HIDE DEF i
    <3> QED
      BY <1>4, <1>5
  <2>2. p \in Seq(Token) /\ Len(p) = m /\ p \o From(a, m + 1) = a
    <3> HIDE DEF m
    <3> QED
      BY <2>1, Rest, Joined
  <2> QED
    BY <2>1, <2>2
<1> HIDE DEF k, x, i, p
<1>7. ASSUME NEW c, Fits(c, x), i # 0, Chunked[a] = Shift(c, i + 1, <<>>)
      PROVE  whole = Whole(c, done + i + 1, buf, x)
  <2> DEFINE none == <<>>
  <2>3. p \in Seq(Token) /\ Len(p) = i + 1 /\ x \in Seq(Token)
    BY <1>4, <1>6, <1>7
  <2>5. p \o x = a
    BY <1>6, <1>7
  <2>4. none \in Seq(Token) /\ Fits(c, x)
    BY <1>5, <1>7
  <2>1. Whole(Shift(c, Len(p), none), done, buf, p \o x) = Whole(c, done + Len(p), buf \o none, x)
    <3>1. p \in Seq(Token) /\ x \in Seq(Token)
      BY <2>3
    <3> HIDE DEF none
    <3> QED
      BY <2>4, <3>1, WholeShift
  <2>2. done + Len(p) = done + i + 1
    BY <1>5, <2>3
  <2> QED
    BY <1>5, <1>7, <2>1, <2>2, <2>5
<1>8. ASSUME i = 1
      PROVE  whole = Whole(Chunked[x], done + 2, buf, x)
  <2>1. Fits(Chunked[x], x) /\ Chunked[a] = Shift(Chunked[x], i + 1, <<>>)
    BY <1>1, <1>4, <1>8, ChunkedLiesIn DEF Fits, LiesIn
  <2>2. whole = Whole(Chunked[x], done + i + 1, buf, x)
    <3> HIDE DEF whole
    <3> QED
      BY <1>7, <1>8, <2>1
  <2>3. done + i + 1 = done + 2
    BY <1>8
  <2> QED
    BY <2>2, <2>3
<1>9. ASSUME i > 1, control, k = 0
      PROVE  whole = Whole(Trailer(x), done + i + 1, buf, x)
  <2>1. i # 0
    BY <1>9
  <2>2. Fits(Trailer(x), x) /\ Chunked[a] = Shift(Trailer(x), i + 1, <<>>)
    BY <1>1, <1>4, <1>9, <2>1, TrailerIs DEF Fits
  <2> HIDE DEF whole
  <2> QED
    BY <1>7, <2>1, <2>2
<1>10. ASSUME i > 1, control, k > 0
       PROVE  whole = WholeAfter(k, x, done + i + 1, buf)
  <2>1. i # 0 /\ k \in Nat /\ Len(x) = Len(a) - i - 1 /\ x \in Seq(Token)
    BY <1>4, <1>10
  <2>5. p \in Seq(Token) /\ Len(p) = i + 1 /\ p \o x = a
    BY <1>6, <2>1
  <2>2. CASE Len(x) < k + 2
    <3>1. whole = IF done + Len(a) >= MaxBody THEN <<Rejected>> ELSE <<>>
      BY <1>1, <1>10, <2>2, WholeOfNone
    <3>2. done + i + 1 + Len(x) = done + Len(a)
      BY <1>5, <2>1
    <3> QED
      BY <2>2, <3>1, <3>2 DEF WholeAfter
  <2>3. CASE ~(Len(x) < k + 2) /\ SubSeq(x, k + 1, k + 2) # CRLF
    <3>1. whole = <<Rejected>>
      BY <1>1, <1>10, <2>3, WholeOfNone
    <3> QED
      BY <2>3, <3>1 DEF WholeAfter
  <2>4. CASE ~(Len(x) < k + 2) /\ SubSeq(x, k + 1, k + 2) = CRLF
    <3> DEFINE z == From(x, k + 3)
               c == Chunked[z]
               d == Upto(x, k)
               l == k + 2
               j == i + k + 3
               u == p \o Upto(x, l)
    <3>1. Chunked[a] = Shift(c, j, d)
      BY <1>1, <1>10, <2>4
    <3>2. z \in Seq(Token) /\ d \in Seq(Token)
      <4>1. x \in Seq(Token) /\ k \in Nat
        BY <2>1
      <4>2. Len(x) >= k + 2
        <5>1. Len(x) \in Nat
          BY <4>1, LenProperties
        <5> QED
          BY <2>4, <4>1, <5>1
      <4> QED
        BY <4>1, <4>2, AfterChunk
    <3>3. Fits(c, z)
      BY <3>2, ChunkedLiesIn DEF Fits, LiesIn
    <3>4. u \in Seq(Token) /\ Len(u) = j /\ u \o z = a
      <4>1. l \in Nat /\ Len(x) >= l /\ l \in 0 .. Len(x) /\ l + 1 = k + 3
        BY <1>4, <2>1, <2>4
      <4>2. /\ Upto(x, l) \in Seq(Token) /\ Len(Upto(x, l)) = l
            /\ Upto(x, l) \o From(x, l + 1) = x
        <5> HIDE DEF l
        <5> QED
          BY <2>1, <4>1, Rest, Joined
      <4> DEFINE v == Upto(x, l)
      <4>3. v \in Seq(Token) /\ Len(v) = l /\ v \o z = x
        BY <4>1, <4>2
      <4> HIDE DEF v, z
      <4>4. p \o v \in Seq(Token) /\ Len(p \o v) = Len(p) + Len(v)
        BY <2>1, <2>5, <4>3, ConcatProperties
      <4>5. (p \o v) \o z = p \o (v \o z)
        <5>1. p \in Seq(Token) /\ v \in Seq(Token) /\ z \in Seq(Token)
          BY <2>5, <3>2, <4>3
        <5> QED
          BY <5>1, Associative
      <4>6. Len(p) + Len(v) = j
        BY <1>5, <2>1, <2>5, <4>3
      <4> QED
        BY <2>1, <2>5, <4>3, <4>4, <4>5, <4>6 DEF v
    <3>5. WholeAfter(k, x, done + i + 1, buf) = Whole(c, done + i + 1 + k + 2, buf \o d, z)
      BY <2>4 DEF WholeAfter
    <3> HIDE DEF z, c, d, u, j
    <3>6. Whole(Shift(c, Len(u), d), done, buf, u \o z) = Whole(c, done + Len(u), buf \o d, z)
      <4>1. u \in Seq(Token)
        BY <3>4
      <4> QED
        BY <3>2, <3>3, <4>1, WholeShift
    <3>7. done + Len(u) = done + i + 1 + k + 2
      BY <1>5, <2>1, <3>4 DEF j
    <3> QED
      BY <3>1, <3>4, <3>5, <3>6, <3>7
  <2> QED
    BY <2>2, <2>3, <2>4
<1>11. LineCases(a, i, x, k, done, buf)
  <2> HIDE DEF whole, control
  <2> QED
    BY <1>2, <1>3, <1>8, <1>9, <1>10 DEF LineCases, whole, control
<1> QED
  BY <1>11 DEF i, x, k

----------------------------------------------------------------------------
(* What a ChunkedReceiver stands for *)

\* Its fields are used one after the other: chunk_remainder, then chunk_end, then
\* control_line, and after the last chunk trailer.
ChunkReceiver(r) ==
    /\ ReceiverKept(r)
    /\ ~r.validate => r.end = <<>>
    /\ r.validate => r.remain = 0
    /\ r.validate \/ r.remain > 0 \/ r.all => r.line = <<>>

\* The bytes that it has kept, and the rest of the body, which begins with them.
Kept(r) == IF r.validate THEN r.end ELSE IF r.all THEN r.trailer ELSE r.line

ChunkRest(r, a) ==
    IF r.validate \/ r.remain > 0 THEN After(r.remain, a)
    ELSE IF r.all THEN Trailer(a)
    ELSE Chunked[a]

\* What comes of it when a follows the bytes that it has been given, `done` of them.
RestOf(r, done, a) == Whole(ChunkRest(r, Kept(r) \o a), done - Len(Kept(r)), r.buf, Kept(r) \o a)

LEMMA KeptIs ==
    ASSUME NEW r, ChunkReceiver(r)
    PROVE  /\ Kept(r) \in Seq(Token) /\ Len(Kept(r)) \in Nat
           /\ r.remain \in Nat /\ r.buf \in Seq(Token)
           /\ r.end \in Seq(Token) /\ r.line \in Seq(Token) /\ r.trailer \in Seq(Token)
<1>1. /\ r.remain \in Nat /\ r.buf \in Seq(Token)
      /\ r.end \in Seq(Token) /\ r.line \in Seq(Token) /\ r.trailer \in Seq(Token)
  BY DEF ChunkReceiver, ReceiverKept
<1>2. Kept(r) \in Seq(Token)
  BY <1>1 DEF Kept
<1> QED
  BY <1>1, <1>2, LenProperties

RestCases(r, done, a) ==
    /\ r.validate => RestOf(r, done, a) = WholeAfter(0, r.end \o a, done - Len(r.end), r.buf)
    /\ r.remain > 0 => RestOf(r, done, a) = WholeAfter(r.remain, a, done, r.buf)
    /\ ~r.validate /\ r.remain = 0 /\ r.all =>
          RestOf(r, done, a) =
              Whole(Trailer(r.trailer \o a), done - Len(r.trailer), r.buf, r.trailer \o a)
    /\ ~r.validate /\ r.remain = 0 /\ ~r.all =>
          RestOf(r, done, a) =
              Whole(Chunked[r.line \o a], done - Len(r.line), r.buf, r.line \o a)

LEMMA RestIs ==
    ASSUME NEW r, ChunkReceiver(r), NEW done \in Int, NEW a \in Seq(Token)
    PROVE  RestCases(r, done, a)
<1>1. /\ r.remain \in Nat /\ r.buf \in Seq(Token) /\ r.end \in Seq(Token)
      /\ r.all => r.remain = 0
      /\ r.validate => r.remain = 0
      /\ r.remain > 0 => r.line = <<>>
  BY KeptIs DEF ChunkReceiver, ReceiverKept
<1>2. ASSUME r.validate
      PROVE  RestOf(r, done, a) = WholeAfter(0, r.end \o a, done - Len(r.end), r.buf)
  <2> DEFINE b == r.end \o a
             d == done - Len(r.end)
             z == 0
  <2>1. b \in Seq(Token) /\ d \in Int /\ z \in Nat
    BY <1>1, ConcatProperties, LenProperties
  <2>2. RestOf(r, done, a) = Whole(After(z, b), d, r.buf, b)
    BY <1>1, <1>2 DEF RestOf, Kept, ChunkRest
  <2> HIDE DEF b, d, z
  <2>3. Whole(After(z, b), d, r.buf, b) = WholeAfter(z, b, d, r.buf)
    BY <1>1, <2>1, AfterIs
  <2> QED
    BY <2>2, <2>3 DEF b, d, z
<1>3. ASSUME r.remain > 0
      PROVE  RestOf(r, done, a) = WholeAfter(r.remain, a, done, r.buf)
  <2>1. Kept(r) = <<>>
    BY <1>1, <1>3 DEF Kept
  <2>2. Kept(r) \o a = a /\ Len(Kept(r)) = 0
    BY <2>1, ConcatEmptySeq, EmptySeq
  <2>3. done - Len(Kept(r)) = done
    BY <2>2
  <2>4. RestOf(r, done, a) = Whole(After(r.remain, a), done, r.buf, a)
    BY <1>3, <2>2, <2>3 DEF RestOf, ChunkRest
  <2>5. Whole(After(r.remain, a), done, r.buf, a) = WholeAfter(r.remain, a, done, r.buf)
    BY <1>1, AfterIs
  <2> QED
    BY <2>4, <2>5
<1>4. ~r.validate /\ r.remain = 0 /\ r.all =>
          RestOf(r, done, a) =
              Whole(Trailer(r.trailer \o a), done - Len(r.trailer), r.buf, r.trailer \o a)
  BY DEF RestOf, Kept, ChunkRest
<1>5. ~r.validate /\ r.remain = 0 /\ ~r.all =>
          RestOf(r, done, a) =
              Whole(Chunked[r.line \o a], done - Len(r.line), r.buf, r.line \o a)
  BY DEF RestOf, Kept, ChunkRest
<1> QED
  BY <1>2, <1>3, <1>4, <1>5 DEF RestCases

\* The receiver q after r has been given j more bytes of a chunk.
TakesData(r, q, a, j) ==
    /\ r.remain > 0 /\ j =< r.remain /\ j =< Len(a)
    /\ q.remain = r.remain - j /\ q.buf = r.buf \o Upto(a, j)
    /\ q.validate <=> q.remain = 0
    /\ q.end = <<>>

LEMMA RestAfterData ==
    ASSUME NEW r, ChunkReceiver(r), NEW q, ChunkReceiver(q), NEW done \in Int,
           NEW a \in Seq(Token), NEW b \in Seq(Token), NEW j \in Nat, TakesData(r, q, a, j)
    PROVE  RestOf(r, done, a \o b) = RestOf(q, done + j, From(a, j + 1) \o b)
<1>0. /\ r.remain > 0 /\ j =< r.remain /\ j =< Len(a)
      /\ q.remain = r.remain - j /\ q.buf = r.buf \o Upto(a, j)
      /\ q.validate <=> q.remain = 0
      /\ q.end = <<>>
  BY DEF TakesData
<1> DEFINE c == a \o b
           d == From(a, j + 1) \o b
<1>1. /\ r.remain \in Nat /\ r.buf \in Seq(Token) /\ q.remain \in Nat /\ q.buf \in Seq(Token)
      /\ Len(a) \in Nat /\ Len(b) \in Nat
  BY KeptIs, LenProperties
<1>2. j \in 0 .. Len(a) /\ j \in 0 .. r.remain /\ Len(a) >= j
  BY <1>0, <1>1
<1>3. From(c, j + 1) = d /\ Upto(c, j) = Upto(a, j)
  BY <1>2, CutOfLonger
<1>4. c \in Seq(Token) /\ Len(c) = Len(a) + Len(b)
  BY ConcatProperties
<1>5. d \in Seq(Token)
  BY <1>1, <1>2, Rest, ConcatProperties
<1>6. j =< Len(c)
  BY <1>0, <1>1, <1>4
<1> HIDE DEF c, d
<1>7. RestOf(r, done, c) = WholeAfter(r.remain, c, done, r.buf)
  BY <1>0, <1>4, RestIs DEF RestCases
<1>8. WholeAfter(r.remain, c, done, r.buf) =
          WholeAfter(r.remain - j, From(c, j + 1), done + j, r.buf \o Upto(c, j))
  <2> DEFINE k == r.remain
             bytes == r.buf
  <2>1. k \in Nat /\ bytes \in Seq(Token) /\ c \in Seq(Token) /\ j \in 0 .. k /\ j =< Len(c)
    BY <1>1, <1>2, <1>4, <1>6
  <2> HIDE DEF k, bytes
  <2>2. WholeAfter(k, c, done, bytes) = WholeAfter(k - j, From(c, j + 1), done + j, bytes \o Upto(c, j))
    BY <2>1, AfterPart
  <2> QED
    BY <2>2 DEF k, bytes
<1>9. WholeAfter(r.remain - j, From(c, j + 1), done + j, r.buf \o Upto(c, j)) =
          WholeAfter(q.remain, d, done + j, q.buf)
  BY <1>0, <1>3
<1>10. RestOf(q, done + j, d) = WholeAfter(q.remain, d, done + j, q.buf)
  <2> DEFINE e == done + j
  <2>1. e \in Int
    OBVIOUS
  <2> HIDE DEF e
  <2>2. RestCases(q, e, d)
    BY <1>5, <2>1, RestIs
  <2>3. CASE q.remain > 0
    BY <2>2, <2>3 DEF RestCases, e
  <2>4. CASE q.remain = 0
    <3>1. RestOf(q, e, d) = WholeAfter(0, q.end \o d, e - Len(q.end), q.buf)
      BY <1>0, <2>2, <2>4 DEF RestCases
    <3>2. q.end \o d = d /\ Len(q.end) = 0
      BY <1>0, <1>5, ConcatEmptySeq, EmptySeq
    <3>3. e - Len(q.end) = e
      BY <2>1, <3>2
    <3> QED
      BY <2>4, <3>1, <3>2, <3>3 DEF e
  <2> QED
    BY <1>1, <2>3, <2>4
<1> QED
  BY <1>7, <1>8, <1>9, <1>10 DEF c, d

\* What is kept because it is unfinished.
LEMMA RestAfterKept ==
    ASSUME NEW r, ChunkReceiver(r), NEW q, ChunkReceiver(q), NEW done \in Int,
           NEW a \in Seq(Token), NEW b \in Seq(Token),
           Kept(q) = Kept(r) \o a, q.buf = r.buf, q.remain = r.remain,
           q.validate = r.validate, q.all = r.all
    PROVE  RestOf(r, done, a \o b) = RestOf(q, done + Len(a), b)
<1>1. Kept(r) \in Seq(Token) /\ Len(Kept(r)) \in Nat /\ Len(a) \in Nat
  BY KeptIs, LenProperties
<1>2. (Kept(r) \o a) \o b = Kept(r) \o (a \o b) /\ Len(Kept(r) \o a) = Len(Kept(r)) + Len(a)
  BY <1>1, Associative, ConcatProperties
<1> DEFINE x == Kept(r) \o (a \o b)
           k == Len(Kept(r))
<1>3. RestOf(r, done, a \o b) = Whole(ChunkRest(r, x), done - k, r.buf, x)
  BY DEF RestOf
<1>4. RestOf(q, done + Len(a), b) = Whole(ChunkRest(q, x), done + Len(a) - (k + Len(a)), r.buf, x)
  BY <1>2 DEF RestOf
<1> HIDE DEF x, k
<1>5. done + Len(a) - (k + Len(a)) = done - k
  BY <1>1 DEF k
<1>6. ChunkRest(q, x) = ChunkRest(r, x)
  BY DEF ChunkRest
<1> QED
  BY <1>3, <1>4, <1>5, <1>6

\* A prefix is a prefix of what is longer.
LEMMA FirstTwo ==
    ASSUME NEW a \in Seq(Token), NEW b \in Seq(Token), Len(a) >= 2
    PROVE  SubSeq(a \o b, 1, 2) = SubSeq(a, 1, 2)
<1>1. 1 \in 1 .. Len(a) /\ 2 \in 1 .. Len(a)
  BY LenProperties
<1> QED
  BY <1>1, SubSeqOfConcat1

LEMMA BeginsWithLineEnd ==
    ASSUME NEW a \in Seq(Token)
    PROVE  Find(a, CRLF) = 1 <=> Len(a) >= 2 /\ SubSeq(a, 1, 2) = CRLF
<1> DEFINE p == CRLF
           i == 1
<1>1. p \in Seq(Token) /\ Len(p) = 2 /\ Len(a) \in Nat
  BY Patterns, LenProperties
<1> HIDE DEF p
<1>2. ASSUME Find(a, p) = 1
      PROVE  Len(a) >= 2 /\ SubSeq(a, 1, 2) = p
  <2>1. Find(a, p) \in 1 .. Len(a) - Len(p) + 1
        /\ SubSeq(a, Find(a, p), Find(a, p) + Len(p) - 1) = p
    <3>1. Find(a, p) # 0
      BY <1>2
    <3> QED
      BY <1>1, <3>1, FindFacts
  <2>2. Find(a, p) + Len(p) - 1 = 2
    BY <1>1, <1>2
  <2> QED
    BY <1>1, <1>2, <2>1, <2>2
<1>3. ASSUME Len(a) >= 2, SubSeq(a, 1, 2) = p
      PROVE  Find(a, p) = 1
  <2>1. i \in 1 .. Len(a) - Len(p) + 1 /\ i + Len(p) - 1 = 2 /\ i = 1
    BY <1>1, <1>3
  <2> HIDE DEF i
  <2>2. SubSeq(a, i, i + Len(p) - 1) = p
    BY <1>3, <2>1
  <2>3. Find(a, p) # 0 /\ Find(a, p) =< i
    BY <1>1, <2>1, <2>2, FirstFound
  <2>4. Find(a, p) \in Nat
    BY <1>1, FindFacts
  <2> QED
    BY <2>1, <2>3, <2>4
<1> QED
  BY <1>2, <1>3 DEF p

\* A receiver that has the data buf and is to read a control line.
AtLine(q, buf) ==
    /\ ChunkReceiver(q)
    /\ ~q.validate /\ q.remain = 0 /\ ~q.all
    /\ q.line = <<>> /\ q.buf = buf

\* A chunk has ended; x is what has been kept of its line end, and a.
AtChunkEnd(r, a, x) == r.validate /\ x = r.end \o a /\ Len(x) >= 2

\* The line end of a chunk.
LEMMA RestAfterChunk ==
    ASSUME NEW r, ChunkReceiver(r), NEW done \in Int,
           NEW a \in Seq(Token), NEW b \in Seq(Token), NEW x, AtChunkEnd(r, a, x)
    PROVE  /\ Find(x, CRLF) # 1 => RestOf(r, done, a \o b) = <<Rejected>>
           /\ \A q : AtLine(q, r.buf) /\ Find(x, CRLF) = 1 =>
                 RestOf(r, done, a \o b) =
                     RestOf(q, done + Len(a) - Len(From(x, 3)), From(x, 3) \o b)
<1>0. r.validate /\ x = r.end \o a /\ Len(x) >= 2
  BY DEF AtChunkEnd
<1> DEFINE k == Len(r.end)
           c == x \o b
           d == done - k
           z == From(x, 3) \o b
           whole == RestOf(r, done, a \o b)
<1>1. /\ r.end \in Seq(Token) /\ r.buf \in Seq(Token) /\ k \in Nat /\ Len(a) \in Nat
      /\ x \in Seq(Token) /\ Len(x) = k + Len(a) /\ d \in Int
  BY <1>0, KeptIs, LenProperties, ConcatProperties
<1>2. c = r.end \o (a \o b) /\ c \in Seq(Token) /\ a \o b \in Seq(Token)
      /\ Len(c) = Len(x) + Len(b) /\ Len(b) \in Nat
  <2>1. r.end \in Seq(Token) /\ x \in Seq(Token)
    BY <1>1
  <2>2. (r.end \o a) \o b = r.end \o (a \o b)
    BY <2>1, Associative
  <2>3. x \o b \in Seq(Token) /\ Len(x \o b) = Len(x) + Len(b) /\ a \o b \in Seq(Token)
    BY <2>1, ConcatProperties
  <2> QED
    BY <1>0, <2>2, <2>3, LenProperties
<1>3. whole = WholeAfter(0, c, d, r.buf)
  <2> DEFINE y == a \o b
  <2>1. y \in Seq(Token)
    BY <1>2
  <2> HIDE DEF y
  <2>2. RestCases(r, done, y)
    BY <2>1, RestIs
  <2>3. RestOf(r, done, y) = WholeAfter(0, r.end \o y, done - Len(r.end), r.buf)
    BY <1>0, <2>2 DEF RestCases
  <2> QED
    BY <1>2, <2>3 DEF y
<1>4. SubSeq(c, 0 + 1, 0 + 2) = SubSeq(x, 1, 2) /\ ~(Len(c) < 0 + 2)
  <2>1. x \in Seq(Token) /\ Len(x) \in Nat /\ Len(x) >= 2
    BY <1>0, <1>1
  <2>2. SubSeq(x \o b, 1, 2) = SubSeq(x, 1, 2)
    BY <2>1, FirstTwo
  <2>3. ~(Len(c) < 0 + 2)
    BY <1>2, <2>1
  <2>4. 0 + 1 = 1 /\ 0 + 2 = 2
    OBVIOUS
  <2> QED
    BY <2>2, <2>3, <2>4
<1>5. Find(x, CRLF) = 1 <=> SubSeq(x, 1, 2) = CRLF
  <2>1. x \in Seq(Token) /\ Len(x) >= 2
    BY <1>0, <1>1
  <2> QED
    BY <2>1, BeginsWithLineEnd
<1> DEFINE two == 2
<1>6. two \in 0 .. Len(x) /\ Len(x) >= two /\ two \in Nat
  BY <1>0, <1>1
<1>7. From(c, two + 1) = From(x, two + 1) \o b /\ From(x, two + 1) \in Seq(Token)
      /\ Len(From(x, two + 1)) = Len(x) - two
  <2> HIDE DEF two
  <2> QED
    BY <1>1, <1>6, CutOfLonger, Rest
<1>8. From(c, 0 + 3) = z /\ From(x, 3) \in Seq(Token) /\ Len(From(x, 3)) = k + Len(a) - 2
  BY <1>1, <1>7
<1>9. Upto(c, 0) = <<>> /\ r.buf \o <<>> = r.buf
  BY <1>1, SubSeqEmpty, ConcatEmptySeq DEF Upto
<1>10. z \in Seq(Token)
  BY <1>8, ConcatProperties
<1> HIDE DEF c, z, d
<1>11. Find(x, CRLF) # 1 => whole = <<Rejected>>
  BY <1>3, <1>4, <1>5 DEF WholeAfter
<1>12. ASSUME NEW q, AtLine(q, r.buf), Find(x, CRLF) = 1
       PROVE  whole = RestOf(q, done + Len(a) - Len(From(x, 3)), z)
  <2>1. whole = Whole(Chunked[z], d + 0 + 2, r.buf, z)
    BY <1>3, <1>4, <1>5, <1>8, <1>9, <1>12 DEF WholeAfter
  <2> DEFINE e == done + Len(a) - Len(From(x, 3))
  <2>2. e = d + 0 + 2 /\ e \in Int
    <3>1. ASSUME NEW i \in Int, NEW l \in Int, NEW m \in Int, m = k + l - 2, k \in Int
          PROVE  i + l - m = i - k + 0 + 2 /\ i + l - m \in Int
      <4> DEFINE kk == k
      <4> HIDE DEF kk
      <4>1. kk \in Int /\ m = kk + l - 2
        BY <3>1 DEF kk
      <4>2. i + l - m = i - kk + 0 + 2 /\ i + l - m \in Int
        BY <4>1
      <4> QED
        BY <4>2 DEF kk
    <3>2. Len(From(x, 3)) = k + Len(a) - 2 /\ Len(a) \in Int /\ k \in Int /\ Len(From(x, 3)) \in Int
      BY <1>1, <1>8
    <3> QED
      BY <3>1, <3>2 DEF d
  <2> HIDE DEF e
  <2>3. RestCases(q, e, z)
    BY <1>10, <1>12, <2>2, RestIs DEF AtLine
  <2>4. RestOf(q, e, z) = Whole(Chunked[q.line \o z], e - Len(q.line), q.buf, q.line \o z)
    BY <1>12, <2>3 DEF RestCases, AtLine
  <2>5. <<>> \o z = z /\ Len(<<>>) = 0
    BY <1>10, ConcatEmptySeq, EmptySeq
  <2>6. e - 0 = e
    BY <2>2
  <2>7. RestOf(q, e, z) = Whole(Chunked[z], d + 0 + 2, r.buf, z)
    BY <1>12, <2>2, <2>4, <2>5, <2>6 DEF AtLine
  <2> QED
    BY <2>1, <2>7 DEF e
<1> QED
  BY <1>11, <1>12 DEF z

\* A receiver that has kept nothing.
LEMMA RestBegins ==
    ASSUME NEW q, ChunkReceiver(q), ~q.validate, q.line = <<>>, q.trailer = <<>>,
           NEW done \in Int, NEW a \in Seq(Token)
    PROVE  RestOf(q, done, a) =
               IF q.remain > 0 THEN WholeAfter(q.remain, a, done, q.buf)
               ELSE IF q.all THEN Whole(Trailer(a), done, q.buf, a)
               ELSE Whole(Chunked[a], done, q.buf, a)
<1>1. RestCases(q, done, a)
  BY RestIs
<1>2. <<>> \o a = a /\ Len(<<>>) = 0 /\ done - 0 = done
  BY ConcatEmptySeq, EmptySeq
<1>3. q.remain \in Nat
  BY KeptIs
<1>4. CASE q.remain > 0
  BY <1>1, <1>4 DEF RestCases
<1>5. CASE q.remain = 0 /\ q.all
  BY <1>1, <1>2, <1>5 DEF RestCases
<1>6. CASE q.remain = 0 /\ ~q.all
  BY <1>1, <1>2, <1>6 DEF RestCases
<1> QED
  BY <1>3, <1>4, <1>5, <1>6

LEMMA ValueChosen ==
    ASSUME NEW d, NEW k \in Nat
    PROVE  IsValue(CHOOSE f : IsValue(f, d, k), d, k)
<1>1. \E f : IsValue(f, d, k)
  BY ValueExists
<1> QED
  BY <1>1

\* An empty line has the size 0.
LEMMA NoSize == Size(SizePart(<<>>)) = 0
<1> DEFINE e == <<>>
<1>1. Find(e, <<";">>) = 0
  <2> DEFINE p == <<";">>
  <2>1. e \in Seq(Token) /\ Len(e) = 0
    BY EmptySeq
  <2>2. ASSUME NEW c \in Token
        PROVE  <<c>> \in Seq(Token) /\ Len(<<c>>) = 1
    OBVIOUS
  <2>3. ";" \in Token
    BY DEF Token
  <2>4. p \in Seq(Token) /\ Len(p) = 1
    BY <2>2, <2>3
  <2> HIDE DEF e, p
  <2>5. Len(p) > 0
    BY <2>4
  <2>6. Find(e, p) = 0
    BY <2>1, <2>4, <2>5, NothingIsThere
  <2> QED
    BY <2>6 DEF e, p
<1>2. SizePart(e) = e
  BY <1>1 DEF SizePart
<1> DEFINE d == BeforeFinalLF(e)
           k == Len(d)
<1>3. Size(e) = (CHOOSE f : IsValue(f, d, k))[k]
  BY DEF Size, IsValue
<1>4. k = 0
  <2>1. BeforeFinalLF(e) = e /\ Len(e) = 0
    BY EmptySeq DEF BeforeFinalLF
  <2> QED
    BY <2>1
<1>5. k \in Nat
  BY <1>4
<1> HIDE DEF e, d, k
<1>6. IsValue(CHOOSE f : IsValue(f, d, k), d, k)
  BY <1>5, ValueChosen
<1>7. ASSUME NEW f, IsValue(f, d, k)
      PROVE  f[k] = 0
  BY <1>4, <1>5, <1>7 DEF IsValue
<1>8. Size(e) = 0
  BY <1>3, <1>6, <1>7
<1> QED
  BY <1>2, <1>8 DEF e

\* What a receiver that has the data buf does with a control line.
TakesLine(q, buf, line) ==
    /\ ChunkReceiver(q)
    /\ ~q.validate /\ q.line = <<>> /\ q.trailer = <<>> /\ q.buf = buf
    /\ q.remain = Size(SizePart(line))
    /\ q.all <=> line # <<>> /\ q.remain = 0

\* A control line ends at i; x is what has been kept of it, and a.
AtLineEnd(r, a, x, i) ==
    /\ ~r.validate /\ r.remain = 0 /\ ~r.all
    /\ x = r.line \o a /\ i = Find(x, CRLF) /\ i # 0

\* The end of a control line.
LEMMA RestAfterLine ==
    ASSUME NEW r, ChunkReceiver(r),
           NEW done \in Int, NEW a \in Seq(Token), NEW b \in Seq(Token),
           NEW x, NEW i, AtLineEnd(r, a, x, i)
    PROVE  LET line == Upto(x, i - 1)
               rest == From(x, i + 2)
           IN /\ line # <<>> /\ ~IsControlLine(line) => RestOf(r, done, a \o b) = <<Rejected>>
              /\ line = <<>> \/ IsControlLine(line) =>
                    \A q : TakesLine(q, r.buf, line) =>
                       RestOf(r, done, a \o b) = RestOf(q, done + Len(a) - Len(rest), rest \o b)
<1>0. /\ ~r.validate /\ r.remain = 0 /\ ~r.all
      /\ x = r.line \o a /\ i = Find(x, CRLF) /\ i # 0
  BY DEF AtLineEnd
<1> DEFINE l == r.line
           line == Upto(x, i - 1)
           rest == From(x, i + 2)
           k == Size(SizePart(line))
           c == x \o b
           d == done - Len(l)
           z == rest \o b
           whole == RestOf(r, done, a \o b)
           e == done + Len(a) - Len(rest)
<1>1. /\ l \in Seq(Token) /\ r.buf \in Seq(Token) /\ Len(l) \in Nat /\ Len(a) \in Nat
      /\ x \in Seq(Token) /\ Len(x) = Len(l) + Len(a) /\ Len(x) \in Nat /\ d \in Int
  BY <1>0, KeptIs, LenProperties, ConcatProperties
<1>2. c = l \o (a \o b) /\ c \in Seq(Token) /\ a \o b \in Seq(Token)
  <2>1. l \in Seq(Token) /\ x \in Seq(Token)
    BY <1>1
  <2> HIDE DEF l
  <2>2. (l \o a) \o b = l \o (a \o b)
    BY <2>1, Associative
  <2>3. x \o b \in Seq(Token) /\ a \o b \in Seq(Token)
    BY <2>1, ConcatProperties
  <2> QED
    BY <1>0, <2>2, <2>3 DEF l
<1>3. whole = Whole(Chunked[c], d, r.buf, c)
  <2> DEFINE y == a \o b
  <2>1. y \in Seq(Token)
    BY <1>2
  <2> HIDE DEF y
  <2>2. RestCases(r, done, y)
    BY <2>1, RestIs
  <2>3. RestOf(r, done, y) = Whole(Chunked[l \o y], d, r.buf, l \o y)
    BY <1>0, <2>2 DEF RestCases
  <2> QED
    BY <1>2, <2>3 DEF y
<1>4. /\ i \in 1 .. Len(x) - 1 /\ rest \in Seq(Token) /\ Len(rest) = Len(x) - i - 1
      /\ k \in Nat
  <2>1. x \in Seq(Token) /\ Find(x, CRLF) # 0
    BY <1>0, <1>1
  <2>2. /\ From(x, Find(x, CRLF) + 2) \in Seq(Token)
        /\ Len(From(x, Find(x, CRLF) + 2)) = Len(x) - Find(x, CRLF) - 1
        /\ Find(x, CRLF) \in 1 .. Len(x) - 1
        /\ Size(SizePart(Upto(x, Find(x, CRLF) - 1))) \in Nat
    BY <2>1, AfterLine
  <2> QED
    BY <1>0, <2>2
<1>5. Find(c, CRLF) = i
  <2> DEFINE p == CRLF
  <2>1. p \in Seq(Token) /\ Len(p) > 0 /\ x \in Seq(Token) /\ Find(x, p) # 0
    BY <1>0, <1>1, Patterns
  <2> HIDE DEF p
  <2>2. Find(x \o b, p) = Find(x, p)
    BY <2>1, FoundStays
  <2> QED
    BY <1>0, <2>2 DEF p
<1> DEFINE m == i + 1
           h == i - 1
<1>6. m \in 0 .. Len(x) /\ h \in 0 .. Len(x) /\ m + 1 = i + 2 /\ h \in Nat
      /\ Len(x) >= h
  <2>1. i \in 1 .. Len(x) - 1 /\ Len(x) \in Nat
    BY <1>1, <1>4
  <2> QED
    BY <2>1
<1>7. From(c, m + 1) = From(x, m + 1) \o b /\ Upto(c, h) = Upto(x, h)
      /\ Upto(x, h) \in Seq(Token) /\ Len(Upto(x, h)) = h
  <2>1. x \in Seq(Token)
    BY <1>1
  <2> HIDE DEF m, h
  <2> QED
    BY <1>6, <2>1, CutOfLonger, Rest
<1>8. From(c, i + 2) = z /\ Upto(c, i - 1) = line
      /\ line \in Seq(Token) /\ Len(line) = i - 1
  BY <1>6, <1>7
<1>9. LineCases(c, i, z, k, d, r.buf)
  <2>1. c \in Seq(Token) /\ d \in Int /\ r.buf \in Seq(Token)
    BY <1>1, <1>2
  <2>2. LineCases(c, Find(c, CRLF), From(c, Find(c, CRLF) + 2),
                  Size(SizePart(Upto(c, Find(c, CRLF) - 1))), d, r.buf)
    <3> HIDE DEF c, d
    <3> QED
      BY <2>1, LineIs
  <2> QED
    BY <1>5, <1>8, <2>2
<1>10. line = <<>> <=> i = 1
  BY <1>4, <1>8, EmptySeq
<1>11. e = d + i + 1 /\ e \in Int /\ z \in Seq(Token)
  <2>1. ASSUME NEW p \in Int, NEW q \in Int, NEW u \in Int, NEW j \in Int
        PROVE  p + q - (u + q - j - 1) = p - u + j + 1
               /\ p + q - (u + q - j - 1) \in Int
    OBVIOUS
  <2>2. Len(rest) = Len(l) + Len(a) - i - 1 /\ Len(l) \in Int /\ Len(a) \in Int /\ i \in Int
    <3>1. /\ Len(l) \in Nat /\ Len(a) \in Nat /\ Len(x) = Len(l) + Len(a)
          /\ i \in 1 .. Len(x) - 1 /\ Len(rest) = Len(x) - i - 1
      BY <1>1, <1>4
    <3> HIDE DEF l, rest
    <3> QED
      BY <3>1
  <2>3. z \in Seq(Token)
    <3>1. rest \in Seq(Token)
      BY <1>4
    <3> HIDE DEF rest
    <3> QED
      BY <3>1, ConcatProperties
  <2> HIDE DEF l, rest
  <2> QED
    BY <2>1, <2>2, <2>3 DEF d, e
<1>12. i > 1 <=> i # 1
  BY <1>4
<1> HIDE DEF c, d, z, e, k, line
<1>13. ASSUME line # <<>>, ~IsControlLine(line)
       PROVE  whole = <<Rejected>>
  BY <1>3, <1>8, <1>9, <1>10, <1>12, <1>13 DEF LineCases
<1>14. ASSUME line = <<>> \/ IsControlLine(line), NEW q, TakesLine(q, r.buf, line)
       PROVE  whole = RestOf(q, e, z)
  <2>1. RestOf(q, e, z) =
            IF q.remain > 0 THEN WholeAfter(q.remain, z, e, q.buf)
            ELSE IF q.all THEN Whole(Trailer(z), e, q.buf, z)
            ELSE Whole(Chunked[z], e, q.buf, z)
    BY <1>11, <1>14, RestBegins DEF TakesLine
  <2>2. q.remain = k /\ q.buf = r.buf /\ (q.all <=> line # <<>> /\ k = 0)
    BY <1>14 DEF TakesLine, k
  <2>3. CASE i = 1
    <3>1. line = <<>> /\ k = 0 /\ e = d + 2
      <4>1. line = <<>>
        BY <1>10, <2>3
      <4>2. k = 0
        BY <4>1, NoSize DEF k
      <4>3. d + i + 1 = d + 2
        BY <1>1, <2>3
      <4> QED
        BY <1>11, <4>1, <4>2, <4>3
    <3>2. whole = Whole(Chunked[z], d + 2, r.buf, z)
      BY <1>3, <1>9, <2>3 DEF LineCases
    <3>3. ~(k > 0)
      BY <3>1
    <3> QED
      BY <2>1, <2>2, <3>1, <3>2, <3>3
  <2>4. CASE i > 1
    <3>1. line # <<>> /\ IsControlLine(Upto(c, i - 1))
      BY <1>8, <1>10, <1>12, <1>14, <2>4
    <3>2. CASE k = 0
      <4>1. whole = Whole(Trailer(z), d + i + 1, r.buf, z)
        BY <1>3, <1>9, <2>4, <3>1, <3>2 DEF LineCases
      <4>2. ~(k > 0)
        BY <3>2
      <4> QED
        BY <1>11, <2>1, <2>2, <3>1, <3>2, <4>1, <4>2
    <3>3. CASE k > 0
      <4>1. whole = WholeAfter(k, z, d + i + 1, r.buf)
        BY <1>3, <1>9, <2>4, <3>1, <3>3 DEF LineCases
      <4> QED
        BY <1>11, <2>1, <2>2, <3>3, <4>1
    <3> QED
      BY <1>4, <3>2, <3>3
  <2> QED
    BY <1>12, <2>3, <2>4
<1> QED
  BY <1>13, <1>14 DEF z, e, line

\* Where the trailer ends, or 0.
EndOfTrailer(a) == IF IsPrefix(CRLF, a) THEN 2 ELSE DoubleNewline(a)

LEMMA PrefixStays ==
    ASSUME NEW a \in Seq(Token), NEW b \in Seq(Token)
    PROVE  /\ IsPrefix(CRLF, a) => Len(a) >= 2
           /\ Len(a) >= 2 => (IsPrefix(CRLF, a \o b) <=> IsPrefix(CRLF, a))
<1>1. Len(a) \in Nat /\ Len(b) \in Nat /\ Len(a \o b) = Len(a) + Len(b) /\ Len(CRLF) = 2
  BY LenProperties, ConcatProperties, Patterns
<1>2. IsPrefix(CRLF, a) => Len(a) >= 2
  BY <1>1 DEF IsPrefix
<1>3. ASSUME Len(a) >= 2
      PROVE  IsPrefix(CRLF, a \o b) <=> IsPrefix(CRLF, a)
  <2>1. SubSeq(a \o b, 1, 2) = SubSeq(a, 1, 2)
    BY <1>3, FirstTwo
  <2>2. 2 =< Len(a \o b) /\ 2 =< Len(a)
    BY <1>1, <1>3
  <2> QED
    BY <1>1, <2>1, <2>2 DEF IsPrefix
<1> QED
  BY <1>2, <1>3

LEMMA EndOfTrailerIs ==
    ASSUME NEW a \in Seq(Token)
    PROVE  /\ EndOfTrailer(a) = 0 =>
                 Trailer(a) = More /\ ~IsPrefix(CRLF, a) /\ DoubleNewline(a) = 0
           /\ EndOfTrailer(a) # 0 =>
                 /\ Trailer(a) = [status |-> "ok", len |-> EndOfTrailer(a), data |-> <<>>]
                 /\ EndOfTrailer(a) \in 2 .. Len(a)
<1>1. CASE IsPrefix(CRLF, a)
  <2>1. EndOfTrailer(a) = 2 /\ Len(a) >= 2 /\ Len(a) \in Nat
    BY <1>1, PrefixStays, LenProperties DEF EndOfTrailer
  <2> QED
    BY <1>1, <2>1 DEF Trailer
<1>2. CASE ~IsPrefix(CRLF, a)
  <2> DEFINE m == DoubleNewline(a)
  <2>1. EndOfTrailer(a) = m
    BY <1>2 DEF EndOfTrailer
  <2>2. m # 0 => m \in 4 .. Len(a)
    BY DoubleNewlineIn
  <2>3. m = 0 => Trailer(a) = More
    BY <1>2 DEF Trailer
  <2>4. m # 0 => Trailer(a) = [status |-> "ok", len |-> m, data |-> <<>>]
    BY <1>2 DEF Trailer
  <2> HIDE DEF m
  <2>5. m # 0 => m \in 2 .. Len(a)
    BY <2>2, LenProperties
  <2> QED
    BY <1>2, <2>1, <2>3, <2>4, <2>5 DEF m
<1> QED
  BY <1>1, <1>2

LEMMA EndOfTrailerStays ==
    ASSUME NEW a \in Seq(Token), NEW b \in Seq(Token)
    PROVE  /\ EndOfTrailer(a) # 0 => EndOfTrailer(a \o b) = EndOfTrailer(a)
           /\ EndOfTrailer(a) = 0 /\ EndOfTrailer(a \o b) # 0 => EndOfTrailer(a \o b) >= Len(a)
<1>1. Len(a) \in Nat
  BY LenProperties
<1>2. ASSUME EndOfTrailer(a) # 0
      PROVE  EndOfTrailer(a \o b) = EndOfTrailer(a)
  <2>1. Len(a) >= 2
    BY <1>1, <1>2, EndOfTrailerIs
  <2>2. IsPrefix(CRLF, a \o b) <=> IsPrefix(CRLF, a)
    BY <2>1, PrefixStays
  <2>3. CASE IsPrefix(CRLF, a)
    BY <2>2, <2>3 DEF EndOfTrailer
  <2>4. CASE ~IsPrefix(CRLF, a)
    <3>1. DoubleNewline(a) # 0
      BY <1>2, <2>4 DEF EndOfTrailer
    <3>2. DoubleNewline(a \o b) = DoubleNewline(a)
      BY <3>1, DoubleNewlineStays
    <3> QED
      BY <2>2, <2>4, <3>2 DEF EndOfTrailer
  <2> QED
    BY <2>3, <2>4
<1>3. ASSUME EndOfTrailer(a) = 0, EndOfTrailer(a \o b) # 0
      PROVE  EndOfTrailer(a \o b) >= Len(a)
  <2>1. DoubleNewline(a) = 0 /\ ~IsPrefix(CRLF, a)
    BY <1>3, EndOfTrailerIs
  <2>2. CASE IsPrefix(CRLF, a \o b)
    <3>1. ~(Len(a) >= 2)
      BY <2>1, <2>2, PrefixStays
    <3>2. EndOfTrailer(a \o b) = 2
      BY <2>2 DEF EndOfTrailer
    <3> QED
      BY <1>1, <3>1, <3>2
  <2>3. CASE ~IsPrefix(CRLF, a \o b)
    <3> DEFINE m == DoubleNewline(a \o b)
    <3>1. EndOfTrailer(a \o b) = m /\ m # 0
      BY <1>3, <2>3 DEF EndOfTrailer
    <3>2. a \o b \in Seq(Token)
      BY ConcatProperties
    <3>3. m > Len(a) /\ m \in Nat
      BY <2>1, <3>1, <3>2, DoubleNewlineBeyond, DoubleNewlineIs
    <3> HIDE DEF m
    <3> QED
      BY <1>1, <3>1, <3>3
  <2> QED
    BY <2>2, <2>3
<1> QED
  BY <1>2, <1>3

\* The trailer ends at i; x is what has been kept of it, and a.
AtTrailerEnd(r, a, x, i) == r.all /\ x = r.trailer \o a /\ i = EndOfTrailer(x) /\ i # 0

\* The end of the trailer.
LEMMA RestAfterTrailer ==
    ASSUME NEW r, ChunkReceiver(r),
           NEW done \in Int, NEW a \in Seq(Token), NEW b \in Seq(Token),
           NEW x, NEW i, AtTrailerEnd(r, a, x, i)
    PROVE  RestOf(r, done, a \o b) =
               IF done + Len(a) - (Len(x) - i) >= MaxBody THEN <<Rejected>>
               ELSE <<Accepted(r.buf)>> \o Frames[From(x, i + 1) \o b]
<1>0. r.all /\ x = r.trailer \o a /\ i = EndOfTrailer(x) /\ i # 0
  BY DEF AtTrailerEnd
<1> DEFINE l == r.trailer
           c == x \o b
           d == done - Len(l)
           z == From(x, i + 1) \o b
           whole == RestOf(r, done, a \o b)
<1>1. /\ l \in Seq(Token) /\ r.buf \in Seq(Token) /\ Len(l) \in Nat /\ Len(a) \in Nat
      /\ x \in Seq(Token) /\ Len(x) = Len(l) + Len(a) /\ Len(x) \in Nat
  BY <1>0, KeptIs, LenProperties, ConcatProperties
<1>2. c = l \o (a \o b) /\ c \in Seq(Token) /\ a \o b \in Seq(Token)
  <2>1. l \in Seq(Token) /\ x \in Seq(Token)
    BY <1>1
  <2> HIDE DEF l
  <2>2. (l \o a) \o b = l \o (a \o b)
    BY <2>1, Associative
  <2>3. x \o b \in Seq(Token) /\ a \o b \in Seq(Token)
    BY <2>1, ConcatProperties
  <2> QED
    BY <1>0, <2>2, <2>3 DEF l
<1>3. ~r.validate /\ r.remain = 0
  BY <1>0 DEF ChunkReceiver, ReceiverKept
<1>4. whole = Whole(Trailer(c), d, r.buf, c)
  <2> DEFINE y == a \o b
  <2>1. y \in Seq(Token)
    BY <1>2
  <2> HIDE DEF y
  <2>2. RestCases(r, done, y)
    BY <2>1, RestIs
  <2>3. RestOf(r, done, y) = Whole(Trailer(l \o y), d, r.buf, l \o y)
    BY <1>0, <1>3, <2>2 DEF RestCases
  <2> QED
    BY <1>2, <2>3 DEF y
<1>5. EndOfTrailer(c) = i /\ i \in 2 .. Len(x)
  <2>1. x \in Seq(Token) /\ EndOfTrailer(x) # 0
    BY <1>0, <1>1
  <2>2. EndOfTrailer(x \o b) = EndOfTrailer(x) /\ EndOfTrailer(x) \in 2 .. Len(x)
    BY <2>1, EndOfTrailerStays, EndOfTrailerIs
  <2> QED
    BY <1>0, <2>2
<1>6. Trailer(c) = [status |-> "ok", len |-> i, data |-> <<>>]
  <2>1. c \in Seq(Token) /\ EndOfTrailer(c) # 0
    BY <1>0, <1>2, <1>5
  <2> HIDE DEF c
  <2> QED
    BY <1>5, <2>1, EndOfTrailerIs
<1>7. From(c, i + 1) = z
  <2>1. i \in 0 .. Len(x) /\ x \in Seq(Token)
    BY <1>1, <1>5
  <2> QED
    BY <2>1, CutOfLonger
<1>8. r.buf \o <<>> = r.buf
  BY <1>1, ConcatEmptySeq
<1>9. d + i = done + Len(a) - (Len(x) - i)
  <2>1. ASSUME NEW p \in Int, NEW q \in Int, NEW u \in Int, NEW j \in Int
        PROVE  p - u + j = p + q - (u + q - j)
    OBVIOUS
  <2>2. i \in Int /\ Len(a) \in Int /\ Len(l) \in Int
    BY <1>1, <1>5
  <2> QED
    BY <1>1, <2>1, <2>2
<1> DEFINE t == Trailer(c)
<1>10. t.status = "ok" /\ t.len = i /\ t.data = <<>>
  BY <1>6
<1> HIDE DEF c, d, l, t
<1>11. Whole(t, d, r.buf, c) =
           IF d + i >= MaxBody THEN <<Rejected>> ELSE <<Accepted(r.buf)>> \o Frames[From(c, i + 1)]
  BY <1>8, <1>10 DEF Whole, WholeWith
<1> QED
  BY <1>4, <1>7, <1>9, <1>11 DEF t

\* The rest of a body is at least as long as what has been kept of it.
LEMMA KeptIsShorter ==
    ASSUME NEW r, ChunkReceiver(r), NEW a \in Seq(Token),
           NEW c, c = ChunkRest(r, Kept(r) \o a), c.status = "ok"
    PROVE  c.len \in Nat /\ c.len >= Len(Kept(r))
<1> DEFINE k == Kept(r)
           x == k \o a
<1>1. /\ k \in Seq(Token) /\ Len(k) \in Nat /\ r.remain \in Nat /\ Len(a) \in Nat
      /\ x \in Seq(Token) /\ Len(x) = Len(k) + Len(a)
  <2>1. k \in Seq(Token) /\ Len(k) \in Nat /\ r.remain \in Nat
    BY KeptIs
  <2> HIDE DEF k
  <2> QED
    BY <2>1, ConcatProperties, LenProperties
<1>2. ASSUME r.validate \/ r.remain > 0
      PROVE  c.len \in Nat /\ c.len >= Len(k)
  <2> DEFINE m == r.remain
             y == From(x, m + 3)
  <2>1. m \in Nat /\ c = After(m, x)
    BY <1>1, <1>2 DEF ChunkRest
  <2>2. Len(k) =< 1
    <3>1. CASE r.validate
      BY <3>1 DEF Kept, ChunkReceiver, ReceiverKept
    <3>2. CASE ~r.validate
      <4>1. k = <<>>
        BY <1>2, <3>2 DEF Kept, ChunkReceiver, ReceiverKept
      <4> QED
        BY <4>1, EmptySeq
    <3> QED
      BY <3>1, <3>2
  <2> HIDE DEF m
  <2>3. ~(Len(x) < m + 2) /\ SubSeq(x, m + 1, m + 2) = CRLF
    BY <2>1 DEF After, More, Bad
  <2>4. Len(x) >= m + 2
    BY <1>1, <2>1, <2>3
  <2>5. y \in Seq(Token) /\ Upto(x, m) \in Seq(Token)
    <3>1. x \in Seq(Token)
      BY <1>1
    <3> HIDE DEF x
    <3> QED
      BY <2>1, <2>4, <3>1, AfterChunk
  <2>6. Chunked[y] \in Bodies
    BY <2>5, ChunkedLiesIn DEF LiesIn
  <2>7. c = Shift(Chunked[y], m + 2, Upto(x, m))
    BY <2>1, <2>3 DEF After
  <2>8. m + 2 \in Nat
    BY <2>1
  <2> DEFINE u == Upto(x, m)
             e == Chunked[y]
             j == m + 2
  <2> HIDE DEF u, e, j
  <2>9. u \in Seq(Token) /\ e \in Bodies /\ j \in Nat /\ c = Shift(e, j, u)
    BY <2>5, <2>6, <2>7, <2>8 DEF u, e, j
  <2>10. c.len = e.len + j /\ e.len \in Nat
    BY <2>9, ShiftIs DEF Bodies
  <2> QED
    BY <1>1, <2>1, <2>2, <2>10 DEF j
<1>3. ASSUME ~(r.validate \/ r.remain > 0), r.all
      PROVE  c.len \in Nat /\ c.len >= Len(k)
  <2>1. c = Trailer(x) /\ k = r.trailer
    BY <1>3 DEF ChunkRest, Kept
  <2>2. Find(k, CRLF \o CRLF) = 0 /\ ~IsPrefix(CRLF, k)
    BY <2>1 DEF ChunkReceiver, ReceiverKept
  <2>3. EndOfTrailer(k) = 0
    BY <2>2 DEF EndOfTrailer, DoubleNewline
  <2>4. EndOfTrailer(x) # 0
    <3>1. EndOfTrailer(x) = 0 => Trailer(x) = More
      BY <1>1, EndOfTrailerIs
    <3> QED
      BY <2>1, <3>1 DEF More
  <2>5. EndOfTrailer(x) >= Len(k)
    <3>1. k \in Seq(Token)
      BY <1>1
    <3> HIDE DEF k
    <3> QED
      BY <2>3, <2>4, <3>1, EndOfTrailerStays
  <2>6. EndOfTrailer(x) \in 2 .. Len(x)
        /\ Trailer(x) = [status |-> "ok", len |-> EndOfTrailer(x), data |-> <<>>]
    BY <1>1, <2>4, EndOfTrailerIs
  <2> QED
    BY <1>1, <2>1, <2>5, <2>6
<1>4. ASSUME ~(r.validate \/ r.remain > 0), ~r.all
      PROVE  c.len \in Nat /\ c.len >= Len(k)
  <2>1. c = Chunked[x] /\ k = r.line
    BY <1>4 DEF ChunkRest, Kept
  <2>2. Find(k, CRLF) = 0
    BY <2>1 DEF ChunkReceiver, ReceiverKept
  <2>3. c.len \in Nat /\ Find(x, CRLF) # 0 /\ c.len > Find(x, CRLF)
    BY <1>1, <2>1, ChunkedLiesIn DEF LiesIn, Bodies
  <2>4. Find(x, CRLF) + 1 > Len(k) /\ Find(x, CRLF) \in Nat
    <3>1. k \in Seq(Token) /\ x \in Seq(Token)
      BY <1>1
    <3> HIDE DEF k
    <3> QED
      BY <2>2, <2>3, <3>1, LineEndBeyond, LineEndIs
  <2> QED
    BY <1>1, <2>3, <2>4
<1> QED
  BY <1>2, <1>3, <1>4

\* A body that is beyond the limit already is rejected, however it goes on.
LEMMA RestTooLong ==
    ASSUME NEW r, ChunkReceiver(r), NEW done \in Int, NEW a \in Seq(Token), done >= MaxBody
    PROVE  RestOf(r, done, a) = <<Rejected>>
<1> DEFINE k == Len(Kept(r))
           x == Kept(r) \o a
           c == ChunkRest(r, x)
           l == IF c.status = "ok" THEN c.len ELSE Len(x)
<1>1. k \in Nat /\ Len(a) \in Nat /\ Len(x) = k + Len(a) /\ MaxBody \in Nat
  <2> DEFINE y == Kept(r)
  <2>1. y \in Seq(Token) /\ Len(y) \in Nat
    BY KeptIs
  <2> HIDE DEF y
  <2>2. Len(y) \in Nat /\ Len(a) \in Nat /\ Len(y \o a) = Len(y) + Len(a) /\ MaxBody \in Nat
    BY <2>1, LenProperties, ConcatProperties, LimitsAre DEF Limits
  <2> QED
    BY <2>2 DEF y
<1>2. l \in Nat /\ l >= k
  <2>1. CASE c.status = "ok"
    <3>1. c.len \in Nat /\ c.len >= k
      BY <2>1, KeptIsShorter
    <3> QED
      BY <2>1, <3>1
  <2>2. CASE c.status # "ok"
    BY <1>1, <2>2
  <2> QED
    BY <2>1, <2>2
<1>3. RestOf(r, done, a) = Whole(c, done - k, r.buf, x)
  BY DEF RestOf
<1> HIDE DEF k, x, c
<1>4. Whole(c, done - k, r.buf, x) =
          IF c.status = "error" \/ done - k + l >= MaxBody THEN <<Rejected>>
          ELSE IF c.status = "ok" THEN <<Accepted(r.buf \o c.data)>> \o Frames[From(x, c.len + 1)]
          ELSE <<>>
  BY DEF Whole, WholeWith
<1> HIDE DEF l
<1>5. done - k + l >= MaxBody
  BY <1>1, <1>2
<1> QED
  BY <1>3, <1>4, <1>5

\* Nothing comes of what has been kept alone.
LEMMA RestOfNothing ==
    ASSUME NEW r, ChunkReceiver(r), NEW done \in Int, done < MaxBody
    PROVE  RestOf(r, done, <<>>) = <<>>
<1> DEFINE k == Kept(r)
           x == k \o <<>>
           c == ChunkRest(r, x)
<1>1. x = k /\ k \in Seq(Token) /\ Len(k) \in Nat /\ r.remain \in Nat
  BY KeptIs, ConcatEmptySeq
<1>2. c = More
  <2>1. CASE r.validate \/ r.remain > 0
    <3>1. Len(k) =< 1
      <4>1. CASE r.validate
        BY <4>1 DEF Kept, ChunkReceiver, ReceiverKept
      <4>2. CASE ~r.validate
        <5>1. k = <<>>
          BY <2>1, <4>2 DEF Kept, ChunkReceiver, ReceiverKept
        <5> QED
          BY <5>1, EmptySeq
      <4> QED
        BY <4>1, <4>2
    <3> HIDE DEF k
    <3>2. Len(k) < r.remain + 2
      BY <1>1, <3>1
    <3> QED
      BY <1>1, <2>1, <3>2 DEF ChunkRest, After
  <2>2. CASE ~(r.validate \/ r.remain > 0) /\ r.all
    <3>1. c = Trailer(k) /\ k = r.trailer
      BY <1>1, <2>2 DEF ChunkRest, Kept
    <3>2. Find(k, CRLF \o CRLF) = 0 /\ ~IsPrefix(CRLF, k)
      BY <3>1 DEF ChunkReceiver, ReceiverKept
    <3> QED
      BY <3>1, <3>2 DEF Trailer, DoubleNewline
  <2>3. CASE ~(r.validate \/ r.remain > 0) /\ ~r.all
    <3>1. c = Chunked[k] /\ k = r.line
      BY <1>1, <2>3 DEF ChunkRest, Kept
    <3>2. Find(k, CRLF) = 0
      BY <3>1 DEF ChunkReceiver, ReceiverKept
    <3>3. k \in Seq(Token)
      BY <1>1
    <3> HIDE DEF k
    <3>4. Chunked[k] = More
      BY <3>2, <3>3, ChunkedBegins
    <3> QED
      BY <3>1, <3>4
  <2> QED
    BY <2>1, <2>2, <2>3
<1>3. RestOf(r, done, <<>>) = Whole(c, done - Len(k), r.buf, k)
  BY <1>1 DEF RestOf
<1>4. done - Len(k) + Len(k) = done /\ MaxBody \in Nat
  BY <1>1, LimitsAre DEF Limits
<1> HIDE DEF k, c
<1>5. ~(done - Len(k) + Len(k) >= MaxBody)
  BY <1>4
<1> QED
  BY <1>2, <1>3, <1>5 DEF Whole, WholeWith, More

----------------------------------------------------------------------------
(* What is still to come of what has been received *)

\* send_continue() sets `completed` to False: when it is called, it is False already.
\* The code sees to that only where a body is to come (see the finding lost_request).
ContinuesUnfinished == pc = "returned" /\ ContinueNow => ~request.completed

\* What comes of the request q, with the receiver r, when a follows.
ToCome(q, r, a) ==
    IF q.completed
    THEN IF q.empty THEN Frames[a]
         ELSE IF q.error THEN <<Rejected>>
         ELSE <<Accepted(r.buf)>> \o Frames[a]
    ELSE IF q.kind = "none" THEN Frames[q.plus \o a]
    ELSE IF q.kind = "fixed"
         THEN IF Len(a) < r.remain THEN <<>>
              ELSE <<Accepted(r.buf \o Upto(a, r.remain))>> \o Frames[From(a, r.remain + 1)]
    ELSE RestOf(r, q.bbytes, a)

\* The request, after k more bytes of its body.
WithBody(q, r, k) ==
    [q EXCEPT !.bbytes = @ + k,
              !.error = @ \/ q.bbytes + k >= MaxBody \/ r.error,
              !.completed = @ \/ q.bbytes + k >= MaxBody \/ r.error \/ r.completed]

\* The bytes of the body before the rest of the segment.
Done == request.bbytes + Len(data) - Len(s)

\* What comes of what has been received and not been queued, when t follows.
Promise(t) ==
    CASE pc = "idle" -> ToCome(request, rcv, t)
      [] pc = "call" -> ToCome(request, rcv, data \o t)
      [] pc = "chunks" -> IF rcv.error THEN <<Rejected>> ELSE RestOf(rcv, Done, s \o t)
      [] pc = "body" -> ToCome(WithBody(request, rcv, n), rcv, From(data, n + 1) \o t)
      [] pc = "returned" -> ToCome(request, rcv, From(data, n + 1) \o t)

HeaderState ==
    request.kind = "none" /\ ~request.completed =>
        /\ request.hbytes = Len(request.plus) /\ request.hbytes < MaxHeader
        /\ request.headers = <<>> /\ request.bbytes = 0

RequestState ==
    /\ pc # "returned" => ~request.completed
    /\ ~request.completed => ~request.error /\ ~request.empty /\ request.kind # "big"
    /\ pc \in {"chunks", "body"} => request.kind # "none"
    /\ pc = "chunks" => request.kind = "chunked"

FixedState ==
    request.kind = "fixed" /\ ~request.completed =>
        /\ request.bbytes + (IF pc = "body" THEN n ELSE 0) + rcv.remain = BodyLength
        /\ ~rcv.error
        /\ rcv.completed <=> rcv.remain = 0

RestOfSegment == \E p \in Seq(Token) : data = p \o s

ChunkState ==
    request.kind = "chunked" /\ ~request.completed =>
        /\ ChunkReceiver(rcv)
        /\ request.bbytes < MaxBody
        /\ pc # "body" => ~rcv.completed
        /\ pc \notin {"chunks", "body"} => ~rcv.error
        /\ pc = "chunks" /\ ~rcv.error => RestOfSegment

\* How the fields of a request and of its receiver fit together.
Reading == HeaderState /\ RequestState /\ FixedState /\ ChunkState

\* A step that takes nothing from what is to come and adds nothing to it.
PromiseKept == Reading' /\ \A t \in Seq(Token) : Promise(t)' = Promise(t)

LEMMA StateTyped ==
    ASSUME IInv
    PROVE  /\ data \in Seq(Token) /\ s \in Seq(Token) /\ n \in Nat
           /\ Len(data) \in Nat /\ Len(s) \in Nat
           /\ RequestKept(request) /\ request.plus \in Seq(Token) /\ Len(request.plus) \in Nat
           /\ request.bbytes \in Nat /\ request.hbytes \in Nat
           /\ ReceiverKept(rcv) /\ rcv.remain \in Nat /\ rcv.buf \in Seq(Token)
BY LenProperties DEF IInv, Typed, RequestKept, ReceiverKept

LEMMA WithBodyIs ==
    ASSUME NEW q, RequestKept(q), NEW r, NEW k
    PROVE  LET w == WithBody(q, r, k)
           IN /\ w.kind = q.kind /\ w.plus = q.plus /\ w.empty = q.empty
              /\ w.bbytes = q.bbytes + k /\ w.headers = q.headers
              /\ w.error <=> q.error \/ q.bbytes + k >= MaxBody \/ r.error
              /\ w.completed <=> q.completed \/ q.bbytes + k >= MaxBody \/ r.error \/ r.completed
              /\ w.expect = q.expect /\ w.finished = q.finished /\ w.hbytes = q.hbytes
BY DEF WithBody, RequestKept, RequestFields

\* The part of a sequence after a part of it.
LEMMA RestOfRest ==
    ASSUME NEW p \in Seq(Token), NEW a \in Seq(Token), NEW j \in 0 .. Len(a)
    PROVE  \E u \in Seq(Token) : p \o a = u \o From(a, j + 1)
<1>1. Upto(a, j) \in Seq(Token) /\ From(a, j + 1) \in Seq(Token)
      /\ Upto(a, j) \o From(a, j + 1) = a
  <2>1. j \in Nat /\ Len(a) >= j
    BY LenProperties
  <2> QED
    BY <2>1, Rest, Joined
<1> DEFINE v == Upto(a, j)
           w == From(a, j + 1)
<1> HIDE DEF v, w
<1>2. v \in Seq(Token) /\ w \in Seq(Token) /\ v \o w = a
  BY <1>1 DEF v, w
<1>3. (p \o v) \o w = p \o (v \o w) /\ p \o v \in Seq(Token)
  BY <1>2, Associative, ConcatProperties
<1>4. p \o a = (p \o v) \o w
  BY <1>2, <1>3
<1> QED
  BY <1>3, <1>4 DEF w

\* In the loop of ChunkedReceiver.received the request does not change.
LEMMA LoopReads ==
    ASSUME Reading, pc = "chunks", pc' \in {"chunks", "body"}, request' = request,
           ChunkReceiver(rcv'), pc' # "body" => ~rcv'.completed,
           pc' = "chunks" /\ ~rcv'.error => RestOfSegment'
    PROVE  Reading'
<1>1. request.kind = "chunked" /\ ~request.completed /\ request.bbytes < MaxBody
      /\ ~request.error /\ ~request.empty
  BY DEF Reading, RequestState, ChunkState
<1>2. HeaderState' /\ FixedState'
  BY <1>1 DEF HeaderState, FixedState
<1>3. RequestState'
  BY <1>1 DEF RequestState
<1>4. ChunkState'
  BY <1>1 DEF ChunkState
<1> QED
  BY <1>2, <1>3, <1>4 DEF Reading

\* One round of it.
LEMMA RoundPromises ==
    ASSUME IInv, Reading, InLoop, NEW r, NEW rest, Continue(r, rest),
           ChunkReceiver(r), ~r.completed, rcv.error => r.error,
           ~r.error => \E j \in 0 .. Len(s) : rest = From(s, j + 1),
           ~rcv.error =>
               \A t \in Seq(Token) :
                   RestOf(rcv, Done, s \o t) =
                       IF r.error THEN <<Rejected>>
                       ELSE RestOf(r, Done + Len(s) - Len(rest), rest \o t)
    PROVE  PromiseKept
<1>1. /\ pc = "chunks" /\ pc' = "chunks" /\ rcv' = r /\ s' = rest
      /\ request' = request /\ data' = data
  BY DEF InLoop, Continue, channel_vars
<1>2. ~r.error => RestOfSegment'
  <2> SUFFICES ASSUME ~r.error
               PROVE  RestOfSegment'
    OBVIOUS
  <2>1. PICK j \in 0 .. Len(s) : rest = From(s, j + 1)
    OBVIOUS
  <2>2. PICK p \in Seq(Token) : data = p \o s
    <3>1. ~rcv.error
      OBVIOUS
    <3> QED
      BY <1>1, <3>1 DEF Reading, RequestState, ChunkState, RestOfSegment
  <2>3. s \in Seq(Token)
    BY StateTyped
  <2>4. \E u \in Seq(Token) : p \o s = u \o From(s, j + 1)
    BY <2>3, RestOfRest
  <2> QED
    BY <1>1, <2>1, <2>2, <2>4 DEF RestOfSegment
<1>3. Reading'
  BY <1>1, <1>2, LoopReads
<1>4. ASSUME NEW t \in Seq(Token)
      PROVE  Promise(t)' = Promise(t)
  <2>1. Promise(t) = IF rcv.error THEN <<Rejected>> ELSE RestOf(rcv, Done, s \o t)
    BY <1>1 DEF Promise
  <2>2. Promise(t)' = IF r.error THEN <<Rejected>> ELSE RestOf(r, Done', rest \o t)
    BY <1>1 DEF Promise
  <2>3. ~r.error => Done' = Done + Len(s) - Len(rest)
    <3> SUFFICES ASSUME ~r.error
                 PROVE  Done' = Done + Len(s) - Len(rest)
      OBVIOUS
    <3>1. Len(rest) \in Nat
      <4>1. PICK j \in 0 .. Len(s) : rest = From(s, j + 1)
        OBVIOUS
      <4>2. s \in Seq(Token) /\ j \in Nat /\ Len(s) >= j
        BY <4>1, StateTyped
      <4>3. From(s, j + 1) \in Seq(Token)
        BY <4>2, Rest
      <4> QED
        BY <4>1, <4>3, LenProperties
    <3>2. ASSUME NEW u \in Int, NEW v \in Int, NEW x \in Int, NEW y \in Int
          PROVE  u + v - y = u + v - x + x - y
      OBVIOUS
    <3>3. request.bbytes \in Int /\ Len(data) \in Int /\ Len(s) \in Int /\ Len(rest) \in Int
      BY <3>1, StateTyped
    <3> QED
      BY <1>1, <3>2, <3>3 DEF Done
  <2>4. CASE rcv.error
    BY <2>1, <2>2, <2>4
  <2>5. CASE ~rcv.error
    BY <2>1, <2>2, <2>3, <2>5
  <2> QED
    BY <2>4, <2>5
<1> QED
  BY <1>3, <1>4 DEF PromiseKept

\* And its end.
LEMMA ReturnPromises ==
    ASSUME IInv, Reading, pc = "chunks", NEW r, NEW used, Return(r, used), ChunkReceiver(r),
           LET w == WithBody(request, r, used)
           IN \A t \in Seq(Token) :
                 ToCome(w, r, From(data, used + 1) \o t) =
                     IF rcv.error THEN <<Rejected>> ELSE RestOf(rcv, Done, s \o t)
    PROVE  PromiseKept
<1>1. /\ pc' = "body" /\ rcv' = r /\ n' = used /\ request' = request /\ data' = data
  BY DEF Return, channel_vars
<1>2. Reading'
  BY <1>1, LoopReads
<1>3. ASSUME NEW t \in Seq(Token)
      PROVE  Promise(t)' = Promise(t)
  <2>1. Promise(t) = IF rcv.error THEN <<Rejected>> ELSE RestOf(rcv, Done, s \o t)
    BY DEF Promise
  <2>2. Promise(t)' = ToCome(WithBody(request, r, used), r, From(data, used + 1) \o t)
    BY <1>1 DEF Promise
  <2> QED
    BY <2>1, <2>2
<1> QED
  BY <1>2, <1>3 DEF PromiseKept

LEMMA LoopState ==
    ASSUME IInv, Reading, pc = "chunks"
    PROVE  /\ request.kind = "chunked" /\ ~request.completed /\ ~request.error /\ ~request.empty
           /\ ChunkReceiver(rcv) /\ ~rcv.completed
           /\ ~rcv.error => RestOfSegment
           /\ Done \in Int /\ Done + Len(s) = request.bbytes + Len(data)
           /\ DOMAIN rcv = ReceiverFields
<1>1. /\ request.kind = "chunked" /\ ~request.completed /\ ~request.error /\ ~request.empty
      /\ ChunkReceiver(rcv) /\ ~rcv.completed
      /\ ~rcv.error => RestOfSegment
  BY DEF Reading, RequestState, ChunkState
<1>2. Done \in Int /\ Done + Len(s) = request.bbytes + Len(data)
  BY StateTyped DEF Done
<1> QED
  BY <1>1, <1>2 DEF ChunkReceiver, ReceiverKept

LEMMA DataPromises ==
    ASSUME IInv, IInv', Reading, chunk_data
    PROVE  PromiseKept
<1> DEFINE m == Remainder(s)
           r == [rcv EXCEPT !.remain = @ - m, !.buf = @ \o Upto(s, m),
                            !.validate = rcv.remain =< Len(s)]
           rest == From(s, m + 1)
<1>1. InLoop /\ pc = "chunks" /\ rcv.remain > 0 /\ Continue(r, rest) /\ s # <<>>
  BY DEF chunk_data, InLoop
<1>2. /\ ChunkReceiver(rcv) /\ ~rcv.completed /\ Done \in Int /\ DOMAIN rcv = ReceiverFields
      /\ s \in Seq(Token) /\ ReceiverKept(rcv) /\ rcv.remain \in Nat
  BY <1>1, LoopState, StateTyped
<1>3. /\ Len(s) \in Nat /\ m \in 0 .. Len(s) /\ m =< rcv.remain
      /\ rcv.remain > Len(s) => m = Len(s)
      /\ rest \in Seq(Token) /\ Len(rest) = Len(s) - m
  BY <1>1, <1>2, RemainderFacts
<1>4. rcv.remain =< Len(s) => m = rcv.remain
  BY DEF Remainder
<1> HIDE DEF m
<1>5. /\ r.remain = rcv.remain - m /\ r.buf = rcv.buf \o Upto(s, m)
      /\ r.validate <=> rcv.remain =< Len(s)
      /\ r.end = rcv.end /\ r.line = rcv.line /\ r.all = rcv.all
      /\ r.error = rcv.error /\ r.completed = rcv.completed
  BY <1>2 DEF ReceiverFields
<1>6. rcv' = r
  BY <1>1 DEF Continue
<1> HIDE DEF r
<1>7. r.validate <=> r.remain = 0
  BY <1>2, <1>3, <1>4, <1>5
<1>8. ~rcv.validate /\ rcv.end = <<>> /\ rcv.line = <<>> /\ ~rcv.all
  BY <1>1, <1>2 DEF ChunkReceiver, ReceiverKept
<1>9. ChunkReceiver(r)
  <2>1. ReceiverKept(r)
    BY <1>6 DEF IInv
  <2> QED
    BY <1>5, <1>7, <1>8, <2>1 DEF ChunkReceiver
<1>10. ASSUME NEW t \in Seq(Token)
       PROVE  RestOf(rcv, Done, s \o t) = RestOf(r, Done + m, rest \o t)
  <2>1. m \in Nat /\ TakesData(rcv, r, s, m)
    BY <1>1, <1>3, <1>5, <1>7, <1>8 DEF TakesData
  <2>2. ChunkReceiver(rcv) /\ Done \in Int /\ s \in Seq(Token)
    BY <1>2
  <2> HIDE DEF Done
  <2> QED
    BY <1>9, <2>1, <2>2, RestAfterData
<1>11. Done + Len(s) - Len(rest) = Done + m
  BY <1>2, <1>3
<1>12. ~rcv.error =>
          \A t \in Seq(Token) :
              RestOf(rcv, Done, s \o t) =
                  IF r.error THEN <<Rejected>>
                  ELSE RestOf(r, Done + Len(s) - Len(rest), rest \o t)
  <2> HIDE DEF rest
  <2> QED
    BY <1>5, <1>10, <1>11
<1>13. \E j \in 0 .. Len(s) : rest = From(s, j + 1)
  BY <1>3
<1>14. ~r.completed /\ (rcv.error => r.error)
  BY <1>2, <1>5
<1> HIDE DEF rest
<1> QED
  BY <1>1, <1>9, <1>12, <1>13, <1>14, RoundPromises

\* What is unfinished is kept for the next segment.
LEMMA KeepPromises ==
    ASSUME IInv, IInv', Reading, InLoop, NEW r, Continue(r, <<>>), ChunkReceiver(r),
           Kept(r) = Kept(rcv) \o s, r.buf = rcv.buf, r.remain = rcv.remain,
           r.validate = rcv.validate, r.all = rcv.all,
           r.error = rcv.error, r.completed = rcv.completed
    PROVE  PromiseKept
<1> DEFINE rest == <<>>
<1>1. /\ pc = "chunks" /\ ChunkReceiver(rcv) /\ ~rcv.completed /\ Done \in Int
      /\ s \in Seq(Token) /\ Len(s) \in Nat
  BY LoopState, StateTyped DEF InLoop
<1>2. ASSUME NEW t \in Seq(Token)
      PROVE  RestOf(rcv, Done, s \o t) = RestOf(r, Done + Len(s), t)
  <2> HIDE DEF Done
  <2> QED
    BY <1>1, RestAfterKept
<1>3. rest = From(s, Len(s) + 1) /\ Len(rest) = 0 /\ \A t \in Seq(Token) : rest \o t = t
  <2> DEFINE m == Len(s)
             y == From(s, m + 1)
  <2>1. m \in Nat /\ Len(s) >= m
    BY <1>1
  <2>2. y \in Seq(Token) /\ Len(y) = Len(s) - m
    <3> HIDE DEF m
    <3> QED
      BY <1>1, <2>1, Rest
  <2>3. Len(y) = 0
    BY <1>1, <2>2
  <2> HIDE DEF y
  <2>4. y = <<>>
    BY <2>2, <2>3, EmptySeq
  <2> QED
    BY <2>4, EmptySeq, ConcatEmptySeq DEF y
<1>4. Done + Len(s) - Len(rest) = Done + Len(s)
  BY <1>1, <1>3
<1> HIDE DEF rest
<1>5. Continue(r, rest)
  BY DEF rest
<1>6. ~rcv.error =>
          \A t \in Seq(Token) :
              RestOf(rcv, Done, s \o t) =
                  IF r.error THEN <<Rejected>>
                  ELSE RestOf(r, Done + Len(s) - Len(rest), rest \o t)
  BY <1>2, <1>3, <1>4
<1>7. \E j \in 0 .. Len(s) : rest = From(s, j + 1)
  BY <1>1, <1>3
<1> QED
  BY <1>1, <1>5, <1>6, <1>7, RoundPromises

\* What comes after something that was kept and the beginning of s is a part of s.
LEMMA PartOfSegment ==
    ASSUME NEW k \in Seq(Token), NEW a \in Seq(Token), NEW m \in Len(k) .. Len(k) + Len(a)
    PROVE  /\ m - Len(k) \in 0 .. Len(a)
           /\ From(k \o a, m + 1) = From(a, m - Len(k) + 1)
<1>1. Len(k) \in Nat /\ Len(a) \in Nat
  BY LenProperties
<1> DEFINE j == m - Len(k)
<1>2. j \in 0 .. Len(a) /\ Len(k) + j + 1 = m + 1
  BY <1>1
<1> HIDE DEF j
<1>3. From(k \o a, Len(k) + j + 1) = From(a, j + 1)
  BY <1>2, CutOfSecond
<1> QED
  BY <1>2, <1>3 DEF j

LEMMA ChunkEndPromises ==
    ASSUME IInv, IInv', Reading, chunk_end
    PROVE  PromiseKept
<1>1. InLoop /\ pc = "chunks" /\ rcv.remain = 0 /\ rcv.validate /\ s # <<>>
  BY DEF chunk_end, InLoop
<1>2. /\ ChunkReceiver(rcv) /\ ~rcv.completed /\ Done \in Int /\ DOMAIN rcv = ReceiverFields
      /\ s \in Seq(Token) /\ Len(s) \in Nat /\ ReceiverKept(rcv)
  BY <1>1, LoopState, StateTyped
<1>3. /\ rcv.end \in Seq(Token) /\ Len(rcv.end) =< 1 /\ Len(rcv.end) \in Nat
      /\ ~rcv.all /\ rcv.trailer = <<>> /\ rcv.line = <<>>
  BY <1>1, <1>2, LenProperties DEF ChunkReceiver, ReceiverKept
<1>4. ChunkEnd \in Seq(Token) /\ Len(ChunkEnd) = Len(rcv.end) + Len(s) /\ ChunkEnd = rcv.end \o s
  BY <1>2, <1>3, ConcatProperties DEF ChunkEnd
<1>5. CASE Len(ChunkEnd) < 2 /\ Continue([rcv EXCEPT !.end = ChunkEnd], <<>>)
  <2> DEFINE r == [rcv EXCEPT !.end = ChunkEnd]
  <2>1. /\ r.end = ChunkEnd /\ r.validate = rcv.validate /\ r.remain = rcv.remain
        /\ r.line = rcv.line /\ r.all = rcv.all /\ r.buf = rcv.buf
        /\ r.error = rcv.error /\ r.completed = rcv.completed
    BY <1>2 DEF ReceiverFields
  <2>2. rcv' = r /\ Continue(r, <<>>)
    BY <1>5 DEF Continue
  <2> HIDE DEF r
  <2>3. ChunkReceiver(r)
    <3>1. ReceiverKept(r)
      BY <2>2 DEF IInv
    <3> QED
      BY <1>1, <1>3, <2>1, <3>1 DEF ChunkReceiver
  <2>4. Kept(r) = Kept(rcv) \o s
    BY <1>1, <1>4, <2>1 DEF Kept
  <2> QED
    BY <1>1, <2>1, <2>2, <2>3, <2>4, KeepPromises
<1>6. CASE Find(ChunkEnd, CRLF) = 1
           /\ Continue([rcv EXCEPT !.end = <<>>, !.validate = FALSE], From(ChunkEnd, 3))
  <2> DEFINE r == [rcv EXCEPT !.end = <<>>, !.validate = FALSE]
             rest == From(ChunkEnd, 3)
  <2>1. /\ r.end = <<>> /\ ~r.validate /\ r.remain = rcv.remain
        /\ r.line = rcv.line /\ r.all = rcv.all /\ r.buf = rcv.buf
        /\ r.error = rcv.error /\ r.completed = rcv.completed
    BY <1>2 DEF ReceiverFields
  <2>2. rcv' = r /\ Continue(r, rest)
    BY <1>6 DEF Continue
  <2>3. Len(ChunkEnd) >= 2
    BY <1>4, <1>6, BeginsWithLineEnd
  <2>4. \E j \in 0 .. Len(s) : rest = From(s, j + 1)
    <3> DEFINE k == rcv.end
               m == 2
    <3>1. k \in Seq(Token) /\ m \in Len(k) .. Len(k) + Len(s)
      BY <1>2, <1>3, <1>4, <2>3
    <3> HIDE DEF k, m
    <3>2. m - Len(k) \in 0 .. Len(s) /\ From(k \o s, m + 1) = From(s, m - Len(k) + 1)
      BY <1>2, <3>1, PartOfSegment
    <3>3. From(k \o s, m + 1) = rest
      BY <1>4 DEF k, m
    <3> QED
      BY <3>2, <3>3
  <2> HIDE DEF r
  <2>5. ChunkReceiver(r)
    <3>1. ReceiverKept(r)
      BY <2>2 DEF IInv
    <3> QED
      BY <1>1, <1>3, <2>1, <3>1 DEF ChunkReceiver
  <2>6. AtLine(r, rcv.buf)
    BY <1>1, <1>3, <2>1, <2>5 DEF AtLine
  <2>7. ASSUME NEW t \in Seq(Token)
        PROVE  RestOf(rcv, Done, s \o t) = RestOf(r, Done + Len(s) - Len(rest), rest \o t)
    <3> DEFINE x == ChunkEnd
    <3>1. AtChunkEnd(rcv, s, x) /\ Find(x, CRLF) = 1
      BY <1>1, <1>4, <1>6, <2>3 DEF AtChunkEnd
    <3>2. ChunkReceiver(rcv) /\ Done \in Int /\ s \in Seq(Token)
      BY <1>2
    <3> HIDE DEF x, Done
    <3>3. RestOf(rcv, Done, s \o t) = RestOf(r, Done + Len(s) - Len(From(x, 3)), From(x, 3) \o t)
      BY <2>6, <3>1, <3>2, RestAfterChunk
    <3> QED
      BY <3>3 DEF x
  <2>8. ~rcv.error =>
            \A t \in Seq(Token) :
                RestOf(rcv, Done, s \o t) =
                    IF r.error THEN <<Rejected>>
                    ELSE RestOf(r, Done + Len(s) - Len(rest), rest \o t)
    BY <2>1, <2>7
  <2>9. ~r.completed /\ (rcv.error => r.error)
    BY <1>2, <2>1
  <2> HIDE DEF rest
  <2> QED
    BY <1>1, <2>2, <2>4, <2>5, <2>8, <2>9, RoundPromises
<1>7. CASE Len(ChunkEnd) >= 2 /\ Find(ChunkEnd, CRLF) # 1
           /\ Continue([rcv EXCEPT !.end = <<>>, !.validate = FALSE,
                                   !.error = TRUE, !.all = TRUE], ChunkEnd)
  <2> DEFINE r == [rcv EXCEPT !.end = <<>>, !.validate = FALSE, !.error = TRUE, !.all = TRUE]
  <2>1. /\ r.end = <<>> /\ ~r.validate /\ r.line = rcv.line
        /\ r.error /\ r.completed = rcv.completed
    BY <1>2 DEF ReceiverFields
  <2>2. rcv' = r /\ Continue(r, ChunkEnd)
    BY <1>7 DEF Continue
  <2> HIDE DEF r
  <2>3. ChunkReceiver(r)
    <3>1. ReceiverKept(r)
      BY <2>2 DEF IInv
    <3> QED
      BY <1>3, <2>1, <3>1 DEF ChunkReceiver
  <2>4. ASSUME NEW t \in Seq(Token)
        PROVE  RestOf(rcv, Done, s \o t) = <<Rejected>>
    <3> DEFINE x == ChunkEnd
    <3>1. AtChunkEnd(rcv, s, x) /\ Find(x, CRLF) # 1
      BY <1>1, <1>4, <1>7 DEF AtChunkEnd
    <3>2. ChunkReceiver(rcv) /\ Done \in Int /\ s \in Seq(Token)
      BY <1>2
    <3> HIDE DEF x, Done
    <3> QED
      BY <3>1, <3>2, RestAfterChunk
  <2>5. ~rcv.error =>
            \A t \in Seq(Token) :
                RestOf(rcv, Done, s \o t) =
                    IF r.error THEN <<Rejected>>
                    ELSE RestOf(r, Done + Len(s) - Len(ChunkEnd), ChunkEnd \o t)
    BY <2>1, <2>4
  <2>6. ~r.completed /\ r.error
    BY <1>2, <2>1
  <2> QED
    BY <1>1, <2>2, <2>3, <2>5, <2>6, RoundPromises
<1> QED
  BY <1>5, <1>6, <1>7 DEF chunk_end

LEMMA ControlLinePromises ==
    ASSUME IInv, IInv', Reading, control_line_unfinished \/ control_line \/ control_line_invalid
    PROVE  PromiseKept
<1>1. /\ InControlLine /\ InLoop /\ pc = "chunks" /\ rcv.remain = 0 /\ ~rcv.validate /\ ~rcv.all
      /\ s # <<>>
  BY DEF control_line_unfinished, control_line, control_line_invalid, InControlLine, InLoop
<1>2. /\ ChunkReceiver(rcv) /\ ~rcv.completed /\ Done \in Int /\ DOMAIN rcv = ReceiverFields
      /\ s \in Seq(Token) /\ Len(s) \in Nat /\ ReceiverKept(rcv)
  BY <1>1, LoopState, StateTyped
<1>3. /\ rcv.line \in Seq(Token) /\ Len(rcv.line) \in Nat /\ Find(rcv.line, CRLF) = 0
      /\ rcv.trailer = <<>> /\ rcv.end = <<>>
  BY <1>1, <1>2, LenProperties DEF ChunkReceiver, ReceiverKept
<1>4. /\ ControlLine \in Seq(Token) /\ Len(ControlLine) = Len(rcv.line) + Len(s)
      /\ ControlLine = rcv.line \o s
  BY <1>2, <1>3, ConcatProperties DEF ControlLine
<1>5. ASSUME LineEnd # 0
      PROVE  AtLineEnd(rcv, s, ControlLine, LineEnd)
  BY <1>1, <1>5 DEF AtLineEnd, ControlLine, LineEnd
<1>6. CASE control_line_unfinished
  <2> DEFINE r == [rcv EXCEPT !.line = ControlLine]
  <2>1. /\ r.line = ControlLine /\ r.end = rcv.end /\ r.validate = rcv.validate
        /\ r.remain = rcv.remain /\ r.all = rcv.all /\ r.buf = rcv.buf
        /\ r.error = rcv.error /\ r.completed = rcv.completed
    BY <1>2 DEF ReceiverFields
  <2>2. rcv' = r /\ Continue(r, <<>>)
    BY <1>6 DEF control_line_unfinished, Continue
  <2> HIDE DEF r
  <2>3. ChunkReceiver(r)
    <3>1. ReceiverKept(r)
      BY <2>2 DEF IInv
    <3> QED
      BY <1>1, <1>3, <2>1, <3>1 DEF ChunkReceiver
  <2>4. Kept(r) = Kept(rcv) \o s
    BY <1>1, <1>4, <2>1 DEF Kept
  <2> QED
    BY <1>1, <2>1, <2>2, <2>3, <2>4, KeepPromises
<1>7. CASE control_line
  <2> DEFINE size == Size(SizePart(Line))
             last == Line # <<>> /\ size = 0
             r == [rcv EXCEPT !.line = <<>>, !.remain = size, !.all = last]
             rest == From(ControlLine, LineEnd + 2)
  <2>1. LineEnd # 0 /\ (Line = <<>> \/ IsControlLine(Line))
    BY <1>7 DEF control_line
  <2>2. /\ r.line = <<>> /\ r.end = rcv.end /\ r.validate = rcv.validate
        /\ r.remain = size /\ (r.all <=> last) /\ r.buf = rcv.buf /\ r.trailer = rcv.trailer
        /\ r.error = rcv.error /\ r.completed = rcv.completed
    BY <1>2 DEF ReceiverFields
  <2>3. rcv' = r /\ Continue(r, rest)
    BY <1>7 DEF control_line, Continue
  <2>4. \E j \in 0 .. Len(s) : rest = From(s, j + 1)
    <3> DEFINE k == rcv.line
               m == LineEnd + 1
    <3>1. LineEnd + 1 > Len(k) /\ LineEnd + 1 =< Len(k) + Len(s) /\ LineEnd \in Nat
      <4>1. Find(k \o s, CRLF) # 0 /\ Find(k \o s, CRLF) = LineEnd
        BY <1>4, <2>1 DEF LineEnd
      <4>2. k \in Seq(Token) /\ Find(k, CRLF) = 0 /\ k \o s \in Seq(Token)
        BY <1>3, <1>4
      <4> HIDE DEF k
      <4> QED
        BY <1>2, <4>1, <4>2, LineEndBeyond, LineEndIs
    <3>2. k \in Seq(Token) /\ Len(k) \in Nat
      BY <1>3
    <3>3. m \in Len(k) .. Len(k) + Len(s)
      <4> HIDE DEF k
      <4> QED
        BY <1>2, <3>1, <3>2
    <3>4. From(k \o s, m + 1) = rest
      <4>1. m + 1 = LineEnd + 2
        BY <3>1
      <4> QED
        BY <1>4, <4>1
    <3> HIDE DEF k, m, rest
    <3>5. m - Len(k) \in 0 .. Len(s) /\ From(k \o s, m + 1) = From(s, m - Len(k) + 1)
      BY <1>2, <3>2, <3>3, PartOfSegment
    <3> QED
      BY <3>4, <3>5
  <2> HIDE DEF r, size
  <2>5. ReceiverKept(r)
    BY <2>3 DEF IInv
  <2>6. TakesLine(r, rcv.buf, Line) /\ ChunkReceiver(r)
    BY <1>1, <1>3, <2>2, <2>5 DEF TakesLine, ChunkReceiver, size
  <2>7. ASSUME NEW t \in Seq(Token)
        PROVE  RestOf(rcv, Done, s \o t) = RestOf(r, Done + Len(s) - Len(rest), rest \o t)
    <3> DEFINE x == ControlLine
               i == LineEnd
               line == Upto(x, i - 1)
               over == From(x, i + 2)
    <3>1. AtLineEnd(rcv, s, x, i)
      BY <1>5, <2>1
    <3>2. ChunkReceiver(rcv) /\ Done \in Int /\ s \in Seq(Token)
      BY <1>2
    <3>3. (line = <<>> \/ IsControlLine(line)) /\ TakesLine(r, rcv.buf, line)
      BY <2>1, <2>6 DEF Line
    <3> HIDE DEF x, i, Done
    <3>4. line = <<>> \/ IsControlLine(line) =>
              \A q : TakesLine(q, rcv.buf, line) =>
                 RestOf(rcv, Done, s \o t) = RestOf(q, Done + Len(s) - Len(over), over \o t)
      BY <3>1, <3>2, RestAfterLine
    <3> HIDE DEF line, over
    <3>5. RestOf(rcv, Done, s \o t) = RestOf(r, Done + Len(s) - Len(over), over \o t)
      BY <3>3, <3>4
    <3> QED
      BY <3>5 DEF over, x, i
  <2>8. ~rcv.error =>
            \A t \in Seq(Token) :
                RestOf(rcv, Done, s \o t) =
                    IF r.error THEN <<Rejected>>
                    ELSE RestOf(r, Done + Len(s) - Len(rest), rest \o t)
    BY <2>2, <2>7
  <2>9. ~r.completed /\ (rcv.error => r.error)
    BY <1>2, <2>2
  <2> HIDE DEF rest
  <2> QED
    BY <1>1, <2>3, <2>4, <2>6, <2>8, <2>9, RoundPromises
<1>8. CASE control_line_invalid
  <2> DEFINE r == [rcv EXCEPT !.line = <<>>, !.error = TRUE, !.all = TRUE]
             w == WithBody(request, r, Len(data))
  <2>1. LineEnd # 0 /\ Line # <<>> /\ ~IsControlLine(Line)
    BY <1>8 DEF control_line_invalid
  <2>2. /\ r.line = <<>> /\ r.end = rcv.end /\ r.validate = rcv.validate /\ r.error
    BY <1>2 DEF ReceiverFields
  <2>3. rcv' = r /\ Return(r, Len(data))
    BY <1>8 DEF control_line_invalid, Return
  <2> HIDE DEF r
  <2>4. ChunkReceiver(r)
    <3>1. ReceiverKept(r)
      BY <2>3 DEF IInv
    <3> QED
      BY <1>1, <1>3, <2>2, <3>1 DEF ChunkReceiver
  <2>5. w.completed /\ w.error /\ ~w.empty
    BY <1>1, <2>2, StateTyped, LoopState, WithBodyIs
  <2>6. ASSUME NEW t \in Seq(Token)
        PROVE  /\ ToCome(w, r, From(data, Len(data) + 1) \o t) = <<Rejected>>
               /\ RestOf(rcv, Done, s \o t) = <<Rejected>>
    <3>1. ToCome(w, r, From(data, Len(data) + 1) \o t) = <<Rejected>>
      <4> HIDE DEF w
      <4> QED
        BY <2>5 DEF ToCome
    <3> DEFINE x == ControlLine
               i == LineEnd
               line == Upto(x, i - 1)
    <3>2. AtLineEnd(rcv, s, x, i)
      BY <1>5, <2>1
    <3>3. ChunkReceiver(rcv) /\ Done \in Int /\ s \in Seq(Token)
      BY <1>2
    <3>4. line # <<>> /\ ~IsControlLine(line)
      BY <2>1 DEF Line
    <3> HIDE DEF x, i, Done
    <3>5. line # <<>> /\ ~IsControlLine(line) => RestOf(rcv, Done, s \o t) = <<Rejected>>
      BY <3>2, <3>3, RestAfterLine
    <3> QED
      BY <3>1, <3>4, <3>5
  <2>7. \A t \in Seq(Token) :
           ToCome(w, r, From(data, Len(data) + 1) \o t) =
               IF rcv.error THEN <<Rejected>> ELSE RestOf(rcv, Done, s \o t)
    BY <2>6
  <2> DEFINE used == Len(data)
  <2> HIDE DEF used
  <2>8. Return(r, used) /\ w = WithBody(request, r, used)
        /\ \A t \in Seq(Token) :
              ToCome(w, r, From(data, used + 1) \o t) =
                  IF rcv.error THEN <<Rejected>> ELSE RestOf(rcv, Done, s \o t)
    BY <2>3, <2>7 DEF used
  <2> HIDE DEF w
  <2> QED
    BY <1>1, <2>4, <2>8, ReturnPromises
<1> QED
  BY <1>6, <1>7, <1>8

LEMMA TrailerPromises ==
    ASSUME IInv, IInv', Reading, trailer_unfinished \/ trailer
    PROVE  PromiseKept
<1>1. /\ InTrailer /\ InLoop /\ pc = "chunks" /\ rcv.remain = 0 /\ ~rcv.validate /\ rcv.all
      /\ s # <<>>
  BY DEF trailer_unfinished, trailer, InTrailer, InLoop
<1>2. /\ ChunkReceiver(rcv) /\ ~rcv.completed /\ Done \in Int /\ DOMAIN rcv = ReceiverFields
      /\ s \in Seq(Token) /\ Len(s) \in Nat /\ ReceiverKept(rcv)
      /\ data \in Seq(Token) /\ Len(data) \in Nat
      /\ Done + Len(s) = request.bbytes + Len(data) /\ request.bbytes \in Nat
  BY <1>1, LoopState, StateTyped
<1>3. /\ rcv.trailer \in Seq(Token) /\ Len(rcv.trailer) \in Nat
      /\ Find(rcv.trailer, CRLF \o CRLF) = 0 /\ ~IsPrefix(CRLF, rcv.trailer)
      /\ rcv.line = <<>> /\ rcv.end = <<>> /\ rcv.buf \in Seq(Token)
  BY <1>1, <1>2, LenProperties DEF ChunkReceiver, ReceiverKept
<1>4. /\ WholeTrailer \in Seq(Token) /\ Len(WholeTrailer) = Len(rcv.trailer) + Len(s)
      /\ WholeTrailer = rcv.trailer \o s /\ TrailerEnd = EndOfTrailer(WholeTrailer)
  BY <1>2, <1>3, ConcatProperties DEF WholeTrailer, TrailerEnd, EndOfTrailer
<1>5. CASE trailer_unfinished
  <2> DEFINE r == [rcv EXCEPT !.trailer = WholeTrailer]
  <2>1. /\ r.trailer = WholeTrailer /\ r.line = rcv.line /\ r.end = rcv.end
        /\ r.validate = rcv.validate /\ r.remain = rcv.remain /\ r.all = rcv.all
        /\ r.buf = rcv.buf /\ r.error = rcv.error /\ r.completed = rcv.completed
    BY <1>2 DEF ReceiverFields
  <2>2. rcv' = r /\ Continue(r, <<>>)
    BY <1>5 DEF trailer_unfinished, Continue
  <2> HIDE DEF r
  <2>3. ChunkReceiver(r)
    <3>1. ReceiverKept(r)
      BY <2>2 DEF IInv
    <3> QED
      BY <1>1, <1>3, <2>1, <3>1 DEF ChunkReceiver
  <2>4. Kept(r) = Kept(rcv) \o s
    BY <1>1, <1>4, <2>1 DEF Kept
  <2> QED
    BY <1>1, <2>1, <2>2, <2>3, <2>4, KeepPromises
<1>6. CASE trailer
  <2> DEFINE r == [rcv EXCEPT !.completed = TRUE]
             x == WholeTrailer
             i == TrailerEnd
             used == Len(data) - (Len(x) - i)
             w == WithBody(request, r, used)
  <2>1. i # 0 /\ i = EndOfTrailer(x) /\ Len(x) = Len(rcv.trailer) + Len(s) /\ x \in Seq(Token)
    BY <1>4, <1>6 DEF trailer
  <2>2. /\ r.trailer = rcv.trailer /\ r.line = rcv.line /\ r.end = rcv.end
        /\ r.validate = rcv.validate /\ r.remain = rcv.remain /\ r.all = rcv.all
        /\ r.buf = rcv.buf /\ r.error = rcv.error /\ r.completed
    BY <1>2 DEF ReceiverFields
  <2>3. rcv' = r /\ Return(r, used)
    BY <1>6 DEF trailer, Return
  <2> HIDE DEF r
  <2>4. ChunkReceiver(r)
    <3>1. ReceiverKept(r)
      BY <2>3 DEF IInv
    <3> QED
      BY <1>1, <1>3, <2>2, <3>1 DEF ChunkReceiver
  <2>5. AtTrailerEnd(rcv, s, x, i)
    BY <1>1, <1>4, <2>1 DEF AtTrailerEnd
  <2>6. i \in Nat /\ i >= Len(rcv.trailer) /\ i =< Len(x)
    <3> DEFINE k == rcv.trailer
    <3>1. k \in Seq(Token) /\ EndOfTrailer(k) = 0 /\ x = k \o s
      BY <1>3, <1>4 DEF EndOfTrailer, DoubleNewline
    <3>2. EndOfTrailer(k \o s) # 0
      BY <2>1, <3>1
    <3> HIDE DEF k, x
    <3>3. EndOfTrailer(k \o s) >= Len(k)
      <4>1. k \in Seq(Token) /\ EndOfTrailer(k) = 0
        BY <3>1
      <4> QED
        BY <1>2, <3>2, <4>1, EndOfTrailerStays
    <3>4. EndOfTrailer(x) \in 2 .. Len(x)
      <4>1. EndOfTrailer(x) # 0 /\ x \in Seq(Token)
        BY <2>1
      <4> QED
        BY <4>1, EndOfTrailerIs
    <3>5. i >= Len(k) /\ i \in 2 .. Len(x) /\ Len(x) \in Nat
      BY <2>1, <3>1, <3>3, <3>4, LenProperties
    <3> QED
      BY <3>5 DEF k
  <2>7. w.empty = request.empty
        /\ (w.error <=> request.error \/ request.bbytes + used >= MaxBody \/ r.error)
        /\ (w.completed <=> request.completed \/ request.bbytes + used >= MaxBody
                              \/ r.error \/ r.completed)
    <3> HIDE DEF used
    <3> QED
      BY StateTyped, WithBodyIs
  <2>8. ~request.error /\ ~request.empty
    BY <1>1, LoopState
  <2>9. Done + Len(s) - (Len(x) - i) = request.bbytes + used
    <3>1. Len(x) \in Int /\ i \in Int /\ Len(data) \in Int /\ request.bbytes \in Int /\ Len(s) \in Int
      BY <1>2, <1>3, <2>1, <2>6
    <3> HIDE DEF x, i, Done
    <3> QED
      BY <1>2, <3>1
  <2>10. ASSUME ~rcv.error
         PROVE  From(x, i + 1) = From(data, used + 1)
    <3>1. PICK p \in Seq(Token) : data = p \o s
      BY <1>1, <2>10, LoopState DEF RestOfSegment
    <3> DEFINE k == rcv.trailer
               j == i - Len(k)
    <3>2. i \in Len(k) .. Len(k) + Len(s) /\ k \in Seq(Token) /\ Len(k) \in Nat
      BY <1>3, <1>4, <2>6
    <3>3. /\ j \in 0 .. Len(s) /\ From(k \o s, i + 1) = From(s, j + 1)
      <4> HIDE DEF k, i
      <4> QED
        BY <1>2, <3>2, PartOfSegment
    <3>4. From(p \o s, Len(p) + j + 1) = From(s, j + 1)
      <4> HIDE DEF j
      <4> QED
        BY <1>2, <3>3, CutOfSecond
    <3>5. Len(data) = Len(p) + Len(s) /\ Len(p) \in Nat
      BY <1>2, <3>1, ConcatProperties, LenProperties
    <3>6. Len(p) + j = used
      <4>1. Len(x) = Len(k) + Len(s) /\ i \in Int
        BY <2>1, <3>2
      <4> HIDE DEF k, x, i
      <4> QED
        BY <1>2, <3>2, <3>5, <4>1
    <3>7. x = k \o s
      BY <1>4
    <3> HIDE DEF k, j, used, x, i
    <3> QED
      BY <3>1, <3>3, <3>4, <3>6, <3>7
  <2>11. ASSUME NEW t \in Seq(Token)
         PROVE  ToCome(w, r, From(data, used + 1) \o t) =
                    IF rcv.error THEN <<Rejected>> ELSE RestOf(rcv, Done, s \o t)
    <3>1. RestOf(rcv, Done, s \o t) =
              IF Done + Len(s) - (Len(x) - i) >= MaxBody THEN <<Rejected>>
              ELSE <<Accepted(rcv.buf)>> \o Frames[From(x, i + 1) \o t]
      <4>1. ChunkReceiver(rcv) /\ Done \in Int /\ s \in Seq(Token)
        BY <1>2
      <4> HIDE DEF x, i, Done
      <4> QED
        BY <2>5, <4>1, RestAfterTrailer
    <3> DEFINE y == From(data, used + 1) \o t
    <3>2. ToCome(w, r, y) =
              IF request.bbytes + used >= MaxBody \/ rcv.error THEN <<Rejected>>
              ELSE <<Accepted(rcv.buf)>> \o Frames[y]
      <4> HIDE DEF y, w, used
      <4> QED
        BY <2>2, <2>7, <2>8 DEF ToCome
    <3> DEFINE big == Done + Len(s) - (Len(x) - i) >= MaxBody
    <3>3. big <=> request.bbytes + used >= MaxBody
      BY <2>9
    <3> HIDE DEF big, used, w, x, i
    <3> QED
      BY <2>10, <3>1, <3>2, <3>3 DEF big
  <2> HIDE DEF used
  <2>12. \A t \in Seq(Token) :
            ToCome(w, r, From(data, used + 1) \o t) =
                IF rcv.error THEN <<Rejected>> ELSE RestOf(rcv, Done, s \o t)
    BY <2>11
  <2> QED
    BY <1>1, <2>3, <2>4, <2>12, ReturnPromises
<1> QED
  BY <1>5, <1>6

\* Nothing is left of a segment after its last byte.
LEMMA AllTaken ==
    ASSUME NEW a \in Seq(Token)
    PROVE  /\ From(a, Len(a) + 1) = <<>> /\ Upto(a, Len(a)) = a
           /\ \A t \in Seq(Token) : From(a, Len(a) + 1) \o t = t
<1> DEFINE m == Len(a)
           y == From(a, m + 1)
           z == Upto(a, m)
<1>1. m \in Nat /\ Len(a) >= m /\ m \in 0 .. Len(a)
  BY LenProperties
<1>2. y \in Seq(Token) /\ Len(y) = Len(a) - m /\ z \in Seq(Token) /\ z \o y = a
  <2> HIDE DEF m
  <2> QED
    BY <1>1, Rest, Joined
<1>3. Len(y) = 0
  BY <1>1, <1>2
<1> HIDE DEF y, z
<1>4. y = <<>>
  BY <1>2, <1>3, EmptySeq
<1>5. z = a
  BY <1>2, <1>4, ConcatEmptySeq
<1> QED
  BY <1>4, <1>5, ConcatEmptySeq DEF y, z

LEMMA ConsumedPromises ==
    ASSUME IInv, IInv', Reading, chunks_consumed
    PROVE  PromiseKept
<1>1. pc = "chunks" /\ s = <<>> /\ Return(rcv, Len(data))
  BY DEF chunks_consumed
<1>2. /\ ChunkReceiver(rcv) /\ ~rcv.completed /\ request.kind = "chunked"
      /\ ~request.completed /\ ~request.error /\ ~request.empty
      /\ data \in Seq(Token) /\ Len(data) \in Nat /\ request.bbytes \in Nat
  BY <1>1, LoopState, StateTyped
<1> DEFINE used == Len(data)
           w == WithBody(request, rcv, used)
           d == request.bbytes + used
<1>3. Done = d /\ d \in Int
  <2>1. Len(s) = 0
    BY <1>1, EmptySeq
  <2> QED
    BY <1>2, <2>1 DEF Done
<1>4. /\ w.empty = request.empty /\ w.kind = request.kind /\ w.bbytes = d
      /\ w.error <=> request.error \/ d >= MaxBody \/ rcv.error
      /\ w.completed <=> request.completed \/ d >= MaxBody \/ rcv.error \/ rcv.completed
  <2> HIDE DEF used
  <2> QED
    BY StateTyped, WithBodyIs
<1> HIDE DEF w
<1>5. ASSUME NEW t \in Seq(Token)
      PROVE  ToCome(w, rcv, From(data, used + 1) \o t) =
                 IF rcv.error THEN <<Rejected>> ELSE RestOf(rcv, Done, s \o t)
  <2>1. From(data, used + 1) \o t = t /\ s \o t = t
    BY <1>1, <1>2, AllTaken, ConcatEmptySeq
  <2> HIDE DEF used, d
  <2>2. ToCome(w, rcv, t) =
            IF d >= MaxBody \/ rcv.error THEN <<Rejected>> ELSE RestOf(rcv, d, t)
    BY <1>2, <1>4 DEF ToCome
  <2>3. d >= MaxBody => RestOf(rcv, d, t) = <<Rejected>>
    BY <1>2, <1>3, RestTooLong
  <2> QED
    BY <1>3, <2>1, <2>2, <2>3
<1> HIDE DEF used
<1>6. Return(rcv, used)
  BY <1>1 DEF used
<1> QED
  BY <1>1, <1>2, <1>5, <1>6, ReturnPromises DEF w

\* The first step of ChunkedReceiver.received.
LEMMA ChunkedPromises ==
    ASSUME IInv, IInv', Reading, chunked_body
    PROVE  PromiseKept
<1>1. /\ pc = "call" /\ request.kind = "chunked" /\ s' = data /\ pc' = "chunks"
      /\ rcv' = rcv /\ request' = request /\ data' = data
  BY DEF chunked_body, channel_vars
<1>2. /\ ~request.completed /\ ~request.error /\ ~request.empty
      /\ ChunkReceiver(rcv) /\ request.bbytes < MaxBody /\ ~rcv.completed /\ ~rcv.error
  BY <1>1 DEF Reading, RequestState, ChunkState
<1>3. RestOfSegment'
  <2>1. data = <<>> \o data /\ <<>> \in Seq(Token)
    BY StateTyped, ConcatEmptySeq, EmptySeq
  <2> QED
    BY <1>1, <2>1 DEF RestOfSegment
<1>4. Reading'
  BY <1>1, <1>2, <1>3 DEF Reading, HeaderState, RequestState, FixedState, ChunkState
<1>5. Done' = request.bbytes
  BY <1>1, StateTyped DEF Done
<1>6. ASSUME NEW t \in Seq(Token)
      PROVE  Promise(t)' = Promise(t)
  <2>1. Promise(t) = RestOf(rcv, request.bbytes, data \o t)
    BY <1>1, <1>2 DEF Promise, ToCome
  <2>2. Promise(t)' = RestOf(rcv, request.bbytes, data \o t)
    BY <1>1, <1>2, <1>5 DEF Promise
  <2> QED
    BY <2>1, <2>2
<1> QED
  BY <1>4, <1>6 DEF PromiseKept

\* FixedStreamReceiver.received.
LEMMA FixedPromises ==
    ASSUME IInv, IInv', Reading, fixed_body
    PROVE  PromiseKept
<1>1. /\ pc = "call" /\ request.kind = "fixed" /\ ~request.completed /\ ~request.error
      /\ ~request.empty /\ ~rcv.error
      /\ request.bbytes + rcv.remain = BodyLength
  <2>1. pc = "call" /\ request.kind \in {"fixed", "big"}
    BY DEF fixed_body
  <2>2. ~request.completed /\ ~request.error /\ ~request.empty /\ request.kind # "big"
    BY <2>1 DEF Reading, RequestState
  <2>3. ~rcv.error /\ request.bbytes + 0 + rcv.remain = BodyLength
    BY <2>1, <2>2 DEF Reading, FixedState
  <2>4. request.bbytes + 0 + rcv.remain = request.bbytes + rcv.remain
    BY StateTyped
  <2> QED
    BY <2>1, <2>2, <2>3, <2>4
<1>2. /\ data \in Seq(Token) /\ Len(data) \in Nat /\ data # <<>> /\ ReceiverKept(rcv)
      /\ rcv.remain \in Nat /\ rcv.buf \in Seq(Token) /\ request.bbytes \in Nat
      /\ rcv.remain > 0 /\ DOMAIN rcv = ReceiverFields /\ RequestKept(request)
  BY <1>1, StateTyped DEF IInv, Expecting, ReceiverKept
<1> DEFINE m == Remainder(data)
           r == [rcv EXCEPT !.remain = @ - m, !.buf = @ \o Upto(data, m),
                            !.completed = rcv.remain =< Len(data)]
           k == rcv.remain
           w == WithBody(request, r, m)
<1>3. /\ m \in Nat /\ m =< Len(data) /\ m =< k
      /\ k =< Len(data) => m = k
      /\ k > Len(data) => m = Len(data)
  BY <1>2 DEF Remainder
<1>4. rcv' = r /\ n' = m /\ pc' = "body" /\ request' = request /\ data' = data
  BY DEF fixed_body, channel_vars
<1> HIDE DEF m
<1>5. /\ r.remain = k - m /\ r.buf = rcv.buf \o Upto(data, m) /\ r.error = rcv.error
      /\ r.completed <=> k =< Len(data)
  BY <1>2 DEF ReceiverFields
<1> HIDE DEF r, k
<1>6. /\ request.bbytes + m < MaxBody /\ ~(request.bbytes + m >= MaxBody)
      /\ request.bbytes + m + (k - m) = BodyLength
      /\ k \in Nat /\ k > 0
  <2> DEFINE x == request.bbytes
  <2>1. x \in Nat /\ k \in Nat /\ k > 0 /\ m \in Nat /\ m =< k /\ x + k = BodyLength
    BY <1>1, <1>2, <1>3 DEF k
  <2>2. BodyLength \in Nat /\ MaxBody \in Nat /\ BodyLength < MaxBody
    BY LimitsAre DEF Limits
  <2> HIDE DEF x, w
  <2>3. x + m < MaxBody /\ ~(x + m >= MaxBody) /\ x + m + (k - m) = BodyLength
    BY <2>1, <2>2
  <2> QED
    BY <2>1, <2>3 DEF x
<1>7. /\ w.empty = request.empty /\ w.kind = request.kind /\ ~w.error
      /\ w.completed <=> k =< Len(data)
  BY <1>1, <1>2, <1>5, <1>6, WithBodyIs
<1>8. Reading'
  <2>1. HeaderState' /\ RequestState' /\ ChunkState'
    BY <1>1, <1>4 DEF HeaderState, RequestState, ChunkState
  <2>2. k =< Len(data) <=> k - m = 0
    BY <1>2, <1>3, <1>6
  <2>3. FixedState'
    BY <1>1, <1>4, <1>5, <1>6, <2>2 DEF FixedState
  <2> QED
    BY <2>1, <2>3 DEF Reading
<1>9. ASSUME NEW t \in Seq(Token)
      PROVE  Promise(t)' = Promise(t)
  <2> DEFINE a == data \o t
             b == From(data, m + 1) \o t
  <2>1. Promise(t) = IF Len(a) < k THEN <<>>
                     ELSE <<Accepted(rcv.buf \o Upto(a, k))>> \o Frames[From(a, k + 1)]
    BY <1>1 DEF Promise, ToCome, k
  <2>2. Promise(t)' = ToCome(w, r, b)
    BY <1>4 DEF Promise
  <2>3. Len(a) = Len(data) + Len(t) /\ Len(t) \in Nat /\ Upto(data, m) \in Seq(Token)
        /\ From(data, m + 1) \in Seq(Token)
    BY <1>2, <1>3, ConcatProperties, LenProperties, Rest
  <2>4. CASE k =< Len(data)
    <3>1. m \in 0 .. Len(data) /\ m = k
      BY <1>2, <1>3, <2>4
    <3>2. From(a, m + 1) = b /\ Upto(a, m) = Upto(data, m)
      BY <1>2, <3>1, CutOfLonger
    <3>3. ~(Len(a) < k)
      BY <1>2, <1>6, <2>3, <2>4
    <3>4. Promise(t)' = <<Accepted(r.buf)>> \o Frames[b]
      <4> HIDE DEF w, b
      <4> QED
        BY <1>1, <1>7, <2>2, <2>4 DEF ToCome
    <3> HIDE DEF a, b
    <3> QED
      BY <1>5, <2>1, <3>1, <3>2, <3>3, <3>4
  <2>5. CASE k > Len(data)
    <3> DEFINE j == k - Len(data)
    <3>1. m = Len(data) /\ j \in Nat /\ ~(k =< Len(data)) /\ j = k - m
      BY <1>2, <1>3, <1>6, <2>5
    <3>2. b = t /\ Upto(data, m) = data
      BY <1>2, <3>1, AllTaken
    <3>3. Promise(t)' = IF Len(t) < j THEN <<>>
                        ELSE <<Accepted((rcv.buf \o data) \o Upto(t, j))>> \o Frames[From(t, j + 1)]
      <4>1. r.remain = j /\ r.buf = rcv.buf \o data
        BY <1>5, <3>1, <3>2
      <4> HIDE DEF w, j, b
      <4> QED
        BY <1>1, <1>7, <2>2, <3>1, <3>2, <4>1 DEF ToCome
    <3>4. Len(a) < k <=> Len(t) < j
      BY <1>2, <1>6, <2>3
    <3>5. ASSUME ~(Len(t) < j)
          PROVE  Upto(a, k) = data \o Upto(t, j) /\ From(a, k + 1) = From(t, j + 1)
                 /\ (rcv.buf \o data) \o Upto(t, j) = rcv.buf \o (data \o Upto(t, j))
      <4>1. j \in 0 .. Len(t) /\ Len(data) + j = k /\ Len(data) + j + 1 = k + 1 /\ Len(t) >= j
        BY <1>2, <1>6, <2>3, <3>1, <3>5
      <4>2. Upto(data \o t, Len(data) + j) = data \o Upto(t, j)
            /\ From(data \o t, Len(data) + j + 1) = From(t, j + 1)
        <5> HIDE DEF j
        <5> QED
          BY <1>2, <4>1, CutOfSecond
      <4>3. Upto(t, j) \in Seq(Token)
        <5> HIDE DEF j
        <5> QED
          BY <3>1, <4>1, Rest
      <4> DEFINE u == Upto(t, j)
                 v == rcv.buf
      <4>4. u \in Seq(Token) /\ v \in Seq(Token)
        BY <1>2, <4>3
      <4> HIDE DEF u, v
      <4>5. (v \o data) \o u = v \o (data \o u)
        BY <1>2, <4>4, Associative
      <4> QED
        BY <4>1, <4>2, <4>5 DEF u, v
    <3> HIDE DEF a, j
    <3> QED
      BY <2>1, <3>3, <3>4, <3>5
  <2> QED
    BY <1>2, <1>6, <2>4, <2>5
<1> QED
  BY <1>8, <1>9 DEF PromiseKept

\* HTTPRequestParser.received, after its receiver has returned.
LEMMA BodyPromises ==
    ASSUME IInv, IInv', Reading, body_received
    PROVE  PromiseKept
<1>1. /\ pc = "body" /\ pc' = "returned" /\ rcv' = rcv /\ n' = n /\ data' = data
      /\ request' = WithBody(request, rcv, n)
  BY DEF body_received, BodyTooLarge, WithBody, channel_vars, IInv, Expecting
<1>2. /\ ~request.completed /\ ~request.error /\ ~request.empty /\ request.kind # "none"
      /\ request.kind # "big"
  BY <1>1 DEF Reading, RequestState
<1>3. /\ request'.kind = request.kind /\ request'.empty = request.empty
      /\ request'.bbytes = request.bbytes + n
      /\ request'.error <=> request.bbytes + n >= MaxBody \/ rcv.error
      /\ request'.completed <=> request.bbytes + n >= MaxBody \/ rcv.error \/ rcv.completed
  BY <1>1, <1>2, StateTyped, WithBodyIs
<1>4. HeaderState' /\ RequestState'
  BY <1>1, <1>2, <1>3 DEF HeaderState, RequestState
<1>5. FixedState'
  <2>1. /\ request.bbytes \in Nat /\ n \in Nat /\ rcv.remain \in Nat /\ request'.bbytes \in Nat
    BY <1>3, StateTyped
  <2>2. ASSUME request.kind = "fixed"
        PROVE  /\ request'.bbytes + 0 + rcv.remain = BodyLength /\ ~rcv.error
               /\ rcv.completed <=> rcv.remain = 0
    <3>1. /\ request.bbytes + n + rcv.remain = BodyLength /\ ~rcv.error
          /\ rcv.completed <=> rcv.remain = 0
      BY <1>1, <1>2, <2>2 DEF Reading, FixedState
    <3> QED
      BY <1>3, <2>1, <3>1
  <2> QED
    BY <1>1, <1>3, <2>2 DEF FixedState
<1>6. ChunkState'
  <2>1. request'.bbytes \in Nat /\ MaxBody \in Nat
    BY <1>3, StateTyped, LimitsAre DEF Limits
  <2>2. ~request'.completed => request'.bbytes < MaxBody /\ ~rcv.error /\ ~rcv.completed
    BY <1>3, <2>1
  <2> QED
    BY <1>1, <1>2, <1>3, <2>2 DEF Reading, ChunkState
<1>7. Reading'
  BY <1>4, <1>5, <1>6 DEF Reading
<1>8. ASSUME NEW t \in Seq(Token)
      PROVE  Promise(t)' = Promise(t)
  <2>1. Promise(t) = ToCome(WithBody(request, rcv, n), rcv, From(data, n + 1) \o t)
    BY <1>1 DEF Promise
  <2>2. Promise(t)' = ToCome(request', rcv', From(data', n' + 1) \o t)
    BY <1>1 DEF Promise
  <2> QED
    BY <1>1, <2>1, <2>2
<1> QED
  BY <1>7, <1>8 DEF PromiseKept

\* A continue that is sent for a body that is still to come changes nothing.
LEMMA ContinuedAs ==
    ASSUME RequestKept(request)
    PROVE  /\ Continued.kind = request.kind /\ Continued.plus = request.plus
           /\ Continued.empty = request.empty /\ Continued.error = request.error
           /\ Continued.bbytes = request.bbytes /\ Continued.hbytes = request.hbytes
           /\ Continued.headers = request.headers
           /\ ~Continued.completed /\ ~Continued.expect
BY DEF Continued, RequestKept, RequestFields

\* What is to come does not depend on anything else in a request.
LEMMA SameToCome ==
    ASSUME NEW q, NEW w, NEW r, NEW a,
           w.completed <=> q.completed, w.empty = q.empty, w.error = q.error,
           w.kind = q.kind, w.plus = q.plus, w.bbytes = q.bbytes
    PROVE  ToCome(w, r, a) = ToCome(q, r, a)
BY DEF ToCome

LEMMA ContinuePromises ==
    ASSUME IInv, IInv', Reading, ContinuesUnfinished, send_continue
    PROVE  PromiseKept
<1>1. /\ pc = "returned" /\ pc' = "returned" /\ rcv' = rcv /\ n' = n /\ data' = data
      /\ request' = Continued /\ ContinueNow
  BY DEF send_continue, ContinueNow
<1>2. ~request.completed
  BY <1>1 DEF ContinuesUnfinished
<1>3. /\ request'.kind = request.kind /\ request'.plus = request.plus
      /\ request'.empty = request.empty /\ request'.error = request.error
      /\ request'.bbytes = request.bbytes /\ request'.hbytes = request.hbytes
      /\ request'.headers = request.headers
      /\ ~request'.completed /\ ~request'.expect
  BY <1>1, StateTyped, ContinuedAs
<1>4. HeaderState' /\ RequestState' /\ FixedState' /\ ChunkState'
  <2>1. HeaderState'
    BY <1>2, <1>3 DEF Reading, HeaderState
  <2>2. RequestState'
    BY <1>1, <1>2, <1>3 DEF Reading, RequestState
  <2>3. FixedState'
    BY <1>1, <1>2, <1>3 DEF Reading, FixedState
  <2>4. ChunkState'
    BY <1>1, <1>2, <1>3 DEF Reading, ChunkState
  <2> QED
    BY <2>1, <2>2, <2>3, <2>4
<1>5. ASSUME NEW t \in Seq(Token)
      PROVE  Promise(t)' = Promise(t)
  <2>1. Promise(t) = ToCome(request, rcv, From(data, n + 1) \o t)
    BY <1>1 DEF Promise
  <2>2. Promise(t)' = ToCome(request', rcv, From(data, n + 1) \o t)
    BY <1>1 DEF Promise
  <2>3. request'.completed <=> request.completed
    BY <1>2, <1>3
  <2> QED
    BY <1>3, <2>1, <2>2, <2>3, SameToCome
<1> QED
  BY <1>4, <1>5 DEF PromiseKept, Reading

LEMMA ServicePromises ==
    ASSUME IInv, IInv', Reading, service_ends
    PROVE  PromiseKept
<1> DEFINE due == served' = Len(requests) /\ WantsContinue
<1>1. /\ pc = "idle" /\ pc' = "idle" /\ rcv' = rcv
      /\ request' = IF due THEN Continued ELSE request
  BY DEF service_ends
<1>2. ~request.completed
  BY <1>1 DEF Reading, RequestState
<1>3. /\ request'.kind = request.kind /\ request'.plus = request.plus
      /\ request'.empty = request.empty /\ request'.error = request.error
      /\ request'.bbytes = request.bbytes /\ request'.hbytes = request.hbytes
      /\ request'.headers = request.headers
      /\ ~request'.completed
  BY <1>1, <1>2, StateTyped, ContinuedAs
<1> HIDE DEF due
<1>4. HeaderState' /\ RequestState' /\ FixedState' /\ ChunkState'
  <2>1. HeaderState'
    BY <1>2, <1>3 DEF Reading, HeaderState
  <2>2. RequestState'
    BY <1>1, <1>2, <1>3 DEF Reading, RequestState
  <2>3. FixedState'
    BY <1>1, <1>2, <1>3 DEF Reading, FixedState
  <2>4. ChunkState'
    BY <1>1, <1>2, <1>3 DEF Reading, ChunkState
  <2> QED
    BY <2>1, <2>2, <2>3, <2>4
<1>5. ASSUME NEW t \in Seq(Token)
      PROVE  Promise(t)' = Promise(t)
  <2>1. Promise(t) = ToCome(request, rcv, t)
    BY <1>1 DEF Promise
  <2>2. Promise(t)' = ToCome(request', rcv, t)
    BY <1>1 DEF Promise
  <2>3. request'.completed <=> request.completed
    BY <1>2, <1>3
  <2> QED
    BY <1>3, <2>1, <2>2, <2>3, SameToCome
<1> QED
  BY <1>4, <1>5 DEF PromiseKept, Reading

\* In the header, what is to come is what the header and the rest of the stream hold.
LEMMA HeaderRead ==
    ASSUME IInv, Reading, InHeader
    PROVE  /\ ~request.completed /\ ~request.error /\ ~request.empty
           /\ request.headers = <<>> /\ request.bbytes = 0
           /\ Header \in Seq(Token) /\ Len(Header) \in Nat
           /\ HeaderBytes = IF HeaderEnd = 0 THEN Len(Header) ELSE HeaderEnd
           /\ \A t \in Seq(Token) : Promise(t) = Frames[Header \o t]
<1>1. /\ pc = "call" /\ request.kind = "none"
  BY DEF InHeader
<1>2. /\ ~request.completed /\ ~request.error /\ ~request.empty
      /\ request.headers = <<>> /\ request.bbytes = 0 /\ request.hbytes = Len(request.plus)
  BY <1>1 DEF Reading, RequestState, HeaderState
<1>3. /\ request.plus \in Seq(Token) /\ data \in Seq(Token)
      /\ Header = request.plus \o data
      /\ Len(request.plus) \in Nat /\ Len(data) \in Nat
  BY StateTyped DEF Header
<1>4. Header \in Seq(Token) /\ Len(Header) = Len(request.plus) + Len(data)
  BY <1>3, ConcatProperties
<1>5. HeaderBytes = IF HeaderEnd = 0 THEN Len(Header) ELSE HeaderEnd
  BY <1>2, <1>4 DEF HeaderBytes
<1>6. ASSUME NEW t \in Seq(Token)
      PROVE  Promise(t) = Frames[Header \o t]
  <2>1. Promise(t) = Frames[request.plus \o (data \o t)]
    BY <1>1, <1>2 DEF Promise, ToCome
  <2> DEFINE p == request.plus
  <2>2. p \in Seq(Token) /\ data \in Seq(Token)
    BY <1>3
  <2> HIDE DEF p
  <2>3. (p \o data) \o t = p \o (data \o t)
    BY <2>2, Associative
  <2> QED
    BY <1>3, <2>1, <2>3 DEF p
<1>7. Len(Header) \in Nat
  BY <1>3, <1>4
<1> QED
  BY <1>2, <1>4, <1>5, <1>6, <1>7

\* A header that is too large, however it goes on.
LEMMA HeaderTooLarge ==
    ASSUME IInv, Reading, InHeader, HeaderBytes >= MaxHeader, NEW t \in Seq(Token)
    PROVE  Promise(t) = <<Rejected>>
<1> DEFINE x == Header
           c == x \o t
           e == DoubleNewline(c)
<1>1. /\ x \in Seq(Token) /\ Len(x) \in Nat /\ Promise(t) = Frames[c]
      /\ HeaderBytes = IF HeaderEnd = 0 THEN Len(x) ELSE HeaderEnd
      /\ HeaderEnd = DoubleNewline(x)
  BY HeaderRead DEF HeaderEnd
<1>2. MaxHeader \in Nat /\ MaxHeader > 0
  BY LimitsAre DEF Limits
<1> HIDE DEF x
<1>3. c \in Seq(Token) /\ Len(c) = Len(x) + Len(t) /\ Len(t) \in Nat /\ e \in Nat
  BY <1>1, ConcatProperties, LenProperties, DoubleNewlineIs
<1> DEFINE text == LStrip(Upto(c, e))
<1>4. FrameCases(Frames, c, e, text, ParsedHeader(text, <<>>), From(c, e + 1))
  <2> HIDE DEF c
  <2> QED
    BY <1>3, FrameStepIs
<1>5. Frames[c] = FrameStep(Frames, c)
  <2> HIDE DEF c
  <2> QED
    BY <1>3, FramesIs
<1> HIDE DEF text
<1>6. CASE HeaderEnd # 0
  <2>1. e = HeaderEnd
    BY <1>1, <1>6, DoubleNewlineStays
  <2>2. e >= MaxHeader
    BY <1>1, <1>6, <2>1
  <2> QED
    BY <1>1, <1>4, <1>5, <2>2 DEF FrameCases
<1>7. CASE HeaderEnd = 0
  <2>1. Len(x) >= MaxHeader
    BY <1>1, <1>7
  <2>2. CASE e = 0
    <3>1. Len(c) >= MaxHeader
      BY <1>1, <1>2, <1>3, <2>1
    <3> QED
      BY <1>1, <1>4, <1>5, <2>2, <3>1 DEF FrameCases
  <2>3. CASE e # 0
    <3>1. e > Len(x)
      BY <1>1, <1>7, <2>3, DoubleNewlineBeyond
    <3> HIDE DEF e
    <3>2. e >= MaxHeader
      BY <1>1, <1>2, <1>3, <2>1, <3>1
    <3> QED
      BY <1>1, <1>4, <1>5, <3>2 DEF FrameCases
  <2> QED
    BY <2>2, <2>3
<1> QED
  BY <1>6, <1>7

\* One that has ended: what comes of it and of what follows it.
LEMMA HeaderEnded ==
    ASSUME IInv, Reading, HeaderComplete, NEW t \in Seq(Token)
    PROVE  /\ FrameCases(Frames, Header \o t, HeaderEnd, HeaderText, ParsedHeader(HeaderText, <<>>),
                         From(data, UsedByHeader + 1) \o t)
           /\ Promise(t) = FrameStep(Frames, Header \o t)
           /\ HeaderEnd # 0 /\ HeaderEnd < MaxHeader /\ HeaderEnd \in Nat
<1> DEFINE x == Header
           c == x \o t
           e == HeaderEnd
           p == request.plus
<1>1. InHeader /\ HeaderBytes < MaxHeader /\ HeaderEnd # 0
  BY DEF HeaderComplete
<1>2. /\ x \in Seq(Token) /\ Len(x) \in Nat /\ Promise(t) = Frames[c]
      /\ HeaderBytes = HeaderEnd /\ e = DoubleNewline(x) /\ e \in Nat
      /\ UsedByHeader \in 1 .. Len(data)
      /\ UsedByHeader = e - Len(p)
  BY <1>1, HeaderRead, HeaderFacts DEF HeaderEnd, UsedByHeader
<1>3. p \in Seq(Token) /\ data \in Seq(Token) /\ Len(p) \in Nat /\ Len(data) \in Nat
      /\ x = p \o data
  BY StateTyped DEF Header
<1>4. From(x, e + 1) = From(data, UsedByHeader + 1)
  <2>1. e \in Len(p) .. Len(p) + Len(data)
    <3> HIDE DEF e, p
    <3> QED
      BY <1>2, <1>3
  <2> HIDE DEF e, p, x
  <2>2. From(p \o data, e + 1) = From(data, e - Len(p) + 1)
    <3>1. p \in Seq(Token) /\ data \in Seq(Token)
      BY <1>3
    <3> QED
      BY <2>1, <3>1, PartOfSegment
  <2> QED
    BY <1>2, <1>3, <2>2
<1> HIDE DEF x, e
<1>5. e # 0 /\ e < MaxHeader
  BY <1>1, <1>2 DEF e
<1>6. DoubleNewline(c) = e /\ c \in Seq(Token)
  <2>1. x \in Seq(Token) /\ DoubleNewline(x) # 0
    BY <1>2, <1>5
  <2>2. DoubleNewline(x \o t) = DoubleNewline(x) /\ x \o t \in Seq(Token)
    BY <2>1, DoubleNewlineStays, ConcatProperties
  <2> QED
    BY <1>2, <2>2
<1>7. Upto(c, e) = Upto(x, e) /\ From(c, e + 1) = From(x, e + 1) \o t
  <2>1. x \in Seq(Token) /\ DoubleNewline(x) # 0
    BY <1>2, <1>5
  <2>2. e \in 0 .. Len(x)
    BY <1>2, <2>1, DoubleNewlineIn
  <2> QED
    BY <2>1, <2>2, CutOfLonger
<1>8. LStrip(Upto(c, e)) = HeaderText
  BY <1>7 DEF HeaderText, x, e
<1>9. LET text == LStrip(Upto(c, DoubleNewline(c)))
      IN FrameCases(Frames, c, DoubleNewline(c), text, ParsedHeader(text, <<>>),
                    From(c, DoubleNewline(c) + 1))
  <2> HIDE DEF c
  <2> QED
    BY <1>6, FrameStepIs
<1>10. FrameCases(Frames, c, e, HeaderText, ParsedHeader(HeaderText, <<>>), From(data, UsedByHeader + 1) \o t)
  <2> HIDE DEF c
  <2> QED
    BY <1>4, <1>6, <1>7, <1>8, <1>9
<1>11. Frames[c] = FrameStep(Frames, c)
  <2> HIDE DEF c
  <2> QED
    BY <1>6, FramesIs
<1> QED
  BY <1>2, <1>5, <1>10, <1>11 DEF x, e

\* The end of a call that stays in the header.
LEMMA HeaderPromises ==
    ASSUME IInv, Reading, NEW r, NEW used, ParsedTo(r, used), Reading',
           \A t \in Seq(Token) : Promise(t) = ToCome(r, rcv', From(data, used + 1) \o t)
    PROVE  PromiseKept
<1>1. /\ pc' = "returned" /\ request' = r /\ n' = used /\ data' = data
  BY DEF ParsedTo, channel_vars
<1>2. ASSUME NEW t \in Seq(Token)
      PROVE  Promise(t)' = Promise(t)
  <2>1. Promise(t)' = ToCome(r, rcv', From(data, used + 1) \o t)
    BY <1>1 DEF Promise
  <2> QED
    BY <2>1
<1> QED
  BY <1>2 DEF PromiseKept

LEMMA TooLargePromises ==
    ASSUME IInv, IInv', Reading, header_too_large
    PROVE  PromiseKept
<1> DEFINE r == [request EXCEPT !.hbytes = HeaderBytes, !.error = TRUE, !.completed = TRUE]
<1>1. InHeader /\ HeaderBytes >= MaxHeader /\ ParsedTo(r, UsedByHeader) /\ rcv' = rcv
  BY DEF header_too_large
<1>2. request.kind = "none" /\ RequestKept(request) /\ ~request.empty
  BY <1>1, StateTyped, HeaderRead DEF InHeader
<1>3. r.kind = "none" /\ r.error /\ r.completed /\ r.empty = request.empty
  BY <1>2 DEF RequestKept, RequestFields
<1> HIDE DEF r
<1>4. pc' = "returned" /\ request' = r
  BY <1>1 DEF ParsedTo
<1>5. Reading'
  BY <1>3, <1>4 DEF Reading, HeaderState, RequestState, FixedState, ChunkState
<1>6. ASSUME NEW t \in Seq(Token)
      PROVE  Promise(t) = ToCome(r, rcv', From(data, UsedByHeader + 1) \o t)
  <2>1. Promise(t) = <<Rejected>>
    BY <1>1, HeaderTooLarge
  <2> QED
    BY <1>2, <1>3, <2>1 DEF ToCome
<1> DEFINE used == UsedByHeader
<1> HIDE DEF used
<1>7. /\ ParsedTo(r, used)
      /\ \A t \in Seq(Token) : Promise(t) = ToCome(r, rcv', From(data, used + 1) \o t)
  BY <1>1, <1>6 DEF used
<1> QED
  BY <1>5, <1>7, HeaderPromises

LEMMA UnfinishedPromises ==
    ASSUME IInv, IInv', Reading, header_unfinished
    PROVE  PromiseKept
<1> DEFINE r == [request EXCEPT !.hbytes = HeaderBytes, !.plus = Header]
<1>1. /\ InHeader /\ HeaderBytes < MaxHeader /\ HeaderEnd = 0
      /\ ParsedTo(r, Len(data)) /\ rcv' = rcv
  BY DEF header_unfinished
<1>2. /\ request.kind = "none" /\ RequestKept(request) /\ data \in Seq(Token)
      /\ ~request.completed /\ ~request.error /\ ~request.empty
      /\ request.headers = <<>> /\ request.bbytes = 0
      /\ HeaderBytes = Len(Header)
      /\ \A t \in Seq(Token) : Promise(t) = Frames[Header \o t]
  BY <1>1, StateTyped, HeaderRead DEF InHeader
<1>3. /\ r.kind = "none" /\ r.error = request.error /\ r.completed = request.completed
      /\ r.empty = request.empty /\ r.plus = Header /\ r.hbytes = HeaderBytes
      /\ r.headers = request.headers /\ r.bbytes = request.bbytes
  BY <1>2 DEF RequestKept, RequestFields
<1> HIDE DEF r
<1>4. pc' = "returned" /\ request' = r
  BY <1>1 DEF ParsedTo
<1>5. Reading'
  BY <1>1, <1>2, <1>3, <1>4 DEF Reading, HeaderState, RequestState, FixedState, ChunkState
<1>6. ASSUME NEW t \in Seq(Token)
      PROVE  Promise(t) = ToCome(r, rcv', From(data, Len(data) + 1) \o t)
  <2>1. From(data, Len(data) + 1) \o t = t
    BY <1>2, AllTaken
  <2>2. ToCome(r, rcv', t) = Frames[Header \o t]
    BY <1>2, <1>3 DEF ToCome
  <2> QED
    BY <1>2, <2>1, <2>2
<1> DEFINE used == Len(data)
<1> HIDE DEF used
<1>7. /\ ParsedTo(r, used)
      /\ \A t \in Seq(Token) : Promise(t) = ToCome(r, rcv', From(data, used + 1) \o t)
  BY <1>1, <1>6 DEF used
<1> QED
  BY <1>5, <1>7, HeaderPromises

LEMMA BlankPromises ==
    ASSUME IInv, IInv', Reading, header_blank
    PROVE  PromiseKept
<1> DEFINE r == [request EXCEPT !.hbytes = HeaderBytes, !.finished = TRUE,
                                !.empty = TRUE, !.completed = TRUE]
<1>1. HeaderComplete /\ HeaderText = <<>> /\ ParsedTo(r, UsedByHeader) /\ rcv' = rcv
  BY DEF header_blank
<1>2. request.kind = "none" /\ RequestKept(request)
  BY <1>1, StateTyped DEF HeaderComplete, InHeader
<1>3. r.kind = "none" /\ r.completed /\ r.empty
  BY <1>2 DEF RequestKept, RequestFields
<1> HIDE DEF r
<1>4. pc' = "returned" /\ request' = r
  BY <1>1 DEF ParsedTo
<1>5. Reading'
  BY <1>3, <1>4 DEF Reading, HeaderState, RequestState, FixedState, ChunkState
<1> DEFINE used == UsedByHeader
<1>6. ASSUME NEW t \in Seq(Token)
      PROVE  Promise(t) = ToCome(r, rcv', From(data, used + 1) \o t)
  <2> DEFINE y == From(data, used + 1) \o t
             h == ParsedHeader(HeaderText, <<>>)
  <2>1. /\ FrameCases(Frames, Header \o t, HeaderEnd, HeaderText, h, y)
        /\ Promise(t) = FrameStep(Frames, Header \o t) /\ HeaderEnd # 0 /\ HeaderEnd < MaxHeader
    BY <1>1, HeaderEnded
  <2>2. Promise(t) = Frames[y]
    <3> HIDE DEF y, h
    <3> QED
      BY <1>1, <2>1 DEF FrameCases
  <2> QED
    BY <1>3, <2>2 DEF ToCome
<1> HIDE DEF used
<1>7. ParsedTo(r, used)
  BY <1>1 DEF used
<1> QED
  BY <1>5, <1>6, <1>7, HeaderPromises

LEMMA NewReceiverIs ==
    ASSUME NEW k \in Nat
    PROVE  LET r == NewReceiver(k)
           IN /\ r.remain = k /\ r.buf = <<>> /\ ~r.error /\ ~r.completed
              /\ ~r.validate /\ ~r.all /\ r.line = <<>> /\ r.end = <<>> /\ r.trailer = <<>>
              /\ ChunkReceiver(r)
<1>1. ReceiverKept(NewReceiver(k))
  BY NewOnesKept
<1> QED
  BY <1>1 DEF ChunkReceiver, NewReceiver

LEMMA ParsedPromises ==
    ASSUME IInv, IInv', Reading, parse_header
    PROVE  PromiseKept
<1> DEFINE h == ParsedHeader(HeaderText, request.headers)
           r == [request EXCEPT
                     !.hbytes = HeaderBytes, !.finished = TRUE,
                     !.headers = h.kept, !.expect = h.expect,
                     !.kind = IF h.ok THEN h.kind ELSE "none",
                     !.error = @ \/ ~h.ok \/ h.kind = "big",
                     !.completed = ~h.ok \/ h.kind \in {"none", "big"}]
           left == CASE h.kind = "fixed" -> BodyLength
                     [] h.kind = "big" -> BigLength
                     [] OTHER -> 0
           used == UsedByHeader
<1>1. HeaderComplete /\ HeaderText # <<>> /\ ParsedTo(r, used) /\ rcv' = NewReceiver(left)
  BY DEF parse_header
<1>2. /\ request.kind = "none" /\ RequestKept(request) /\ ~request.completed /\ ~request.error
      /\ ~request.empty /\ request.headers = <<>> /\ request.bbytes = 0
      /\ InHeader
  BY <1>1, StateTyped, HeaderRead DEF HeaderComplete, InHeader
<1>3. h.kind \in {"none", "fixed", "chunked", "big"}
  BY HeaderIs
<1> HIDE DEF h
<1>4. /\ r.kind = IF h.ok THEN h.kind ELSE "none"
      /\ r.error <=> ~h.ok \/ h.kind = "big"
      /\ r.completed <=> ~h.ok \/ h.kind \in {"none", "big"}
      /\ r.empty = request.empty /\ r.bbytes = 0
  BY <1>2 DEF RequestKept, RequestFields
<1> HIDE DEF r
<1>5. left \in Nat /\ (h.kind = "fixed" => left = BodyLength) /\ (h.kind = "chunked" => left = 0)
      /\ (h.kind = "none" => left = 0)
  BY LimitsUsable
<1> HIDE DEF left
<1>6. /\ rcv'.remain = left /\ rcv'.buf = <<>> /\ ~rcv'.error /\ ~rcv'.completed
      /\ ~rcv'.validate /\ ~rcv'.all /\ rcv'.line = <<>> /\ rcv'.end = <<>>
      /\ rcv'.trailer = <<>> /\ ChunkReceiver(rcv')
  BY <1>1, <1>5, NewReceiverIs
<1>7. pc' = "returned" /\ request' = r
  BY <1>1 DEF ParsedTo
<1>8. /\ BodyLength \in Nat /\ BodyLength > 0 /\ 0 < MaxBody
      /\ 0 + 0 + BodyLength = BodyLength /\ BodyLength # 0
  BY LimitsAre DEF Limits
<1>9. Reading'
  <2>1. HeaderState'
    BY <1>3, <1>4, <1>7 DEF HeaderState
  <2>2. RequestState'
    BY <1>2, <1>3, <1>4, <1>7 DEF RequestState
  <2>3. FixedState'
    <3>1. r.kind = "fixed" => left = BodyLength
      BY <1>4, <1>5
    <3> QED
      BY <1>4, <1>6, <1>7, <1>8, <3>1 DEF FixedState
  <2>4. ChunkState'
    BY <1>4, <1>6, <1>7, <1>8 DEF ChunkState
  <2> QED
    BY <2>1, <2>2, <2>3, <2>4 DEF Reading
<1>10. ASSUME NEW t \in Seq(Token)
       PROVE  Promise(t) = ToCome(r, rcv', From(data, used + 1) \o t)
  <2> DEFINE y == From(data, used + 1) \o t
             g == ParsedHeader(HeaderText, <<>>)
             step == FrameStep(Frames, Header \o t)
             q == rcv'
  <2>1. FrameCases(Frames, Header \o t, HeaderEnd, HeaderText, g, y)
        /\ Promise(t) = step /\ HeaderEnd # 0 /\ HeaderEnd < MaxHeader
    BY <1>1, HeaderEnded
  <2>2. h = g
    BY <1>2 DEF h
  <2>3. q.buf = <<>> /\ q.remain = left /\ ChunkReceiver(q)
        /\ ~q.validate /\ ~q.all /\ q.line = <<>> /\ q.trailer = <<>>
    BY <1>6
  <2> HIDE DEF y, g, used, q
  <2>4. y \in Seq(Token)
        /\ (~h.ok \/ h.kind = "big" => step = <<Rejected>>)
        /\ (h.ok /\ h.kind = "none" => step = <<Accepted(<<>>)>> \o Frames[y])
        /\ (h.ok /\ h.kind = "fixed" =>
              step = IF Len(y) < BodyLength THEN <<>>
                     ELSE <<Accepted(Upto(y, BodyLength))>> \o Frames[From(y, BodyLength + 1)])
        /\ (h.ok /\ h.kind = "chunked" => step = WholeWith(Frames, Chunked[y], 0, <<>>, y))
    BY <1>1, <2>1, <2>2 DEF FrameCases
  <2> HIDE DEF step
  <2>5. step = ToCome(r, q, y)
    <3>1. CASE ~h.ok \/ h.kind = "big"
      BY <1>2, <1>4, <2>4, <3>1 DEF ToCome
    <3>2. CASE h.ok /\ h.kind = "none"
      BY <1>2, <1>4, <2>3, <2>4, <3>2 DEF ToCome
    <3>3. CASE h.ok /\ h.kind = "fixed"
      <4>1. ~r.completed /\ r.kind = "fixed" /\ q.remain = BodyLength
        BY <1>4, <1>5, <2>3, <3>3
      <4>2. ~(Len(y) < BodyLength) => <<>> \o Upto(y, BodyLength) = Upto(y, BodyLength)
        <5> SUFFICES ASSUME ~(Len(y) < BodyLength)
                     PROVE  <<>> \o Upto(y, BodyLength) = Upto(y, BodyLength)
          OBVIOUS
        <5>1. Len(y) >= BodyLength
          BY <1>8, <2>4, LenProperties
        <5>2. Upto(y, BodyLength) \in Seq(Token)
          BY <1>8, <2>4, <5>1, Rest
        <5> QED
          BY <5>2, ConcatEmptySeq
      <4> QED
        BY <2>3, <2>4, <3>3, <4>1, <4>2 DEF ToCome
    <3>4. CASE h.ok /\ h.kind = "chunked"
      <4>1. ~r.completed /\ r.kind = "chunked" /\ q.remain = 0 /\ r.bbytes = 0
        BY <1>4, <1>5, <2>3, <3>4
      <4> DEFINE none == 0
      <4>2. none \in Int
        OBVIOUS
      <4> HIDE DEF none
      <4>3. RestOf(q, none, y) =
                IF q.remain > 0 THEN WholeAfter(q.remain, y, none, q.buf)
                ELSE IF q.all THEN Whole(Trailer(y), none, q.buf, y)
                ELSE Whole(Chunked[y], none, q.buf, y)
        BY <2>3, <2>4, <4>2, RestBegins
      <4>4. ToCome(r, q, y) = RestOf(q, none, y)
        BY <4>1 DEF ToCome, none
      <4>5. ~(q.remain > 0)
        BY <4>1
      <4>6. ToCome(r, q, y) = Whole(Chunked[y], none, <<>>, y)
        BY <2>3, <4>3, <4>4, <4>5
      <4> QED
        BY <2>4, <3>4, <4>6 DEF Whole, none
    <3> QED
      BY <1>3, <3>1, <3>2, <3>3, <3>4
  <2> QED
    BY <2>1, <2>5 DEF y, q
<1> HIDE DEF used
<1> QED
  BY <1>1, <1>9, <1>10, HeaderPromises

----------------------------------------------------------------------------
(* Between two calls of the parser, and between two segments *)

LEMMA NextRoundPromises ==
    ASSUME IInv, pc = "returned", NextRound, NEW t \in Seq(Token)
    PROVE  Promise(t)' = ToCome(request', rcv', From(data, n + 1) \o t)
<1>1. data \in Seq(Token) /\ Len(data) \in Nat /\ n \in 1 .. Len(data)
  BY LenProperties DEF IInv, Typed, Expecting
<1>2. CASE n >= Len(data)
  <2>1. n = Len(data) /\ pc' = "idle"
    BY <1>1, <1>2 DEF NextRound
  <2>2. From(data, Len(data) + 1) \o t = t
    BY <1>1, AllTaken
  <2>3. Promise(t)' = ToCome(request', rcv', t)
    BY <2>1 DEF Promise
  <2> QED
    BY <2>1, <2>2, <2>3
<1>3. CASE ~(n >= Len(data))
  <2>1. data' = From(data, n + 1) /\ pc' = "call"
    BY <1>3 DEF NextRound
  <2>2. Promise(t)' = ToCome(request', rcv', data' \o t)
    BY <2>1 DEF Promise
  <2> QED
    BY <2>1, <2>2
<1> QED
  BY <1>2, <1>3

LEMMA KeptPromises ==
    ASSUME IInv, IInv', Reading, keep_request
    PROVE  PromiseKept
<1>1. /\ pc = "returned" /\ request' = request /\ rcv' = rcv /\ ~request.completed
      /\ pc' \in {"idle", "call"}
  BY DEF keep_request, NextRound
<1>2. Reading'
  <2>1. HeaderState'
    BY <1>1 DEF Reading, HeaderState
  <2>2. RequestState'
    BY <1>1 DEF Reading, RequestState
  <2>3. FixedState'
    BY <1>1 DEF Reading, FixedState
  <2>4. ChunkState'
    BY <1>1 DEF Reading, ChunkState
  <2> QED
    BY <2>1, <2>2, <2>3, <2>4 DEF Reading
<1>3. ASSUME NEW t \in Seq(Token)
      PROVE  Promise(t)' = Promise(t)
  <2>1. Promise(t)' = ToCome(request', rcv', From(data, n + 1) \o t)
    BY <1>1, NextRoundPromises DEF keep_request
  <2>2. Promise(t) = ToCome(request, rcv, From(data, n + 1) \o t)
    BY <1>1 DEF Promise
  <2> QED
    BY <1>1, <2>1, <2>2
<1> QED
  BY <1>2, <1>3 DEF PromiseKept

\* The next request begins with what the one before it did not consume.
LEMMA QueuePromises ==
    ASSUME IInv, IInv', Reading, queue_request
    PROVE  /\ Reading'
           /\ \A t \in Seq(Token) : Promise(t)' \in Seq(Outcomes)
           /\ \A t \in Seq(Token) :
                  Promise(t) = IF request.empty THEN Promise(t)'
                               ELSE IF request.error THEN <<Rejected>>
                               ELSE <<Accepted(rcv.buf)>> \o Promise(t)'
<1>1. /\ pc = "returned" /\ request' = NewRequest /\ rcv' = NewReceiver(0)
      /\ pc' \in {"idle", "call"} /\ request.completed
  BY DEF queue_request, NextRound
<1>2. /\ ~request'.completed /\ ~request'.error /\ ~request'.empty
      /\ request'.kind = "none" /\ request'.plus = <<>> /\ request'.headers = <<>>
      /\ request'.hbytes = 0 /\ request'.bbytes = 0
  BY <1>1 DEF NewRequest
<1>3. Reading'
  <2>1. Len(<<>>) = 0 /\ 0 < MaxHeader
    BY LimitsAre, EmptySeq DEF Limits
  <2>2. HeaderState'
    BY <1>2, <2>1 DEF HeaderState
  <2>3. RequestState'
    BY <1>1, <1>2 DEF RequestState
  <2>4. FixedState' /\ ChunkState'
    BY <1>2 DEF FixedState, ChunkState
  <2> QED
    BY <2>2, <2>3, <2>4 DEF Reading
<1>4. ASSUME NEW t \in Seq(Token)
      PROVE  /\ Promise(t)' \in Seq(Outcomes)
             /\ Promise(t) = IF request.empty THEN Promise(t)'
                             ELSE IF request.error THEN <<Rejected>>
                             ELSE <<Accepted(rcv.buf)>> \o Promise(t)'
  <2> DEFINE y == From(data, n + 1) \o t
  <2>1. y \in Seq(Token)
    <3>1. data \in Seq(Token) /\ n \in Nat /\ Len(data) >= n
      BY <1>1, LenProperties DEF IInv, Typed, Expecting
    <3>2. From(data, n + 1) \in Seq(Token)
      BY <3>1, Rest
    <3> QED
      BY <3>2, ConcatProperties
  <2>2. Promise(t)' = ToCome(request', rcv', y)
    BY <1>1, NextRoundPromises DEF queue_request
  <2>3. Promise(t) = ToCome(request, rcv, y)
    BY <1>1 DEF Promise
  <2> HIDE DEF y
  <2>4. ToCome(request', rcv', y) = Frames[<<>> \o y]
    BY <1>2 DEF ToCome
  <2>5. <<>> \o y = y
    BY <2>1, ConcatEmptySeq
  <2>6. Promise(t)' = Frames[y] /\ Promise(t)' \in Seq(Outcomes)
    BY <2>1, <2>2, <2>4, <2>5, FramesTyped
  <2>7. ToCome(request, rcv, y) = IF request.empty THEN Frames[y]
                                  ELSE IF request.error THEN <<Rejected>>
                                  ELSE <<Accepted(rcv.buf)>> \o Frames[y]
    BY <1>1 DEF ToCome
  <2> QED
    BY <2>3, <2>6, <2>7
<1> QED
  BY <1>3, <1>4

\* A segment adds its bytes to what is to come.
LEMMA ReadPromises ==
    ASSUME IInv, IInv', Reading, handle_read
    PROVE  /\ Reading' /\ data' \in Seq(Token)
           /\ Upto(stream', fed') = Upto(stream, fed) \o data'
           /\ \A t \in Seq(Token) : Promise(t)' = Promise(data' \o t)
<1>1. /\ pc = "idle" /\ pc' = "call" /\ request' = request /\ rcv' = rcv
      /\ stream' = stream /\ s' = s /\ n' = n
  BY DEF handle_read, loop_vars
<1>2. PICK k \in 1 .. Len(stream) - fed :
          data' = SubSeq(stream, fed + 1, fed + k) /\ fed' = fed + k
  BY DEF handle_read
<1>3. /\ stream \in Seq(Token) /\ Len(stream) \in Nat /\ fed \in 0 .. Len(stream)
  BY LenProperties DEF IInv, Typed
<1>4. Upto(stream', fed') = Upto(stream, fed) \o data'
  <2> DEFINE m == fed + k
             first == 1
  <2>1. /\ first \in 1 .. Len(stream) + 1 /\ fed \in first - 1 .. Len(stream)
        /\ m \in fed .. Len(stream)
    BY <1>2, <1>3
  <2> HIDE DEF m, first
  <2>2. SubSeq(stream, first, fed) \o SubSeq(stream, fed + 1, m) = SubSeq(stream, first, m)
    BY <1>3, <2>1, ConcatAdjacentSubSeq
  <2> QED
    BY <1>1, <1>2, <2>2 DEF Upto, m, first
<1>5. Reading'
  <2>1. HeaderState' /\ RequestState'
    BY <1>1 DEF Reading, HeaderState, RequestState
  <2>2. FixedState' /\ ChunkState'
    BY <1>1 DEF Reading, FixedState, ChunkState
  <2> QED
    BY <2>1, <2>2 DEF Reading
<1>6. ASSUME NEW t \in Seq(Token)
      PROVE  Promise(t)' = Promise(data' \o t)
  BY <1>1 DEF Promise
<1>7. data' \in Seq(Token)
  BY DEF IInv, Typed
<1> QED
  BY <1>4, <1>5, <1>6, <1>7

----------------------------------------------------------------------------
(* What has been queued, up to the first request that was rejected *)

Wrong(q) == {i \in 1 .. Len(q) : ~q[i].ok}
UptoWrong(q) == IF Wrong(q) = {} THEN q ELSE Upto(q, Min(Wrong(q)))

LEMMA LeastIs ==
    ASSUME NEW T \in SUBSET Nat, T # {}
    PROVE  Min(T) \in T /\ \A y \in T : Min(T) =< y
BY LeastOf DEF Min

LEMMA EffectiveIs ==
    ASSUME requests \in Seq(Outcomes)
    PROVE  Effective = UptoWrong(requests)
<1> DEFINE W == Wrong(requests)
           i == IF W # {} THEN Min(W) ELSE 0
<1>1. Effective = IF i = 0 THEN requests ELSE Upto(requests, i)
  BY DEF Effective, SelectInSeq, Wrong
<1>2. W \in SUBSET (Nat \ {0})
  BY LenProperties DEF Wrong
<1> HIDE DEF W
<1>3. W # {} => Min(W) \in W
  BY <1>2, LeastIs
<1>4. W = {} <=> i = 0
  BY <1>2, <1>3
<1> QED
  BY <1>1, <1>4 DEF UptoWrong, W

\* What is queued after a request that was rejected is left out.
LEMMA WrongAlready ==
    ASSUME NEW q \in Seq(Outcomes), NEW o \in Outcomes, Wrong(q) # {}
    PROVE  Wrong(Append(q, o)) # {} /\ UptoWrong(Append(q, o)) = UptoWrong(q)
<1> DEFINE p == Append(q, o)
           i == Min(Wrong(q))
           j == Min(Wrong(p))
<1>1. /\ Len(q) \in Nat /\ Len(p) = Len(q) + 1 /\ p = q \o <<o>>
      /\ \A k \in 1 .. Len(q) : p[k] = q[k]
  BY LenProperties, AppendProperties, AppendIsConcat
<1> HIDE DEF p
<1>2. Wrong(q) \in SUBSET Nat /\ Wrong(p) \in SUBSET Nat /\ Wrong(q) \subseteq Wrong(p)
  BY <1>1 DEF Wrong
<1>3. i \in Wrong(q) /\ (\A y \in Wrong(q) : i =< y)
      /\ j \in Wrong(p) /\ (\A y \in Wrong(p) : j =< y)
  BY <1>2, LeastIs
<1> HIDE DEF i, j
<1>4. i \in 1 .. Len(q) /\ j \in Nat /\ j =< i
  BY <1>2, <1>3 DEF Wrong
<1>5. j \in 1 .. Len(q) /\ ~p[j].ok
  BY <1>1, <1>3, <1>4 DEF Wrong
<1>6. j \in Wrong(q)
  BY <1>1, <1>5 DEF Wrong
<1>7. i = j
  BY <1>3, <1>4, <1>6
<1>8. Upto(p, i) = Upto(q, i)
  <2> DEFINE first == 1
  <2>1. first \in 1 .. Len(q) /\ <<o>> \in Seq(Outcomes)
    BY <1>4
  <2> HIDE DEF first
  <2>2. SubSeq(q \o <<o>>, first, i) = SubSeq(q, first, i)
    BY <1>4, <2>1, SubSeqOfConcat1
  <2> QED
    BY <1>1, <2>2 DEF Upto, first
<1>9. Wrong(p) # {}
  BY <1>3
<1>10. UptoWrong(p) = Upto(p, j) /\ UptoWrong(q) = Upto(q, i)
  BY <1>9 DEF UptoWrong, i, j
<1> QED
  BY <1>7, <1>8, <1>9, <1>10 DEF p

\* The first request that is rejected is the last that counts.
LEMMA WrongNow ==
    ASSUME NEW q \in Seq(Outcomes), NEW o \in Outcomes, Wrong(q) = {}
    PROVE  /\ Wrong(Append(q, o)) = {} <=> o.ok
           /\ UptoWrong(Append(q, o)) = Append(q, o)
<1> DEFINE p == Append(q, o)
           m == Len(q) + 1
<1>1. /\ Len(q) \in Nat /\ Len(p) = m /\ p[m] = o /\ p \in Seq(Outcomes)
      /\ \A k \in 1 .. Len(q) : p[k] = q[k]
  BY LenProperties, AppendProperties
<1> HIDE DEF p
<1>2. \A k \in 1 .. m : k \in 1 .. Len(q) \/ k = m
  BY <1>1
<1>3. m \in 1 .. m /\ m \in Nat
  BY <1>1
<1> HIDE DEF m
<1>4. Wrong(p) = IF o.ok THEN {} ELSE {m}
  <2>1. \A k \in 1 .. Len(q) : q[k].ok
    BY DEF Wrong
  <2>2. \A k \in 1 .. m : ~p[k].ok <=> k = m /\ ~o.ok
    BY <1>1, <1>2, <2>1
  <2> QED
    BY <1>1, <1>3, <2>2 DEF Wrong
<1>5. ~o.ok => Min(Wrong(p)) = m
  BY <1>3, <1>4, LeastIs
<1>6. UptoWrong(p) = p
  <2>1. CASE o.ok
    BY <1>4, <2>1 DEF UptoWrong
  <2>2. CASE ~o.ok
    <3>1. UptoWrong(p) = Upto(p, Len(p))
      BY <1>1, <1>4, <1>5, <2>2 DEF UptoWrong
    <3> QED
      BY <1>1, <3>1, SubSeqFull DEF Upto
  <2> QED
    BY <2>1, <2>2
<1> QED
  BY <1>4, <1>6 DEF p

\* However the bytes after those that have been received go on: what the whole
\* holds has been queued or is to come.
FramingKept ==
    \A t \in Seq(Token) :
        Frames[Upto(stream, fed) \o t] =
            IF Wrong(requests) = {} THEN requests \o Promise(t) ELSE UptoWrong(requests)

LEMMA FedTyped ==
    ASSUME IInv
    PROVE  Upto(stream, fed) \in Seq(Token) /\ requests \in Seq(Outcomes)
<1>1. stream \in Seq(Token) /\ fed \in Nat /\ Len(stream) >= fed
  BY LenProperties DEF IInv, Typed
<1> QED
  BY <1>1, Rest DEF IInv, Typed

LEMMA FramingSame ==
    ASSUME FramingKept, PromiseKept, stream' = stream, fed' = fed, requests' = requests
    PROVE  Reading' /\ FramingKept'
<1>1. ASSUME NEW t \in Seq(Token)
      PROVE  Frames[Upto(stream', fed') \o t] =
                 IF Wrong(requests') = {} THEN requests' \o Promise(t)'
                 ELSE UptoWrong(requests')
  <2>1. Promise(t)' = Promise(t)
    BY DEF PromiseKept
  <2>2. Frames[Upto(stream, fed) \o t] =
            IF Wrong(requests) = {} THEN requests \o Promise(t) ELSE UptoWrong(requests)
    BY DEF FramingKept
  <2> QED
    BY <2>1, <2>2
<1> QED
  BY <1>1 DEF FramingKept, PromiseKept

LEMMA ReadFraming ==
    ASSUME IInv, IInv', Reading, FramingKept, handle_read
    PROVE  Reading' /\ FramingKept'
<1> DEFINE u == Upto(stream, fed)
           v == Upto(stream', fed')
<1>1. Reading' /\ data' \in Seq(Token) /\ v = u \o data' /\ u \in Seq(Token)
      /\ requests' = requests
  BY ReadPromises, FedTyped DEF handle_read
<1>2. ASSUME NEW t \in Seq(Token)
      PROVE  Frames[v \o t] = IF Wrong(requests') = {} THEN requests' \o Promise(t)'
                              ELSE UptoWrong(requests')
  <2> DEFINE w == data' \o t
  <2>1. w \in Seq(Token)
    BY <1>1, ConcatProperties
  <2>2. (u \o data') \o t = u \o w
    <3> HIDE DEF u
    <3> QED
      BY <1>1, Associative
  <2>3. Promise(t)' = Promise(w)
    BY ReadPromises
  <2> HIDE DEF w
  <2>4. Frames[u \o w] = IF Wrong(requests) = {} THEN requests \o Promise(w)
                         ELSE UptoWrong(requests)
    BY <2>1 DEF FramingKept
  <2> HIDE DEF u, v
  <2> QED
    BY <1>1, <2>2, <2>3, <2>4
<1> QED
  BY <1>1, <1>2 DEF FramingKept

LEMMA QueueFraming ==
    ASSUME IInv, IInv', Reading, FramingKept, queue_request
    PROVE  Reading' /\ FramingKept'
<1> DEFINE u == Upto(stream, fed)
<1>1. /\ requests' = IF request.empty THEN requests ELSE Append(requests, Outcome)
      /\ stream' = stream /\ fed' = fed
  BY DEF queue_request, NextRound
<1>2. requests \in Seq(Outcomes) /\ Outcome \in Outcomes
  BY FedTyped, OutcomeTyped
<1>3. ASSUME NEW t \in Seq(Token)
      PROVE  Frames[u \o t] = IF Wrong(requests') = {} THEN requests' \o Promise(t)'
                              ELSE UptoWrong(requests')
  <2> DEFINE p == Promise(t)
             next == Promise(t)'
             f == Frames[u \o t]
  <2>1. /\ next \in Seq(Outcomes)
        /\ p = IF request.empty THEN next ELSE IF request.error THEN <<Rejected>>
               ELSE <<Accepted(rcv.buf)>> \o next
    BY QueuePromises
  <2>2. f = IF Wrong(requests) = {} THEN requests \o p ELSE UptoWrong(requests)
    BY DEF FramingKept
  <2> HIDE DEF p, next, f
  <2>3. CASE request.empty
    BY <1>1, <2>1, <2>2, <2>3 DEF next, f
  <2>4. CASE ~request.empty /\ Wrong(requests) # {}
    <3>1. requests' = Append(requests, Outcome)
      BY <1>1, <2>4
    <3>2. Wrong(requests') # {} /\ UptoWrong(requests') = UptoWrong(requests)
      BY <1>2, <2>4, <3>1, WrongAlready
    <3> QED
      BY <2>2, <2>4, <3>2 DEF f
  <2>5. CASE ~request.empty /\ Wrong(requests) = {}
    <3>1. /\ requests' = Append(requests, Outcome)
          /\ requests' = requests \o <<Outcome>>
      BY <1>1, <1>2, <2>5, AppendIsConcat
    <3>2. /\ Wrong(requests') = {} <=> Outcome.ok
          /\ UptoWrong(requests') = requests'
      BY <1>2, <2>5, <3>1, WrongNow
    <3>3. CASE request.error
      <4>1. Outcome = Rejected /\ ~Outcome.ok
        BY <3>3 DEF Outcome, Rejected
      <4>2. f = requests \o <<Outcome>>
        BY <2>1, <2>2, <2>5, <3>3, <4>1
      <4> QED
        BY <3>1, <3>2, <4>1, <4>2 DEF f
    <3>4. CASE ~request.error
      <4>1. Outcome = Accepted(rcv.buf) /\ Outcome.ok
        BY <3>4 DEF Outcome, Accepted
      <4> DEFINE o == Outcome
      <4>2. o = Accepted(rcv.buf) /\ o \in Outcomes /\ requests' = requests \o <<o>>
        BY <1>2, <3>1, <4>1
      <4> HIDE DEF o
      <4>3. f = requests \o (<<o>> \o next)
        BY <2>1, <2>2, <2>5, <3>4, <4>2
      <4>4. <<o>> \in Seq(Outcomes)
        BY <4>2
      <4>5. (requests \o <<o>>) \o next = requests \o (<<o>> \o next)
        BY <1>2, <2>1, <4>4, ConcatAssociative
      <4>6. f = requests' \o next
        BY <4>2, <4>3, <4>5
      <4> QED
        BY <3>2, <4>1, <4>6 DEF f, next
    <3> QED
      BY <3>3, <3>4
  <2> QED
    BY <2>3, <2>4, <2>5
<1> QED
  BY <1>1, <1>3, QueuePromises DEF FramingKept

LEMMA FramingBegins == Init => Reading /\ FramingKept
<1> SUFFICES ASSUME Init
             PROVE  Reading /\ FramingKept
  OBVIOUS
<1>1. /\ pc = "idle" /\ request = NewRequest /\ fed = 0 /\ requests = <<>>
      /\ stream \in Seq(Token)
  BY StreamsOfTokens DEF Init
<1>2. /\ ~request.completed /\ ~request.error /\ ~request.empty
      /\ request.kind = "none" /\ request.plus = <<>> /\ request.headers = <<>>
      /\ request.hbytes = 0 /\ request.bbytes = 0
  BY <1>1 DEF NewRequest
<1>3. Reading
  <2>1. Len(<<>>) = 0 /\ 0 < MaxHeader
    BY LimitsAre, EmptySeq DEF Limits
  <2>2. HeaderState
    BY <1>2, <2>1 DEF HeaderState
  <2>3. RequestState
    BY <1>1, <1>2 DEF RequestState
  <2>4. FixedState /\ ChunkState
    BY <1>2 DEF FixedState, ChunkState
  <2> QED
    BY <2>2, <2>3, <2>4 DEF Reading
<1>4. Wrong(requests) = {}
  <2>1. Len(<<>>) = 0
    BY EmptySeq
  <2> QED
    BY <1>1, <2>1 DEF Wrong
<1>5. ASSUME NEW t \in Seq(Token)
      PROVE  Frames[Upto(stream, fed) \o t] = requests \o Promise(t)
  <2>1. Upto(stream, fed) = <<>>
    BY <1>1, SubSeqEmpty DEF Upto
  <2>2. Promise(t) = Frames[<<>> \o t]
    BY <1>1, <1>2 DEF Promise, ToCome
  <2> DEFINE f == Frames[<<>> \o t]
  <2>3. <<>> \o t \in Seq(Token)
    BY EmptySeq, ConcatProperties
  <2>4. f \in Seq(Outcomes)
    BY <2>3, FramesTyped
  <2> HIDE DEF f
  <2>5. <<>> \o f = f
    BY <2>4, ConcatEmptySeq
  <2> QED
    BY <1>1, <2>1, <2>2, <2>5 DEF f
<1> QED
  BY <1>3, <1>4, <1>5 DEF FramingKept

LEMMA FramingStays ==
    ASSUME IInv, Reading, FramingKept, UNCHANGED vars
    PROVE  Reading' /\ FramingKept'
<1>1. Reading'
  BY DEF vars, Reading, HeaderState, RequestState, FixedState, ChunkState, RestOfSegment
<1>2. ASSUME NEW t \in Seq(Token)
      PROVE  Promise(t)' = Promise(t)
  BY DEF vars, Promise, Done
<1>3. PromiseKept
  BY <1>1, <1>2 DEF PromiseKept
<1> QED
  BY <1>3, FramingSame DEF vars

LEMMA FramingNext ==
    IInv /\ Reading /\ FramingKept /\ ContinuesUnfinished /\ [Next]_vars
        => IInv' /\ Reading' /\ FramingKept'
<1> SUFFICES ASSUME IInv, Reading, FramingKept, ContinuesUnfinished, [Next]_vars
             PROVE  IInv' /\ Reading' /\ FramingKept'
  OBVIOUS
<1>1. IInv'
  BY InvNext
<1>2. CASE handle_read
  BY <1>1, <1>2, ReadFraming
<1>3. CASE queue_request
  BY <1>1, <1>3, QueueFraming
<1>4. CASE UNCHANGED vars
  BY <1>1, <1>4, FramingStays
<1>5. CASE all_answered
  BY <1>1, <1>5, FramingStays DEF all_answered
<1>6. CASE service_ends
  <2>1. PromiseKept
    BY <1>1, <1>6, ServicePromises
  <2> QED
    BY <1>1, <1>6, <2>1, FramingSame DEF service_ends
<1>7. CASE keep_request
  <2>1. PromiseKept
    BY <1>1, <1>7, KeptPromises
  <2> QED
    BY <1>1, <1>7, <2>1, FramingSame DEF keep_request, NextRound
<1>8. CASE send_continue
  <2>1. PromiseKept
    BY <1>1, <1>8, ContinuePromises
  <2> QED
    BY <1>1, <1>8, <2>1, FramingSame DEF send_continue
<1>9. CASE header_too_large \/ header_unfinished \/ header_blank \/ parse_header
  <2>1. PromiseKept
    BY <1>1, <1>9, TooLargePromises, UnfinishedPromises, BlankPromises, ParsedPromises
  <2>2. UNCHANGED channel_vars
    BY <1>9 DEF header_too_large, header_unfinished, header_blank, parse_header, ParsedTo
  <2> QED
    BY <1>1, <2>1, <2>2, FramingSame DEF channel_vars
<1>10. CASE fixed_body \/ chunked_body \/ chunks_consumed \/ body_received
  <2>1. PromiseKept
    BY <1>1, <1>10, FixedPromises, ChunkedPromises, ConsumedPromises, BodyPromises
  <2>2. UNCHANGED channel_vars
    BY <1>10 DEF fixed_body, chunked_body, chunks_consumed, body_received, Return
  <2> QED
    BY <1>1, <2>1, <2>2, FramingSame DEF channel_vars
<1>11. CASE chunk_data \/ chunk_end
  <2>1. PromiseKept
    BY <1>1, <1>11, DataPromises, ChunkEndPromises
  <2>2. UNCHANGED channel_vars
    BY <1>11 DEF chunk_data, chunk_end, Continue
  <2> QED
    BY <1>1, <2>1, <2>2, FramingSame DEF channel_vars
<1>12. CASE control_line_unfinished \/ control_line \/ control_line_invalid
            \/ trailer_unfinished \/ trailer
  <2>1. PromiseKept
    BY <1>1, <1>12, ControlLinePromises, TrailerPromises
  <2>2. UNCHANGED channel_vars
    BY <1>12 DEF control_line_unfinished, control_line, control_line_invalid,
                 trailer_unfinished, trailer, Continue, Return
  <2> QED
    BY <1>1, <2>1, <2>2, FramingSame DEF channel_vars
<1> QED
  BY <1>2, <1>3, <1>4, <1>5, <1>6, <1>7, <1>8, <1>9, <1>10, <1>11, <1>12 DEF Next, Received

\* Between two segments nothing more comes of what has been received.
LEMMA NothingPromised ==
    ASSUME IInv, Reading, pc = "idle"
    PROVE  Promise(<<>>) = <<>>
<1>1. Promise(<<>>) = ToCome(request, rcv, <<>>) /\ ~request.completed
      /\ request.kind \in {"none", "fixed", "chunked"}
  BY DEF Promise, Reading, RequestState, IInv, RequestKept
<1>2. CASE request.kind = "none"
  <2> DEFINE a == request.plus
             e == DoubleNewline(a)
             text == LStrip(Upto(a, e))
  <2>1. a \in Seq(Token) /\ a \o <<>> = a
    BY StateTyped, ConcatEmptySeq
  <2>2. e = 0 /\ Len(a) < MaxHeader /\ Len(a) \in Nat /\ MaxHeader \in Nat
    BY <1>1, <1>2, StateTyped, LimitsAre
       DEF Limits, IInv, RequestKept, DoubleNewline, Reading, HeaderState
  <2>3. Promise(<<>>) = Frames[a]
    BY <1>1, <1>2, <2>1 DEF ToCome
  <2>4. FrameCases(Frames, a, e, text, ParsedHeader(text, <<>>), From(a, e + 1))
        /\ Frames[a] = FrameStep(Frames, a)
    BY <2>1, FrameStepIs, FramesIs
  <2> HIDE DEF a, e, text
  <2>5. FrameStep(Frames, a) = <<>>
    BY <2>2, <2>4 DEF FrameCases
  <2> QED
    BY <2>3, <2>4, <2>5
<1>3. CASE request.kind = "fixed"
  <2>1. rcv.remain > 0
    BY <1>3 DEF IInv, Expecting
  <2>2. Len(<<>>) < rcv.remain
    BY <2>1, StateTyped, EmptySeq
  <2> QED
    BY <1>1, <1>3, <2>2 DEF ToCome
<1>4. CASE request.kind = "chunked"
  <2>1. ChunkReceiver(rcv) /\ request.bbytes < MaxBody /\ request.bbytes \in Int
    BY <1>1, <1>4, StateTyped DEF Reading, ChunkState
  <2>2. RestOf(rcv, request.bbytes, <<>>) = <<>>
    BY <2>1, RestOfNothing
  <2> QED
    BY <1>1, <1>4, <2>2 DEF ToCome
<1> QED
  BY <1>1, <1>2, <1>3, <1>4

LEMMA ExactWhenKept == IInv /\ Reading /\ FramingKept => FramingExact
<1> SUFFICES ASSUME IInv, Reading, FramingKept, pc = "idle"
             PROVE  Effective = Frames[Upto(stream, fed)]
  BY DEF FramingExact
<1> DEFINE u == Upto(stream, fed)
           p == Promise(<<>>)
<1>1. u \in Seq(Token) /\ requests \in Seq(Outcomes) /\ <<>> \in Seq(Token)
  BY FedTyped, EmptySeq
<1>2. Frames[u \o <<>>] = IF Wrong(requests) = {} THEN requests \o p ELSE UptoWrong(requests)
  BY <1>1 DEF FramingKept
<1>3. p = <<>>
  BY NothingPromised
<1> HIDE DEF u, p
<1>4. u \o <<>> = u /\ requests \o <<>> = requests
  BY <1>1, ConcatEmptySeq
<1>5. Frames[u] = UptoWrong(requests)
  BY <1>2, <1>3, <1>4 DEF UptoWrong
<1> QED
  BY <1>1, <1>5, EffectiveIs DEF u

----------------------------------------------------------------------------

\* Every variable has its type, whatever the client sends; what a body receiver
\* waits for is never negative (receiver.py:41-55, 94-116).
THEOREM TypeCorrect == Spec => []TypeOK
<1>1. IInv => TypeOK
  BY DEF IInv, Typed, RequestKept, ReceiverKept, RequestFields, ReceiverFields, TypeOK,
         NewRequest, NewReceiver
<1> QED
  BY <1>1, InvAlways, PTL

\* `while data` in HTTPChannel.received makes progress: each call of the parser
\* consumes a byte at least, for all streams and all ways to cut them
\* (channel.py:212-245, parser.py:85-185).
THEOREM EachCallConsumes == Spec => []ConsumptionInRange
<1>1. IInv => ConsumptionInRange
  BY DEF IInv, Expecting, ConsumptionInRange
<1> QED
  BY <1>1, InvAlways, PTL

\* So does the loop of ChunkedReceiver.received, after an error as well
\* (receiver.py:85-182).
THEOREM ChunkLoopEnds == Spec => []RoundsBounded
<1>1. IInv => RoundsBounded
  BY DEF IInv, RoundsBounded
<1> QED
  BY <1>1, InvAlways, PTL

\* However the stream of a client is cut into segments, and whenever the requests
\* before are answered, HTTPChannel.received, the parser and the body receivers get
\* the requests out of it, with the bodies, that it holds when it is looked at as a
\* whole (channel.py:212-245, parser.py:85-185, receiver.py:31-182): as long as
\* send_continue does not take back that a request is complete.
THEOREM SegmentsDoNotMatter == Spec /\ []ContinuesUnfinished => []FramingExact
<1>1. Init => IInv /\ Reading /\ FramingKept
  BY Initially, FramingBegins
<1> QED
  BY <1>1, FramingNext, ExactWhenKept, PTL DEF Spec

=============================================================================
