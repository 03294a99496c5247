----------------------------- MODULE BuffersProofs -----------------------------
(****************************************************************************)
(* Proofs about Buffers, for all bytes, writes, files, limits and bounds.   *)
(* One lemma for each function of the attributes says that it keeps the     *)
(* buffer consistent and what it does to the unread bytes; the theorems     *)
(* then follow call by call.                                                *)
(****************************************************************************)
EXTENDS Buffers, SequenceTheorems, TLAPS

Good(b) == ConsistentBuffer(b) /\ BoundedBuffer(b)

----------------------------------------------------------------------------
(* Parts of sequences *)

\* A part of a sequence, by its length and its elements.
LEMMA Part ==
    ASSUME NEW S, NEW s \in Seq(S), NEW i \in Nat, NEW j \in Nat,
           i <= j, j <= Len(s)
    PROVE  /\ SubSeq(s, i + 1, j) \in Seq(S)
           /\ Len(SubSeq(s, i + 1, j)) = j - i
           /\ \A k \in 1 .. j - i : SubSeq(s, i + 1, j)[k] = s[i + k]
<1>1. \A k \in i + 1 .. j : s[k] \in S
  BY ElementOfSeq
<1> QED
  BY <1>1, SubSeqProperties

\* A part of a part, counted from the beginning of the whole.
LEMMA PartOfPart ==
    ASSUME NEW S, NEW s \in Seq(S), NEW p \in Nat, NEW q \in Nat,
           p <= q, q <= Len(s), NEW k \in Nat, k <= q - p
    PROVE  /\ SubSeq(SubSeq(s, p + 1, q), 1, k) = SubSeq(s, p + 1, p + k)
           /\ SubSeq(SubSeq(s, p + 1, q), k + 1, q - p) = SubSeq(s, p + k + 1, q)
<1> DEFINE t == SubSeq(s, p + 1, q)
<1>1. t \in Seq(S) /\ Len(t) = q - p /\ \A i \in 1 .. q - p : t[i] = s[p + i]
  BY Part
<1> HIDE DEF t
<1>2. SubSeq(t, 1, k) = SubSeq(s, p + 1, p + k)
  <2>1. SubSeq(t, 0 + 1, k) \in Seq(S) /\ Len(SubSeq(t, 0 + 1, k)) = k - 0
        /\ \A i \in 1 .. k - 0 : SubSeq(t, 0 + 1, k)[i] = t[0 + i]
    BY <1>1, Part
  <2>2. SubSeq(s, p + 1, p + k) \in Seq(S) /\ Len(SubSeq(s, p + 1, p + k)) = (p + k) - p
        /\ \A i \in 1 .. (p + k) - p : SubSeq(s, p + 1, p + k)[i] = s[p + i]
    BY Part
  <2> QED
    BY <1>1, <2>1, <2>2, SeqEqual
<1>3. SubSeq(t, k + 1, q - p) = SubSeq(s, p + k + 1, q)
  <2>1. SubSeq(t, k + 1, q - p) \in Seq(S) /\ Len(SubSeq(t, k + 1, q - p)) = q - p - k
        /\ \A i \in 1 .. q - p - k : SubSeq(t, k + 1, q - p)[i] = t[k + i]
    BY <1>1, Part
  <2>2. SubSeq(s, (p + k) + 1, q) \in Seq(S) /\ Len(SubSeq(s, (p + k) + 1, q)) = q - (p + k)
        /\ \A i \in 1 .. q - (p + k) : SubSeq(s, (p + k) + 1, q)[i] = s[(p + k) + i]
    BY Part
  <2> QED
    BY <1>1, <2>1, <2>2, SeqEqual
<1> QED
  BY <1>2, <1>3 DEF t

\* What follows position p, after something was written at the end.
LEMMA PartOfLonger ==
    ASSUME NEW S, NEW s \in Seq(S), NEW t \in Seq(S), NEW p \in Nat, p <= Len(s)
    PROVE  SubSeq(s \o t, p + 1, Len(s) + Len(t)) = SubSeq(s, p + 1, Len(s)) \o t
<1> DEFINE w == s \o t
           l == SubSeq(w, p + 1, Len(s) + Len(t))
           m == SubSeq(s, p + 1, Len(s))
           r == m \o t
<1>1. /\ w \in Seq(S) /\ Len(w) = Len(s) + Len(t)
      /\ \A i \in 1 .. Len(s) + Len(t) : w[i] = IF i <= Len(s) THEN s[i] ELSE t[i - Len(s)]
  BY ConcatProperties
<1>2. l \in Seq(S) /\ Len(l) = Len(s) + Len(t) - p
      /\ \A i \in 1 .. Len(s) + Len(t) - p : l[i] = w[p + i]
  <2> HIDE DEF w
  <2> QED
    BY <1>1, Part, Len(s) \in Nat, Len(t) \in Nat
<1>3. m \in Seq(S) /\ Len(m) = Len(s) - p /\ \A i \in 1 .. Len(s) - p : m[i] = s[p + i]
  BY Part, Len(s) \in Nat
<1> HIDE DEF w, l, m
<1>4. r \in Seq(S) /\ Len(r) = Len(s) - p + Len(t)
      /\ \A i \in 1 .. Len(s) - p + Len(t) : r[i] = IF i <= Len(s) - p THEN m[i] ELSE t[i - (Len(s) - p)]
  <2>1. /\ r \in Seq(S)
        /\ Len(r) = Len(m) + Len(t)
        /\ \A i \in 1 .. Len(m) + Len(t) : r[i] = IF i <= Len(m) THEN m[i] ELSE t[i - Len(m)]
    BY <1>3, ConcatProperties
  <2>2. Len(m) = Len(s) - p
    BY <1>3
  <2> HIDE DEF r
  <2> QED
    BY <2>1, <2>2
<1> HIDE DEF r
<1>5. \A i \in 1 .. Len(l) : l[i] = r[i]
  BY <1>1, <1>2, <1>3, <1>4, Len(s) \in Nat, Len(t) \in Nat
<1>6. Len(l) = Len(r)
  BY <1>2, <1>4, Len(s) \in Nat, Len(t) \in Nat
<1>7. l \in Seq(S) /\ r \in Seq(S)
  BY <1>2, <1>4
<1>8. l = r
  BY <1>5, <1>6, <1>7, SeqEqual
<1> QED
  BY <1>8 DEF l, m, r, w

----------------------------------------------------------------------------
(* The unread bytes *)

\* A consistent buffer's unread bytes are a sequence; where they are in a file
\* there are InFile(b) of them, and reading k returns the first k.
LEMMA UnreadFacts ==
    ASSUME NEW b, ConsistentBuffer(b)
    PROVE  /\ Unread(b) \in Seq(Bytes)
           /\ b.stage # "lent" => Len(Unread(b)) = LenOf(b)
           /\ b.stage \in {"file", "lent", "readonly"} =>
                 /\ InFile(b) \in Nat
                 /\ b.pos + InFile(b) <= Len(b.file)
                 /\ Len(Unread(b)) = InFile(b)
                 /\ \A n \in Int : ReadCount(b, n) \in 0 .. InFile(b)
                 /\ \A k \in 0 .. InFile(b) :
                       /\ FileRead(b, k) = SubSeq(Unread(b), 1, k)
                       /\ SubSeq(Unread(b), k + 1, Len(Unread(b))) =
                             SubSeq(b.file, b.pos + k + 1, b.pos + InFile(b))
<1>1. CASE b.stage \in {"file", "lent", "readonly"}
  <2>1. /\ b.file \in Seq(Bytes) /\ Len(b.file) \in Nat
        /\ b.pos \in Nat /\ b.remain \in Nat /\ b.pos <= Len(b.file)
    BY DEF ConsistentBuffer, Buffer
  <2>2. InFile(b) \in Nat /\ b.pos + InFile(b) <= Len(b.file)
    BY <1>1, <2>1 DEF InFile, ConsistentBuffer
  <2> DEFINE q == b.pos + InFile(b)
  <2>3. q \in Nat /\ b.pos <= q /\ q <= Len(b.file) /\ q - b.pos = InFile(b)
    BY <2>1, <2>2
  <2>4. Unread(b) = SubSeq(b.file, b.pos + 1, q)
    BY <1>1 DEF Unread
  <2> HIDE DEF q
  <2>5. Unread(b) \in Seq(Bytes) /\ Len(Unread(b)) = InFile(b)
    BY <2>1, <2>3, <2>4, Part
  <2>6. \A n \in Int : ReadCount(b, n) \in 0 .. InFile(b)
    BY <2>2 DEF ReadCount
  <2>7. b.stage # "lent" => InFile(b) = LenOf(b)
    BY <1>1 DEF InFile, LenOf, ConsistentBuffer
  <2>8. ASSUME NEW k \in 0 .. InFile(b)
        PROVE  /\ FileRead(b, k) = SubSeq(Unread(b), 1, k)
               /\ SubSeq(Unread(b), k + 1, Len(Unread(b))) = SubSeq(b.file, b.pos + k + 1, q)
    <3>1. k \in Nat /\ k <= q - b.pos
      BY <2>2, <2>3
    <3>2. /\ SubSeq(Unread(b), 1, k) = SubSeq(b.file, b.pos + 1, b.pos + k)
          /\ SubSeq(Unread(b), k + 1, q - b.pos) = SubSeq(b.file, b.pos + k + 1, q)
      <4> DEFINE f == b.file
                 p == b.pos
      <4>1. f \in Seq(Bytes) /\ p \in Nat
        BY <2>1
      <4>2. p <= q /\ q <= Len(f) /\ q \in Nat
        BY <2>3
      <4> HIDE DEF f, p
      <4>3. /\ SubSeq(SubSeq(f, p + 1, q), 1, k) = SubSeq(f, p + 1, p + k)
            /\ SubSeq(SubSeq(f, p + 1, q), k + 1, q - p) = SubSeq(f, p + k + 1, q)
        <5>1. k \in Nat /\ k <= q - p
          BY <3>1 DEF p
        <5> QED
          BY <4>1, <4>2, <5>1, PartOfPart
      <4> QED
        BY <2>4, <4>3 DEF f, p
    <3>3. Len(Unread(b)) = q - b.pos
      BY <2>3, <2>5
    <3> QED
      BY <3>2, <3>3 DEF FileRead
  <2> QED
    BY <1>1, <2>2, <2>5, <2>6, <2>7, <2>8 DEF q
<1>2. CASE b.stage = "str"
  BY <1>2 DEF Unread, LenOf, ConsistentBuffer, Buffer
<1>3. CASE b.stage = "closed"
  BY <1>3 DEF Unread, LenOf, ConsistentBuffer, Buffer
<1> QED
  BY <1>1, <1>2, <1>3 DEF ConsistentBuffer, Buffer, Stages

----------------------------------------------------------------------------
(* The functions of the attributes *)

\* A string becomes a file with the same unread bytes, on disk when it is large.
LEMMA AsFileKeeps ==
    ASSUME NEW b, Good(b), b.stage \in {"str", "file", "readonly"}
    PROVE  /\ Good(AsFile(b))
           /\ AsFile(b).stage \in {"file", "readonly"}
           /\ b.stage # "readonly" => AsFile(b).stage = "file"
           /\ Unread(AsFile(b)) = Unread(b)
<1>1. CASE b.stage = "str"
  <2> DEFINE c == AsFile(b)
  <2>1. /\ b \in Buffer /\ b.strbuf \in Seq(Bytes) /\ Len(b.strbuf) \in Nat
        /\ b.overflow \in Nat /\ b.pos = 0
    BY <1>1 DEF Good, ConsistentBuffer, Buffer
  <2>2. /\ c.stage = "file" /\ c.strbuf = <<>> /\ c.file = b.strbuf /\ c.pos = 0
        /\ c.remain = Len(b.strbuf) /\ (c.overflowed <=> Len(b.strbuf) >= b.overflow)
        /\ c.overflow = b.overflow
    BY <1>1, <2>1 DEF AsFile, CreateBuffer, Buffer
  <2>3. c \in Buffer
    <3>1. <<>> \in Seq(Bytes)
      OBVIOUS
    <3>2. (Len(b.strbuf) >= b.overflow) \in BOOLEAN
      OBVIOUS
    <3> QED
      BY <1>1, <2>1, <3>1, <3>2 DEF AsFile, CreateBuffer, Buffer, Stages
  <2>4. ConsistentBuffer(c) /\ BoundedBuffer(c)
    <3> HIDE DEF c
    <3>1. ConsistentBuffer(c)
      BY <2>1, <2>2, <2>3 DEF ConsistentBuffer
    <3>2. ~c.overflowed => c.remain < c.overflow
      BY <2>1, <2>2
    <3> QED
      BY <2>2, <3>1, <3>2 DEF BoundedBuffer
  <2>5. Unread(c) = SubSeq(b.strbuf, 1, Len(b.strbuf))
    <3> HIDE DEF c
    <3> QED
      BY <2>1, <2>2 DEF Unread, InFile
  <2>6. Unread(c) = b.strbuf
    BY <2>1, <2>5, SubSeqFull
  <2> QED
    BY <1>1, <2>2, <2>4, <2>6 DEF Good, Unread
<1>2. CASE b.stage # "str"
  BY <1>2 DEF AsFile
<1> QED
  BY <1>1, <1>2

\* FileBasedBuffer.append: the bytes follow those that are unread.
LEMMA FileAppendKeeps ==
    ASSUME NEW b, ConsistentBuffer(b), b.stage = "file", NEW s \in Seq(Bytes)
    PROVE  /\ ConsistentBuffer(FileAppend(b, s))
           /\ FileAppend(b, s).stage = "file"
           /\ Unread(FileAppend(b, s)) = Unread(b) \o s
<1> DEFINE c == FileAppend(b, s)
<1>1. /\ b \in Buffer /\ b.file \in Seq(Bytes) /\ Len(b.file) \in Nat
      /\ b.pos \in Nat /\ b.pos <= Len(b.file) /\ b.remain = Len(b.file) - b.pos
      /\ b.strbuf = <<>>
  BY DEF ConsistentBuffer, Buffer
<1>2. b.file \o s \in Seq(Bytes) /\ Len(b.file \o s) = Len(b.file) + Len(s) /\ Len(s) \in Nat
  BY <1>1, ConcatProperties
<1>3. /\ c.stage = "file" /\ c.strbuf = <<>> /\ c.file = b.file \o s /\ c.pos = b.pos
      /\ c.remain = b.remain + Len(s) /\ c.overflowed = b.overflowed
      /\ c.overflow = b.overflow
  BY <1>1 DEF FileAppend, Buffer
<1>4. c \in Buffer
  <2>1. b.remain + Len(s) \in Nat
    BY <1>1, <1>2
  <2> QED
    BY <1>1, <1>2, <2>1 DEF FileAppend, Buffer
<1> HIDE DEF c
<1>5. ConsistentBuffer(c)
  BY <1>1, <1>2, <1>3, <1>4 DEF ConsistentBuffer
<1>6. Unread(c) = SubSeq(b.file \o s, b.pos + 1, Len(b.file) + Len(s))
  <2>1. c.pos + InFile(c) = Len(b.file) + Len(s)
    BY <1>1, <1>2, <1>3 DEF InFile
  <2> QED
    BY <1>3, <2>1 DEF Unread
<1>7. Unread(b) = SubSeq(b.file, b.pos + 1, Len(b.file))
  <2>1. b.pos + InFile(b) = Len(b.file)
    BY <1>1 DEF InFile
  <2> QED
    BY <2>1 DEF Unread
<1>8. Unread(c) = Unread(b) \o s
  BY <1>1, <1>6, <1>7, PartOfLonger
<1> QED
  BY <1>3, <1>5, <1>8 DEF c

\* A conversion changes neither the file nor the position: only what is on disk.
LEMMA SpilledKeeps ==
    ASSUME NEW b, ConsistentBuffer(b), b.stage = "file"
    PROVE  Good(Spilled(b)) /\ Unread(Spilled(b)) = Unread(b)
<1>1. /\ b \in Buffer /\ b.file \in Seq(Bytes) /\ Len(b.file) \in Nat
      /\ b.pos \in Nat /\ b.pos <= Len(b.file) /\ b.remain = Len(b.file) - b.pos
      /\ b.overflow \in Nat
  BY DEF ConsistentBuffer, Buffer
<1>2. CASE ~b.overflowed /\ b.remain >= b.overflow
  <2>1. Spilled(b) = [b EXCEPT !.overflowed = TRUE]
    BY <1>1, <1>2 DEF Spilled, SetLargeBuffer, CopyOf, Buffer
  <2>2. [b EXCEPT !.overflowed = TRUE] \in Buffer
    BY <1>1 DEF Buffer
  <2> QED
    BY <1>1, <2>1, <2>2
       DEF Good, ConsistentBuffer, BoundedBuffer, Unread, InFile, Buffer
<1>3. CASE ~(~b.overflowed /\ b.remain >= b.overflow)
  <2>1. Spilled(b) = b
    BY <1>3 DEF Spilled
  <2> QED
    BY <1>1, <1>3, <2>1 DEF Good, BoundedBuffer
<1> QED
  BY <1>2, <1>3

\* Skipping k bytes leaves the others.
LEMMA FileSkipKeeps ==
    ASSUME NEW b, Good(b), b.stage \in {"file", "readonly"}, NEW k \in 0 .. b.remain
    PROVE  /\ Good(FileSkip(b, k))
           /\ Unread(FileSkip(b, k)) = SubSeq(Unread(b), k + 1, Len(Unread(b)))
<1> DEFINE c == FileSkip(b, k)
<1>1. /\ b \in Buffer /\ b.file \in Seq(Bytes) /\ Len(b.file) \in Nat
      /\ b.pos \in Nat /\ b.remain \in Nat /\ b.pos + b.remain <= Len(b.file)
      /\ b.stage = "file" => b.remain = Len(b.file) - b.pos
      /\ b.strbuf = <<>> /\ k \in Nat /\ b.overflow \in Nat
      /\ b.stage = "file" /\ ~b.overflowed => b.remain < b.overflow
  BY DEF Good, ConsistentBuffer, BoundedBuffer, Buffer
<1>2. InFile(b) = b.remain
  BY <1>1 DEF InFile
<1>3. /\ c.stage = b.stage /\ c.strbuf = <<>> /\ c.file = b.file /\ c.pos = b.pos + k
      /\ c.remain = b.remain - k /\ c.overflowed = b.overflowed
      /\ c.overflow = b.overflow
  BY <1>1 DEF FileSkip, Buffer
<1>4. c \in Buffer
  <2>1. b.pos + k \in Nat /\ b.remain - k \in Nat
    BY <1>1
  <2> QED
    BY <1>1, <2>1 DEF FileSkip, Buffer
<1> HIDE DEF c
<1>5. Good(c)
  <2>1. ConsistentBuffer(c)
    <3>1. c.stage \in {"file", "readonly"}
      BY <1>3
    <3>2. c.pos <= Len(c.file) /\ c.remain <= Len(c.file) - c.pos
      BY <1>1, <1>3
    <3>3. c.stage = "file" => c.remain = Len(c.file) - c.pos
      BY <1>1, <1>3
    <3> QED
      BY <1>3, <1>4, <3>1, <3>2, <3>3 DEF ConsistentBuffer
  <2>2. BoundedBuffer(c)
    BY <1>1, <1>3 DEF BoundedBuffer
  <2> QED
    BY <2>1, <2>2 DEF Good
<1>6. c.pos + InFile(c) = b.pos + InFile(b)
  BY <1>1, <1>2, <1>3 DEF InFile
<1>7. Unread(c) = SubSeq(b.file, b.pos + k + 1, b.pos + InFile(b))
  BY <1>3, <1>6 DEF Unread
<1>8. SubSeq(Unread(b), k + 1, Len(Unread(b))) =
          SubSeq(b.file, b.pos + k + 1, b.pos + InFile(b))
  BY <1>2, UnreadFacts DEF Good
<1> QED
  BY <1>5, <1>7, <1>8 DEF c

\* prune() of a file that was read to its end leaves an empty buffer.
LEMMA PruneKeeps ==
    ASSUME NEW b, Good(b), b.stage = "file", b.remain = 0
    PROVE  /\ Good(Shrunk(FilePrune(b)))
           /\ Shrunk(FilePrune(b)).stage = "file"
           /\ Unread(b) = <<>>
           /\ Unread(Shrunk(FilePrune(b))) = <<>>
<1> DEFINE c == FilePrune(b)
<1>1. /\ b \in Buffer /\ b.file \in Seq(Bytes) /\ Len(b.file) \in Nat
      /\ b.pos = Len(b.file) /\ b.overflow \in Nat /\ b.strbuf = <<>>
      /\ ~b.overflowed => 0 < b.overflow
  BY DEF Good, ConsistentBuffer, BoundedBuffer, Buffer
<1>2. SubSeq(b.file, b.pos + 1, Len(b.file)) = <<>> /\ Len(<<>>) = 0 /\ <<>> \in Seq(Bytes)
  BY <1>1, SubSeqEmpty
<1>3. /\ c \in Buffer /\ c.stage = "file" /\ c.strbuf = <<>> /\ c.file = <<>> /\ c.pos = 0
      /\ c.remain = 0 /\ (c.overflowed <=> b.overflowed) /\ c.overflow = b.overflow
  <2>1. CASE b.file = <<>>
    BY <1>1, <1>2, <2>1 DEF FilePrune
  <2>2. CASE b.file # <<>>
    <3>1. c = [b EXCEPT !.file = <<>>, !.pos = 0]
      BY <1>2, <2>2 DEF FilePrune
    <3> QED
      BY <1>1, <1>2, <3>1 DEF Buffer
  <2> QED
    BY <2>1, <2>2
<1> HIDE DEF c
<1> DEFINE d == Shrunk(c)
<1>4. /\ d \in Buffer /\ d.stage = "file" /\ d.strbuf = <<>> /\ d.file = <<>> /\ d.pos = 0
      /\ d.remain = 0 /\ (~d.overflowed => 0 < d.overflow)
  <2>1. CASE c.overflowed /\ c.remain < c.overflow
    <3>1. Len(c.file) - c.pos = 0
      BY <1>2, <1>3
    <3>2. d = [c EXCEPT !.remain = 0, !.overflowed = FALSE]
      BY <1>3, <2>1, <3>1 DEF Shrunk, SetSmallBuffer, CopyOf, Buffer
    <3>3. FALSE \in BOOLEAN /\ 0 \in Nat
      OBVIOUS
    <3> QED
      BY <1>3, <2>1, <3>2, <3>3 DEF Buffer
  <2>2. CASE ~(c.overflowed /\ c.remain < c.overflow)
    BY <1>1, <1>3, <2>2 DEF Shrunk
  <2> QED
    BY <2>1, <2>2
<1> HIDE DEF d
<1>5. Good(d)
  BY <1>2, <1>4 DEF Good, ConsistentBuffer, BoundedBuffer
<1>6. Unread(d) = <<>>
  <2>1. d.pos + InFile(d) < d.pos + 1
    BY <1>2, <1>4 DEF InFile
  <2>2. d.pos + InFile(d) \in Int /\ d.pos + 1 \in Int
    BY <1>2, <1>4 DEF InFile
  <2> QED
    BY <1>4, <2>1, <2>2, SubSeqEmpty DEF Unread
<1>7. Unread(b) = <<>>
  <2>1. b.pos + InFile(b) = Len(b.file)
    BY <1>1 DEF InFile
  <2> QED
    BY <1>2, <2>1 DEF Unread
<1> QED
  BY <1>4, <1>5, <1>6, <1>7 DEF c, d

----------------------------------------------------------------------------
(* The calls *)

\* A file_wrapper holds one of the files, and has nothing to send before prepare().
Inv ==
    /\ Good(buf)
    /\ buf.stage = "readonly" => buf.file \in Files
    /\ buf.stage = "readonly" /\ call.op = "init" => buf.remain = 0

LEMMA AppendStep ==
    ASSUME Inv, NEW s \in Writes, append(s)
    PROVE  Inv' /\ Queue!BQNext
<1>1. s \in Seq(Bytes) /\ Len(s) \in Nat
  BY SizesTyped
<1>2. Good(buf) /\ buf.stage \in {"str", "file"}
  BY DEF Inv, append, Overflowable
<1>3. /\ Good(Appended(buf, s)) /\ Appended(buf, s).stage \in {"str", "file"}
      /\ Unread(Appended(buf, s)) = Unread(buf) \o s
  <2>1. CASE StaysString(buf, s)
    <3>1. /\ buf \in Buffer /\ buf.strbuf \in Seq(Bytes) /\ buf.stage = "str"
          /\ buf.file = <<>> /\ buf.pos = 0 /\ buf.remain = 0 /\ ~buf.overflowed
      BY <1>2, <2>1 DEF Good, ConsistentBuffer, Buffer, StaysString
    <3>2. buf.strbuf \o s \in Seq(Bytes) /\ Len(buf.strbuf \o s) < StrbufLimit
      BY <1>1, <2>1, <3>1, ConcatProperties DEF StaysString
    <3>3. Appended(buf, s) = [buf EXCEPT !.strbuf = buf.strbuf \o s]
      BY <2>1 DEF Appended
    <3>4. [buf EXCEPT !.strbuf = buf.strbuf \o s] \in Buffer
      BY <3>1, <3>2 DEF Buffer
    <3> QED
      BY <1>2, <3>1, <3>2, <3>3, <3>4
         DEF Good, ConsistentBuffer, BoundedBuffer, Unread, Buffer
  <2>2. CASE ~StaysString(buf, s)
    <3> DEFINE b == AsFile(buf)
    <3>1. Good(b) /\ b.stage = "file" /\ Unread(b) = Unread(buf)
      BY <1>2, AsFileKeeps
    <3> HIDE DEF b
    <3> DEFINE c == FileAppend(b, s)
    <3>2. ConsistentBuffer(c) /\ c.stage = "file" /\ Unread(c) = Unread(b) \o s
      BY <1>1, <3>1, FileAppendKeeps DEF Good
    <3> HIDE DEF c
    <3>3. Good(Spilled(c)) /\ Unread(Spilled(c)) = Unread(c)
      BY <3>2, SpilledKeeps
    <3>4. Spilled(c).stage = "file"
      BY <3>2 DEF Spilled, SetLargeBuffer, CopyOf, ConsistentBuffer, Buffer
    <3>5. Appended(buf, s) = Spilled(c)
      BY <2>2 DEF Appended, c, b
    <3> QED
      BY <3>1, <3>2, <3>3, <3>4, <3>5
  <2> QED
    BY <2>1, <2>2
<1>4. buf' = Appended(buf, s) /\ call' = Returned("append", s)
  BY DEF append
<1>5. Inv'
  BY <1>3, <1>4 DEF Inv, Good, ConsistentBuffer, BoundedBuffer
<1>6. Queue!Put(s)
  BY <1>3, <1>4 DEF Queue!Put, Queue!Returned, Queue!Call, Returned, Call
<1>7. (buf.stage # "closed") /\ (buf'.stage # "closed")
  BY <1>2, <1>3, <1>4
<1> QED
  BY <1>5, <1>6, <1>7 DEF Queue!BQNext

LEMMA PrepareStep ==
    ASSUME Inv, NEW n \in Counts, prepare(n)
    PROVE  Inv' /\ Queue!BQNext
<1> DEFINE fsize == Len(buf.file) - buf.pos
           r == IF n < 0 \/ fsize < n THEN fsize ELSE n
<1>1. /\ buf \in Buffer /\ buf.stage = "readonly" /\ buf.file \in Files
      /\ buf.file \in Seq(Bytes) /\ Len(buf.file) \in Nat /\ buf.pos \in Nat
      /\ buf.pos <= Len(buf.file) /\ buf.remain = 0 /\ buf.strbuf = <<>>
  BY DEF Inv, Good, ConsistentBuffer, Buffer, prepare
<1>2. r \in 0 .. fsize /\ r \in Nat
  BY <1>1, SizesTyped
<1>3. buf' = [buf EXCEPT !.remain = r] /\ call' = Returned("prepare", <<>>)
  BY DEF prepare
<1> HIDE DEF r
<1>4. [buf EXCEPT !.remain = r] \in Buffer
  BY <1>1, <1>2 DEF Buffer
<1>5. /\ buf'.stage = "readonly" /\ buf'.strbuf = <<>> /\ buf'.file = buf.file
      /\ buf'.pos = buf.pos /\ buf'.remain = r
  BY <1>1, <1>3 DEF Buffer
<1>6. Good(buf')
  BY <1>1, <1>2, <1>3, <1>4, <1>5 DEF Good, ConsistentBuffer, BoundedBuffer
<1>7. call'.op = "prepare"
  BY <1>3 DEF Returned, Call
<1>8. Inv'
  BY <1>1, <1>5, <1>6, <1>7 DEF Inv, Good, ConsistentBuffer, BoundedBuffer
<1>9. Unread(buf) = <<>>
  <2>1. buf.pos + InFile(buf) < buf.pos + 1
    BY <1>1 DEF InFile
  <2>2. buf.pos + InFile(buf) \in Int /\ buf.pos + 1 \in Int
    BY <1>1 DEF InFile
  <2> QED
    BY <1>1, <2>1, <2>2, SubSeqEmpty DEF Unread
<1>10. Unread(buf') = SubSeq(buf.file, buf.pos + 1, buf.pos + r)
  BY <1>5 DEF Unread, InFile
<1>11. buf.pos + 1 \in 1 .. Len(buf.file) + 1 /\ buf.pos + r \in 0 .. Len(buf.file)
  BY <1>1, <1>2
<1>12. Queue!Fill(buf.file)
  BY <1>3, <1>9, <1>10, <1>11 DEF Queue!Fill, Queue!Returned, Queue!Call, Returned, Call
<1> QED
  BY <1>1, <1>5, <1>8, <1>12 DEF Queue!BQNext

\* What get() returns of a file, and of a string, is a prefix of the unread bytes.
LEMMA PeekStep ==
    ASSUME Inv, NEW n \in Counts, peek(n)
    PROVE  Inv' /\ Queue!BQNext
<1> DEFINE u == Unread(buf)
           ret == IF buf.stage = "str" THEN buf.strbuf ELSE FileRead(buf, ReadCount(buf, n))
<1>1. /\ Good(buf) /\ ConsistentBuffer(buf) /\ n \in Int
      /\ buf.stage \in {"str", "file", "readonly"}
  BY SizesTyped DEF Inv, Good, peek, Readable, Overflowable
<1>2. buf' = buf /\ call' = Call("peek", <<>>, n, ret, FALSE)
  BY DEF peek
<1>3. u \in Seq(Bytes) /\ Len(u) \in Nat
  BY <1>1, UnreadFacts
<1>4. PICK k \in 0 .. Len(u) : ret = SubSeq(u, 1, k) /\ (k = 0 => n = 0 \/ u = <<>>)
  <2>1. CASE buf.stage = "str"
    <3>1. u = buf.strbuf /\ ret = buf.strbuf
      BY <2>1 DEF Unread
    <3>2. ret = SubSeq(u, 1, Len(u))
      BY <1>3, <3>1, SubSeqFull
    <3>3. Len(u) = 0 => u = <<>>
      BY <1>3
    <3> QED
      BY <1>3, <3>2, <3>3
  <2>2. CASE buf.stage # "str"
    <3>1. /\ InFile(buf) \in Nat /\ Len(u) = InFile(buf)
          /\ ReadCount(buf, n) \in 0 .. InFile(buf)
          /\ FileRead(buf, ReadCount(buf, n)) = SubSeq(u, 1, ReadCount(buf, n))
      BY <1>1, <2>2, UnreadFacts
    <3>2. ReadCount(buf, n) = 0 => n = 0 \/ Len(u) = 0
      BY <1>1, <3>1 DEF ReadCount
    <3>3. Len(u) = 0 => u = <<>>
      BY <1>3
    <3> QED
      BY <2>2, <3>1, <3>2, <3>3
  <2> QED
    BY <2>1, <2>2
<1>5. Queue!Peek(n)
  BY <1>2, <1>4 DEF Queue!Peek, Queue!Call, Call
<1>6. call'.op = "peek"
  BY <1>2 DEF Call
<1>7. Inv'
  BY <1>2, <1>6 DEF Inv, Good, ConsistentBuffer, BoundedBuffer
<1> QED
  BY <1>1, <1>2, <1>5, <1>7 DEF Queue!BQNext

LEMMA TakeStep ==
    ASSUME Inv, NEW n \in Counts, take(n)
    PROVE  Inv' /\ Queue!BQNext
<1> DEFINE b == AsFile(buf)
           k == ReadCount(b, n)
           u == Unread(buf)
<1>1. Good(buf) /\ n \in Int /\ buf.stage \in {"str", "file", "readonly"}
  BY SizesTyped DEF Inv, take, Readable, Overflowable
<1>2. /\ Good(b) /\ b.stage \in {"file", "readonly"} /\ Unread(b) = u
      /\ b.stage = "readonly" => buf.stage = "readonly" /\ b = buf
  BY <1>1, AsFileKeeps DEF AsFile
<1>3. buf' = FileSkip(b, k) /\ call' = Call("take", <<>>, n, FileRead(b, k), FALSE)
  BY DEF take
<1> HIDE DEF b
<1>4. /\ InFile(b) \in Nat /\ Len(u) = InFile(b) /\ k \in 0 .. InFile(b)
      /\ FileRead(b, k) = SubSeq(u, 1, k)
  BY <1>1, <1>2, UnreadFacts DEF Good
<1>5. InFile(b) = b.remain
  BY <1>2 DEF InFile, Good, ConsistentBuffer
<1>6. k = Queue!FirstOf(u, n)
  BY <1>1, <1>4 DEF ReadCount, Queue!FirstOf
<1> HIDE DEF k
<1>7. Good(FileSkip(b, k)) /\ Unread(FileSkip(b, k)) = SubSeq(u, k + 1, Len(u))
  BY <1>2, <1>4, <1>5, FileSkipKeeps
<1>8. FileSkip(b, k).stage = b.stage /\ FileSkip(b, k).file = b.file
  BY <1>2 DEF FileSkip, Good, ConsistentBuffer, Buffer
<1>9. call'.op = "take"
  BY <1>3 DEF Call
<1>10. Inv'
  BY <1>2, <1>3, <1>7, <1>8, <1>9 DEF Inv, Good, ConsistentBuffer, BoundedBuffer
<1>11. Queue!Get(n)
  BY <1>3, <1>4, <1>6, <1>7 DEF Queue!Get, Queue!Call, Queue!Without, Call
<1> QED
  BY <1>1, <1>2, <1>3, <1>8, <1>10, <1>11 DEF Queue!BQNext

\* A skip of too much raises, after it has made a file of a string.
LEMMA SkipStep ==
    ASSUME Inv, NEW n \in Counts, NEW allow_prune \in BOOLEAN, skip(n, allow_prune)
    PROVE  Inv' /\ Queue!BQNext
<1> DEFINE u == Unread(buf)
           b == AsFile(buf)
<1>1. /\ Good(buf) /\ n \in Nat /\ buf.stage \in {"str", "file", "readonly"}
      /\ call' = Call("skip", <<>>, n, <<>>, n > LenOf(buf))
  BY SizesTyped DEF Inv, skip, Readable, Overflowable
<1>2. u \in Seq(Bytes) /\ Len(u) \in Nat /\ Len(u) = LenOf(buf)
  <2>1. ConsistentBuffer(buf) /\ buf.stage # "lent"
    BY <1>1 DEF Good
  <2>2. u \in Seq(Bytes) /\ Len(u) = LenOf(buf)
    BY <2>1, UnreadFacts
  <2> QED
    BY <2>2
<1>3. /\ Good(b) /\ b.stage \in {"file", "readonly"} /\ Unread(b) = u
      /\ b.stage = "readonly" => buf.stage = "readonly" /\ b = buf
  BY <1>1, AsFileKeeps DEF AsFile
<1>4. /\ Good(buf') /\ buf'.stage \in {"str", "file", "readonly"}
      /\ buf'.stage = "readonly" => buf.stage = "readonly" /\ buf'.file = buf.file
      /\ Unread(buf') = IF n > Len(u) THEN u ELSE SubSeq(u, n + 1, Len(u))
  <2>1. CASE buf.stage = "str" /\ allow_prune /\ n = Len(buf.strbuf)
    <3>1. buf' = [buf EXCEPT !.strbuf = <<>>]
      BY <2>1 DEF skip
    <3>2. buf \in Buffer /\ <<>> \in Seq(Bytes) /\ Len(<<>>) = 0
      BY <1>1 DEF Good, ConsistentBuffer
    <3>3. buf' \in Buffer /\ buf'.stage = "str" /\ buf'.strbuf = <<>>
      BY <2>1, <3>1, <3>2 DEF Buffer
    <3>4. Good(buf')
      BY <1>1, <2>1, <3>1, <3>2, <3>3, SizesTyped
         DEF Good, ConsistentBuffer, BoundedBuffer, Buffer
    <3>5. n = Len(u)
      BY <1>2, <2>1 DEF LenOf
    <3>6. SubSeq(u, n + 1, Len(u)) = <<>>
      BY <1>2, <3>5, SubSeqEmpty
    <3> QED
      BY <1>2, <3>3, <3>4, <3>5, <3>6 DEF Unread
  <2>2. CASE /\ ~(buf.stage = "str" /\ allow_prune /\ n = Len(buf.strbuf))
             /\ n > LenOf(buf)
    <3>1. buf' = b
      BY <2>2 DEF skip
    <3> HIDE DEF b
    <3> QED
      BY <1>2, <1>3, <2>2, <3>1
  <2>3. CASE /\ ~(buf.stage = "str" /\ allow_prune /\ n = Len(buf.strbuf))
             /\ ~(n > LenOf(buf))
    <3>1. buf' = FileSkip(b, n)
      BY <2>3 DEF skip
    <3> HIDE DEF b
    <3>2. LenOf(b) = Len(u) /\ LenOf(b) = b.remain
      BY <1>3, UnreadFacts DEF Good, LenOf
    <3>3. n \in 0 .. b.remain
      BY <1>1, <1>2, <2>3, <3>2
    <3>4. Good(FileSkip(b, n)) /\ Unread(FileSkip(b, n)) = SubSeq(u, n + 1, Len(u))
      BY <1>3, <3>3, FileSkipKeeps
    <3>5. FileSkip(b, n).stage = b.stage /\ FileSkip(b, n).file = b.file
      BY <1>3 DEF FileSkip, Good, ConsistentBuffer, Buffer
    <3> QED
      BY <1>2, <1>3, <2>3, <3>1, <3>4, <3>5
  <2> QED
    BY <2>1, <2>2, <2>3
<1>5. call'.op = "skip"
  BY <1>1 DEF Call
<1>6. Inv'
  BY <1>4, <1>5 DEF Inv, Good, ConsistentBuffer, BoundedBuffer
<1>7. Queue!Drop(n)
  BY <1>1, <1>2, <1>4 DEF Queue!Drop, Queue!Call, Queue!Without, Call
<1> QED
  BY <1>1, <1>4, <1>6, <1>7 DEF Queue!BQNext

LEMMA PruneStep ==
    ASSUME Inv, PruneRead
    PROVE  Inv' /\ Queue!BQNext
<1>1. /\ Good(buf) /\ buf.stage \in {"str", "file"} /\ LenOf(buf) = 0
      /\ call' = Returned("prune", <<>>)
  BY DEF Inv, PruneRead, Overflowable
<1>2. Good(buf') /\ buf'.stage \in {"str", "file"} /\ Unread(buf') = Unread(buf)
  <2>1. CASE buf.stage = "str"
    <3>1. buf' = buf
      BY <2>1 DEF PruneRead
    <3> QED
      BY <1>1, <3>1
  <2>2. CASE buf.stage = "file"
    <3>1. buf' = Shrunk(FilePrune(buf))
      BY <2>2 DEF PruneRead
    <3>2. buf.remain = 0
      BY <1>1, <2>2 DEF LenOf
    <3> QED
      BY <1>1, <2>2, <3>1, <3>2, PruneKeeps
  <2> QED
    BY <1>1, <2>1, <2>2
<1>3. Inv'
  BY <1>2 DEF Inv, Good, ConsistentBuffer, BoundedBuffer
<1>4. Queue!Keep("prune")
  BY <1>1, <1>2 DEF Queue!Keep, Queue!Returned, Queue!Call, Returned, Call
<1> QED
  BY <1>1, <1>2, <1>3, <1>4 DEF Queue!BQNext

\* The file that getfile() returns holds the unread bytes, for the application.
LEMMA GetFileStep ==
    ASSUME Inv, getfile
    PROVE  Inv' /\ Queue!BQNext
<1> DEFINE b == AsFile(buf)
<1>1. /\ Good(buf) /\ buf.stage \in {"str", "file"}
      /\ buf' = [b EXCEPT !.stage = "lent"] /\ call' = Returned("getfile", <<>>)
  BY DEF Inv, getfile, Overflowable
<1>2. Good(b) /\ b.stage = "file" /\ Unread(b) = Unread(buf)
  BY <1>1, AsFileKeeps
<1> HIDE DEF b
<1>3. /\ buf' \in Buffer /\ buf'.stage = "lent" /\ buf'.file = b.file
      /\ buf'.pos = b.pos /\ buf'.strbuf = b.strbuf
  BY <1>1, <1>2 DEF Good, ConsistentBuffer, Buffer, Stages
<1>4. Good(buf')
  BY <1>2, <1>3 DEF Good, ConsistentBuffer, BoundedBuffer
<1>5. Inv'
  BY <1>3, <1>4 DEF Inv, Good, ConsistentBuffer, BoundedBuffer
<1>6. Unread(buf') = Unread(buf)
  BY <1>2, <1>3 DEF Unread, InFile
<1>7. Queue!Keep("getfile")
  BY <1>1, <1>6 DEF Queue!Keep, Queue!Returned, Queue!Call, Returned, Call
<1> QED
  BY <1>1, <1>3, <1>5, <1>7 DEF Queue!BQNext

LEMMA AppReadsStep ==
    ASSUME Inv, NEW n \in Counts, app_reads(n)
    PROVE  Inv' /\ Queue!BQNext
<1> DEFINE k == ReadCount(buf, n)
           u == Unread(buf)
<1>1. /\ Good(buf) /\ buf.stage = "lent" /\ n \in Int
      /\ buf' = [buf EXCEPT !.pos = @ + k]
      /\ call' = Call("take", <<>>, n, FileRead(buf, k), FALSE)
  BY SizesTyped DEF Inv, app_reads
<1>2. /\ buf \in Buffer /\ buf.file \in Seq(Bytes) /\ Len(buf.file) \in Nat
      /\ buf.pos \in Nat /\ buf.strbuf = <<>> /\ buf.pos <= Len(buf.file)
  BY <1>1 DEF Good, ConsistentBuffer, Buffer
<1>3. /\ InFile(buf) \in Nat /\ Len(u) = InFile(buf) /\ k \in 0 .. InFile(buf)
      /\ FileRead(buf, k) = SubSeq(u, 1, k)
      /\ SubSeq(u, k + 1, Len(u)) =
            SubSeq(buf.file, buf.pos + k + 1, buf.pos + InFile(buf))
  BY <1>1, UnreadFacts DEF Good
<1>4. InFile(buf) = Len(buf.file) - buf.pos
  BY <1>1 DEF InFile
<1>5. k = Queue!FirstOf(u, n)
  BY <1>1, <1>3 DEF ReadCount, Queue!FirstOf
<1> HIDE DEF k
<1>6. buf.pos + k \in Nat /\ buf.pos + k <= Len(buf.file)
  <2>1. k \in 0 .. Len(buf.file) - buf.pos
    BY <1>3, <1>4
  <2> QED
    BY <1>2, <2>1
<1>7. /\ buf' \in Buffer /\ buf'.stage = "lent" /\ buf'.file = buf.file
      /\ buf'.pos = buf.pos + k /\ buf'.strbuf = <<>>
  BY <1>1, <1>2, <1>6 DEF Buffer
<1>8. Good(buf')
  BY <1>6, <1>7 DEF Good, ConsistentBuffer, BoundedBuffer
<1>9. Inv'
  BY <1>7, <1>8 DEF Inv, Good, ConsistentBuffer, BoundedBuffer
<1>10. Unread(buf') = SubSeq(u, k + 1, Len(u))
  <2>1. buf'.pos + InFile(buf') = buf.pos + InFile(buf)
    BY <1>2, <1>3, <1>4, <1>7 DEF InFile
  <2> QED
    BY <1>3, <1>7, <2>1 DEF Unread
<1>11. Queue!Get(n)
  BY <1>1, <1>3, <1>5, <1>10 DEF Queue!Get, Queue!Call, Queue!Without, Call
<1> QED
  BY <1>1, <1>7, <1>9, <1>11 DEF Queue!BQNext

LEMMA CloseStep ==
    ASSUME Inv, close
    PROVE  Inv' /\ Queue!BQNext
<1>1. Good(buf) /\ buf.stage # "closed" /\ call' = Returned("close", <<>>)
  BY DEF Inv, close
<1>2. CASE buf.stage = "str"
  <2>1. buf' = buf
    BY <1>2 DEF close
  <2>2. Inv'
    BY <1>1, <1>2, <2>1 DEF Inv, Good, ConsistentBuffer, BoundedBuffer
  <2>3. Queue!Keep("close")
    BY <1>1, <2>1 DEF Queue!Keep, Queue!Returned, Queue!Call, Returned, Call
  <2> QED
    BY <1>1, <2>1, <2>2, <2>3 DEF Queue!BQNext
<1>3. CASE buf.stage # "str"
  <2>1. buf' = [buf EXCEPT !.stage = "closed", !.remain = 0]
    BY <1>3 DEF close
  <2>2. buf' \in Buffer /\ buf'.stage = "closed" /\ buf'.remain = 0
        /\ buf'.pos = buf.pos /\ buf'.file = buf.file /\ buf'.strbuf = buf.strbuf
    BY <1>1, <2>1 DEF Good, ConsistentBuffer, Buffer, Stages
  <2>3. Inv'
    BY <1>1, <1>3, <2>2 DEF Inv, Good, ConsistentBuffer, BoundedBuffer
  <2>4. Unread(buf') = <<>>
    BY <2>2 DEF Unread
  <2>5. Queue!CloseFile
    BY <1>1, <2>2, <2>4 DEF Queue!CloseFile, Queue!Returned, Queue!Call, Returned, Call
  <2> QED
    BY <1>1, <2>3, <2>5 DEF Queue!BQNext
<1> QED
  BY <1>2, <1>3

LEMMA RefusedStep ==
    ASSUME Inv, refused
    PROVE  Inv' /\ Queue!BQNext
<1>1. /\ Good(buf) /\ buf.stage = "closed" /\ buf' = buf
      /\ call' = Call("any", <<>>, 0, <<>>, TRUE)
  BY DEF Inv, refused
<1>2. Inv'
  BY <1>1 DEF Inv, Good, ConsistentBuffer, BoundedBuffer
<1>3. Queue!Refuse
  BY <1>1 DEF Queue!Refuse, Queue!Call, Call
<1> QED
  BY <1>2, <1>3 DEF Queue!BQNext

----------------------------------------------------------------------------
(* Theorems *)

LEMMA InvInit == Init => Inv /\ Queue!BQInit
<1> SUFFICES ASSUME Init PROVE Inv /\ Queue!BQInit
  OBVIOUS
<1>1. <<>> \in Seq(Bytes) /\ Len(<<>>) = 0
  OBVIOUS
<1>2. ASSUME NEW o \in Overflows, buf = NewOverflowable(o)
      PROVE  Inv /\ Unread(buf) = <<>> /\ buf.stage = "str"
  <2>1. buf \in Buffer
    BY <1>1, <1>2, SizesTyped DEF NewOverflowable, Buffer, Stages
  <2> QED
    BY <1>1, <1>2, <2>1, SizesTyped
       DEF NewOverflowable, Inv, Good, ConsistentBuffer, BoundedBuffer, Unread
<1>3. ASSUME NEW f \in Files, NEW p \in 0 .. MaxFile, p <= Len(f), buf = NewReadOnly(f, p)
      PROVE  Inv /\ Unread(buf) = <<>> /\ buf.stage = "readonly"
  <2>1. f \in Seq(Bytes) /\ Len(f) \in Nat /\ p \in Nat
    BY SizesTyped
  <2>2. /\ buf.stage = "readonly" /\ buf.strbuf = <<>> /\ buf.file = f /\ buf.pos = p
        /\ buf.remain = 0
    BY <1>3 DEF NewReadOnly
  <2>3. buf \in Buffer
    BY <1>1, <1>3, <2>1 DEF NewReadOnly, Buffer, Stages
  <2>4. Inv
    BY <1>3, <2>1, <2>2, <2>3 DEF Inv, Good, ConsistentBuffer, BoundedBuffer
  <2>5. buf.pos + InFile(buf) < buf.pos + 1
    BY <2>1, <2>2 DEF InFile
  <2>6. buf.pos + InFile(buf) \in Int /\ buf.pos + 1 \in Int
    BY <2>1, <2>2 DEF InFile
  <2>7. Unread(buf) = <<>>
    BY <2>2, <2>5, <2>6, SubSeqEmpty DEF Unread
  <2> QED
    BY <2>2, <2>4, <2>7
<1>4. Inv /\ Unread(buf) = <<>> /\ buf.stage # "closed"
  BY <1>2, <1>3 DEF Init
<1> QED
  BY <1>4 DEF Init, Queue!BQInit, Queue!Returned, Queue!Call, Returned, Call

LEMMA InvNext == Inv /\ [Next]_vars => Inv' /\ [Queue!BQNext]_Queue!bqVars
<1> SUFFICES ASSUME Inv, [Next]_vars PROVE Inv' /\ [Queue!BQNext]_Queue!bqVars
  OBVIOUS
<1>1. CASE Next
  BY <1>1, AppendStep, PrepareStep, PeekStep, TakeStep, AppReadsStep, SkipStep,
     PruneStep, GetFileStep, CloseStep, RefusedStep DEF Next
<1>2. CASE UNCHANGED vars
  <2>1. buf' = buf /\ call' = call
    BY <1>2 DEF vars
  <2>2. Inv'
    BY <2>1 DEF Inv, Good, ConsistentBuffer, BoundedBuffer
  <2> QED
    BY <2>1, <2>2 DEF Queue!bqVars
<1> QED
  BY <1>1, <1>2

LEMMA InvAlways == Spec => []Inv
<1> QED
  BY InvInit, InvNext, PTL DEF Spec

\* What remains is what get() can still return, through every conversion
\* (buffers.py:25-130, 197-325).
THEOREM LengthsAreExact == Spec => []Consistent
<1>1. Inv => Consistent
  BY DEF Inv, Good, Consistent
<1> QED
  BY <1>1, InvAlways, PTL

\* What is pending and not on disk stays below its limits (buffers.py:276-281).
THEOREM MemoryIsBounded == Spec => []PendingInMemoryBounded
<1>1. Inv => PendingInMemoryBounded
  BY DEF Inv, Good, PendingInMemoryBounded
<1> QED
  BY <1>1, InvAlways, PTL

\* A buffer of either class is a FIFO of bytes, whatever it is called with and
\* wherever it overflows.
THEOREM BuffersImplementByteQueue == Spec => ImplementsByteQueue
<1> QED
  BY InvInit, InvNext, InvAlways, PTL DEF Spec, ImplementsByteQueue, Queue!BQSpec

=============================================================================
