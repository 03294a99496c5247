-------------------------------- MODULE Buffers --------------------------------
(****************************************************************************)
(* waitress/buffers.py.  An OverflowableBuffer is a string, then a BytesIO, *)
(* then a temporary file; a ReadOnlyFileBasedBuffer is the file of an       *)
(* application, sent from where it stands.  Both files and their positions  *)
(* are kept as such: FileBasedBuffer counts what remains on its own, next   *)
(* to the position of the file, and every conversion copies both.           *)
(*                                                                          *)
(* The calls are those of src: the body of a request is appended and then   *)
(* lent to the application by getfile(), the output is appended, looked at, *)
(* skipped and closed.  prune() has no caller in src; it is called here     *)
(* when everything was read, see PruneRead.                                 *)
(****************************************************************************)
EXTENDS Integers, Sequences

CONSTANTS
    Bytes, Writes, Files, Counts,     \* as in ByteQueue
    StrbufLimit,      \* STRBUF_LIMIT
    Overflows,        \* the values of inbuf_overflow and outbuf_overflow
    MaxFile           \* bound: the length of a buffer's file

ASSUME SizesTyped ==
    /\ Writes \subseteq Seq(Bytes)
    /\ Files \subseteq Seq(Bytes)
    /\ Counts \subseteq Nat \union {-1}
    /\ StrbufLimit \in Nat \ {0}
    /\ Overflows \subseteq Nat
    /\ MaxFile \in Nat

VARIABLES
    buf,          \* the attributes of the buffer and of its file
    call          \* history: the last call, as in ByteQueue

vars == <<buf, call>>

\* The stages; "lent" is a file that the application reads as wsgi.input.
Stages == {"str", "file", "lent", "readonly", "closed"}

Buffer ==
    [stage : Stages, strbuf : Seq(Bytes), file : Seq(Bytes), pos : Nat,
     remain : Nat, overflowed : BOOLEAN, overflow : Nat]

Call(op, data, n, ret, raised) ==
    [op |-> op, data |-> data, n |-> n, ret |-> ret, raised |-> raised]

Returned(op, data) == Call(op, data, 0, <<>>, FALSE)

----------------------------------------------------------------------------
(* The attributes after a call, as functions of the attributes before it.   *)

NewOverflowable(o) ==
    [stage |-> "str", strbuf |-> <<>>, file |-> <<>>, pos |-> 0, remain |-> 0,
     overflowed |-> FALSE, overflow |-> o]

NewReadOnly(f, p) ==
    [stage |-> "readonly", strbuf |-> <<>>, file |-> f, pos |-> p, remain |-> 0,
     overflowed |-> FALSE, overflow |-> 0]

\* Mutant: the copy is read from its beginning.
CopyRewound(b) == [b EXCEPT !.pos = 0, !.remain = Len(b.file)]

\* FileBasedBuffer(file, from_buffer): the whole file is copied, and its position.
CopyOf(b) == [b EXCEPT !.remain = Len(b.file) - b.pos]

SetLargeBuffer(b) == [CopyOf(b) EXCEPT !.overflowed = TRUE]
SetSmallBuffer(b) == [CopyOf(b) EXCEPT !.overflowed = FALSE]

CreateBuffer(b) ==
    [b EXCEPT !.stage = "file", !.strbuf = <<>>, !.file = b.strbuf,
              !.remain = Len(b.strbuf),
              !.overflowed = Len(b.strbuf) >= b.overflow]

AsFile(b) == IF b.stage = "str" THEN CreateBuffer(b) ELSE b

\* Mutant: append() forgets to count what it wrote.
FileAppendUncounted(b, s) == [b EXCEPT !.file = @ \o s]

FileAppend(b, s) == [b EXCEPT !.file = @ \o s, !.remain = @ + Len(s)]

\* Mutant: the size is compared with > instead of >=.
SpilledLate(b) ==
    IF ~b.overflowed /\ b.remain > b.overflow THEN SetLargeBuffer(b) ELSE b

Spilled(b) ==
    IF ~b.overflowed /\ b.remain >= b.overflow THEN SetLargeBuffer(b) ELSE b

StaysString(b, s) == b.stage = "str" /\ Len(b.strbuf) + Len(s) < StrbufLimit

Appended(b, s) ==
    IF StaysString(b, s) THEN [b EXCEPT !.strbuf = @ \o s]
    ELSE Spilled(FileAppend(AsFile(b), s))

\* How many bytes file.read(numbytes) returns, in the two classes of buffers.
InFile(b) == IF b.stage = "readonly" THEN b.remain ELSE Len(b.file) - b.pos
ReadCount(b, n) == IF n < 0 \/ n > InFile(b) THEN InFile(b) ELSE n
FileRead(b, k) == SubSeq(b.file, b.pos + 1, b.pos + k)

FileSkip(b, k) == [b EXCEPT !.pos = @ + k, !.remain = @ - k]

\* prune(): the rest of the file, with the position left behind it.
FilePrune(b) ==
    LET rest == SubSeq(b.file, b.pos + 1, Len(b.file))
    IN  IF b.remain = 0 /\ b.file = <<>> THEN b
        ELSE [b EXCEPT !.file = rest, !.pos = Len(rest)]

Shrunk(b) ==
    IF b.overflowed /\ b.remain < b.overflow THEN SetSmallBuffer(b) ELSE b

\* __len__
LenOf(b) == IF b.stage = "str" THEN Len(b.strbuf) ELSE b.remain

----------------------------------------------------------------------------
Overflowable == buf.stage \in {"str", "file"}
Readable == Overflowable \/ buf.stage = "readonly"

Init ==
    /\ \/ \E o \in Overflows : buf = NewOverflowable(o)
       \/ \E f \in Files, p \in 0 .. MaxFile : p <= Len(f) /\ buf = NewReadOnly(f, p)
    /\ call = Returned("init", <<>>)

append(s) ==
    /\ Overflowable
    /\ Len(buf.strbuf) + Len(buf.file) + Len(s) <= MaxFile
    /\ buf' = Appended(buf, s)
    /\ call' = Returned("append", s)

\* prepare(size); size < 0 stands for None.  It is called before any get().
prepare(size) ==
    /\ buf.stage = "readonly"
    /\ call.op = "init"
    /\ LET fsize == Len(buf.file) - buf.pos
       IN  buf' = [buf EXCEPT !.remain = IF size < 0 \/ fsize < size THEN fsize ELSE size]
    /\ call' = Returned("prepare", <<>>)

\* get(n): a string is returned whole, whatever n is.
peek(n) ==
    /\ Readable
    /\ LET ret == IF buf.stage = "str" THEN buf.strbuf
                  ELSE FileRead(buf, ReadCount(buf, n))
       IN  call' = Call("peek", <<>>, n, ret, FALSE)
    /\ UNCHANGED buf

\* get(n, skip=True)
take(n) ==
    /\ Readable
    /\ LET b == AsFile(buf)
           k == ReadCount(b, n)
       IN  /\ call' = Call("take", <<>>, n, FileRead(b, k), FALSE)
           /\ buf' = FileSkip(b, k)

skip(n, allow_prune) ==
    /\ Readable
    /\ n >= 0
    /\ call' = Call("skip", <<>>, n, <<>>, n > LenOf(buf))
    /\ buf' = IF buf.stage = "str" /\ allow_prune /\ n = Len(buf.strbuf)
              THEN [buf EXCEPT !.strbuf = <<>>]
              ELSE IF n > LenOf(buf) THEN AsFile(buf) ELSE FileSkip(AsFile(buf), n)

\* With unread bytes the pruned file would be left positioned behind them.
PruneRead ==
    /\ Overflowable
    /\ LenOf(buf) = 0
    /\ buf' = IF buf.stage = "str" THEN buf ELSE Shrunk(FilePrune(buf))
    /\ call' = Returned("prune", <<>>)

getfile ==
    /\ Overflowable
    /\ buf' = [AsFile(buf) EXCEPT !.stage = "lent"]
    /\ call' = Returned("getfile", <<>>)

\* The application reads wsgi.input: the buffer does not see it.
app_reads(n) ==
    /\ buf.stage = "lent"
    /\ LET k == ReadCount(buf, n)
       IN  /\ call' = Call("take", <<>>, n, FileRead(buf, k), FALSE)
           /\ buf' = [buf EXCEPT !.pos = @ + k]

\* close() of a buffer that is still a string does nothing.
close ==
    /\ buf.stage # "closed"
    /\ buf' = IF buf.stage = "str" THEN buf
              ELSE [buf EXCEPT !.stage = "closed", !.remain = 0]
    /\ call' = Returned("close", <<>>)

\* Every call reaches the closed file, which raises ValueError.
refused ==
    /\ buf.stage = "closed"
    /\ call' = Call("any", <<>>, 0, <<>>, TRUE)
    /\ UNCHANGED buf

Next ==
    \/ \E s \in Writes : append(s)
    \/ \E n \in Counts : prepare(n) \/ peek(n) \/ take(n) \/ app_reads(n)
    \/ \E n \in Counts, allow_prune \in BOOLEAN : skip(n, allow_prune)
    \/ PruneRead
    \/ getfile
    \/ close
    \/ refused

Spec == Init /\ [][Next]_vars

----------------------------------------------------------------------------
ConsistentBuffer(b) ==
    /\ b \in Buffer
    /\ b.pos <= Len(b.file)
    /\ b.stage = "str" => b.file = <<>> /\ b.pos = 0 /\ b.remain = 0 /\ ~b.overflowed
    /\ b.stage # "str" => b.strbuf = <<>>
    /\ b.stage = "file" => b.remain = Len(b.file) - b.pos
    /\ b.stage = "readonly" => b.remain <= Len(b.file) - b.pos
    /\ b.stage = "closed" => b.remain = 0

BoundedBuffer(b) ==
    /\ b.stage = "str" => Len(b.strbuf) < StrbufLimit
    /\ b.stage = "file" /\ ~b.overflowed => b.remain < b.overflow

\* What remains agrees with the position of the file in every stage, so that
\* len() is the number of bytes that get() can still return: channel.py adds
\* and subtracts these lengths (buffers.py:25-130, 197-325).
Consistent == ConsistentBuffer(buf)

\* What is pending and not on disk stays below the limits (buffers.py:258, 276).
PendingInMemoryBounded == BoundedBuffer(buf)

Unread(b) ==
    IF b.stage = "str" THEN b.strbuf
    ELSE IF b.stage = "closed" THEN <<>>
    ELSE SubSeq(b.file, b.pos + 1, b.pos + InFile(b))

Queue == INSTANCE ByteQueue WITH unread <- Unread(buf), open <- (buf.stage # "closed")

\* However it is stored and converted, a buffer is a FIFO of bytes: nothing is
\* lost, repeated or reordered by an overflow, a partial skip or a failed one.
ImplementsByteQueue == Queue!BQSpec

=============================================================================
