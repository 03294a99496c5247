------------------------------ MODULE ByteQueue ------------------------------
(****************************************************************************)
(* What every buffer of waitress/buffers.py promises, however it stores its *)
(* bytes: they come out once, in the order in which they went in.  A call   *)
(* of get() that does not skip may return more than was asked for, never    *)
(* nothing while there is something.                                        *)
(****************************************************************************)
EXTENDS Integers, Sequences

CONSTANTS
    Writes,       \* the arguments of append()
    Files,        \* the contents of the files given to wsgi.file_wrapper
    Counts        \* the arguments of get() and skip(); -1 is everything

VARIABLES
    unread,       \* the bytes that have not been skipped
    call,         \* the last call: its argument, what it returned, did it raise
    open          \* close() has not closed a file

bqVars == <<unread, call, open>>

Call(op, data, n, ret, raised) ==
    [op |-> op, data |-> data, n |-> n, ret |-> ret, raised |-> raised]

Returned(op, data) == Call(op, data, 0, <<>>, FALSE)

FirstOf(s, n) == IF n < 0 \/ n > Len(s) THEN Len(s) ELSE n
Without(s, n) == SubSeq(s, n + 1, Len(s))

BQInit ==
    /\ unread = <<>>
    /\ call = Returned("init", <<>>)
    /\ open = TRUE

Put(s) ==
    /\ unread' = unread \o s
    /\ call' = Returned("append", s)

\* prepare(): the whole file, or as much of it as Content-Length says.
Fill(f) ==
    /\ unread = <<>>
    /\ \E i \in 1 .. Len(f) + 1, j \in 0 .. Len(f) : unread' = SubSeq(f, i, j)
    /\ call' = Returned("prepare", <<>>)

Peek(n) ==
    /\ \E k \in 0 .. Len(unread) :
          /\ k = 0 => n = 0 \/ unread = <<>>
          /\ call' = Call("peek", <<>>, n, SubSeq(unread, 1, k), FALSE)
    /\ UNCHANGED unread

Get(n) ==
    /\ call' = Call("take", <<>>, n, SubSeq(unread, 1, FirstOf(unread, n)), FALSE)
    /\ unread' = Without(unread, FirstOf(unread, n))

Drop(n) ==
    /\ n \in Nat
    /\ call' = Call("skip", <<>>, n, <<>>, n > Len(unread))
    /\ unread' = IF n > Len(unread) THEN unread ELSE Without(unread, n)

\* getfile(), prune() of what was read, and a close() that has no file.
Keep(op) ==
    /\ call' = Returned(op, <<>>)
    /\ UNCHANGED unread

CloseFile ==
    /\ open' = FALSE
    /\ unread' = <<>>
    /\ call' = Returned("close", <<>>)

\* A closed file is not read or written.
Refuse ==
    /\ ~open
    /\ call' = Call("any", <<>>, 0, <<>>, TRUE)
    /\ UNCHANGED <<unread, open>>

BQNext ==
    \/ /\ open
       /\ \/ \E s \in Writes : Put(s)
          \/ \E f \in Files : Fill(f)
          \/ \E n \in Counts : Peek(n) \/ Get(n) \/ Drop(n)
          \/ \E op \in {"getfile", "prune", "close"} : Keep(op)
       /\ UNCHANGED open
    \/ open /\ CloseFile
    \/ Refuse

BQSpec == BQInit /\ [][BQNext]_bqVars

=============================================================================
