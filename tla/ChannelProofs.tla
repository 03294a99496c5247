----------------------------- MODULE ChannelProofs -----------------------------
(****************************************************************************)
(* Proofs about Channel, for any workers, scripts, limits and events: who   *)
(* services the channel, and what may still be queued; who uses the output  *)
(* buffers, who holds outbuf_lock, and which descriptors reach select();    *)
(* and the types of it all.                                                 *)
(****************************************************************************)
EXTENDS Channel, FiniteSetTheorems, SequenceTheorems, TLAPS

InFlush == {"top", "send", "skip", "deduct", "flushed", "raised", "fclose", "fclose2"}

FlushFields == {"ctx", "ref", "len", "num", "sent"}

IsSequence(q) == q \in Seq({q[i] : i \in DOMAIN q})

Shapes ==
    /\ DOMAIN pc = Threads /\ DOMAIN flush = Threads
    /\ \A t \in Threads : DOMAIN flush[t] = FlushFields
    /\ \A t \in Threads : flush[t].ctx = "continue" => pc[t] \in InFlush
    /\ IsSequence(requests)

\* send_continue has not returned.
Continuing(t) == pc[t] = "continue" \/ flush[t].ctx = "continue"

HoldsRequests(t) == pc[t] \in {"parse", "queue", "drop", "next"} \/ Continuing(t)

\* requests_lock is held where the code says so.
LockIsHeld == \A t \in Threads : HoldsRequests(t) <=> requests_lock = t

NoServant == tasks = 0 /\ \A w \in Workers : ~InService(w)

Servant ==
    \/ tasks = 1 /\ \A w \in Workers : ~InService(w)
    \/ tasks = 0 /\ \E w \in Workers :
                       InService(w) /\ \A v \in Workers : InService(v) => v = w

\* While a worker hands the channel on, with the lock, it has no servant.
Service ==
    /\ NoServant \/ Servant
    /\ Servant => requests # <<>>
    /\ requests_lock \notin Workers /\ requests # <<>> /\ connected => Servant
    /\ \A w \in Workers : pc[w] = "next" => NoServant
    /\ \A w \in Workers : Continuing(w) => NoServant /\ requests = <<>>

\* received() saw the flags with the lock held; whoever sets one since then is in
\* service.
Closes == requests_lock = Main /\ AboutToClose => requests # <<>>

IInv == Shapes /\ LockIsHeld /\ Service /\ Closes

----------------------------------------------------------------------------
LEMMA OfItsElements ==
    ASSUME NEW S, NEW a \in Seq(S)
    PROVE  IsSequence(a)
<1> DEFINE R == {a[i] : i \in DOMAIN a}
<1>1. a \in [1 .. Len(a) -> S] /\ Len(a) \in Nat /\ DOMAIN a = 1 .. Len(a)
  BY LenProperties
<1>2. a \in [1 .. Len(a) -> R]
  BY <1>1
<1>3. a \in Seq(R)
  BY <1>1, <1>2, SeqDef
<1> QED
  BY <1>3 DEF IsSequence

LEMMA SequenceGrown ==
    ASSUME NEW q, IsSequence(q), NEW x
    PROVE  IsSequence(Append(q, x)) /\ Append(q, x) # <<>>
<1> DEFINE S == {q[i] : i \in DOMAIN q} \union {x}
           a == Append(q, x)
<1>1. q \in Seq(S)
  BY DEF IsSequence
<1>2. a \in Seq(S) /\ Len(a) = Len(q) + 1 /\ Len(q) \in Nat
  BY <1>1, AppendProperties, LenProperties
<1>3. a # <<>>
  BY <1>2, EmptySeq
<1> QED
  BY <1>2, <1>3, OfItsElements

LEMMA Shortened ==
    ASSUME NEW q, IsSequence(q), q # <<>>
    PROVE  IsSequence(Tail(q))
<1> DEFINE S == {q[i] : i \in DOMAIN q}
<1>1. Tail(q) \in Seq(S)
  BY HeadTailProperties DEF IsSequence
<1> QED
  BY <1>1, OfItsElements

LEMMA NoneYet == IsSequence(<<>>)
<1>1. <<>> \in Seq({})
  OBVIOUS
<1> QED
  BY <1>1, OfItsElements

----------------------------------------------------------------------------
(* Threads that stay where they are, as far as the invariant can tell *)

SamePlace(t) ==
    /\ flush'[t].ctx = "continue" => pc'[t] \in InFlush
    /\ HoldsRequests(t)' <=> HoldsRequests(t)
    /\ InService(t)' <=> InService(t)
    /\ Continuing(t)' <=> Continuing(t)
    /\ pc'[t] = "next" <=> pc[t] = "next"

\* A step of t, which may notify a waiting worker.
Moves(t) ==
    /\ DOMAIN pc' = Threads /\ DOMAIN flush' = Threads
    /\ \A u \in Threads : DOMAIN flush'[u] = FlushFields
    /\ \A u \in Threads \ {t} :
          /\ flush'[u] = flush[u]
          /\ pc'[u] = pc[u] \/ (pc[u] = "waiting" /\ pc'[u] = "relock")

\* The places of a thread that neither holds requests_lock nor is between
\* requests: those of main, and those of a worker in service.
Plain(p) == p \notin {"idle", "next", "last", "continue", "parse", "queue", "drop"}

LEMMA OthersStay ==
    ASSUME Shapes, NEW t \in Threads, Moves(t), NEW u \in Threads \ {t}
    PROVE  SamePlace(u)
BY DEF Shapes, Moves, SamePlace, HoldsRequests, Continuing, InService, InFlush

LEMMA PlainStays ==
    ASSUME Shapes, NEW t \in Threads, Plain(pc[t]), Plain(pc'[t]),
           flush'[t].ctx = "continue" <=> flush[t].ctx = "continue",
           flush'[t].ctx = "continue" => pc'[t] \in InFlush
    PROVE  SamePlace(t)
BY DEF Plain, SamePlace, HoldsRequests, Continuing, InService

\* Flags that are set while nobody depends on them.
FlagsKept ==
    /\ connected' => connected
    /\ AboutToClose' => AboutToClose \/ requests # <<>> \/ requests_lock # Main

LEMMA AllStay ==
    ASSUME IInv, \A t \in Threads : SamePlace(t), FlagsKept,
           DOMAIN pc' = Threads, DOMAIN flush' = Threads,
           \A t \in Threads : DOMAIN flush'[t] = FlushFields,
           UNCHANGED <<requests, tasks, requests_lock>>
    PROVE  IInv'
<1>1. Shapes'
  BY DEF IInv, Shapes, SamePlace
<1>2. LockIsHeld'
  BY DEF IInv, LockIsHeld, SamePlace
<1>3. \A w \in Workers : w \in Threads
  BY DEF Threads
<1>4. (NoServant' <=> NoServant) /\ (Servant' <=> Servant)
  BY <1>3 DEF NoServant, Servant, SamePlace
<1>5. Service'
  BY <1>3, <1>4 DEF IInv, Service, SamePlace, FlagsKept
<1>6. Closes'
  BY DEF IInv, Closes, FlagsKept
<1> QED
  BY <1>1, <1>2, <1>5, <1>6 DEF IInv

\* Most steps: within a request, within the flush, or of main without the lock.
LEMMA PlainStep ==
    ASSUME IInv, NEW t \in Threads, Moves(t), Plain(pc[t]), Plain(pc'[t]),
           flush'[t].ctx = "continue" <=> flush[t].ctx = "continue",
           flush'[t].ctx = "continue" => pc'[t] \in InFlush,
           FlagsKept,
           UNCHANGED <<requests, tasks, requests_lock>>
    PROVE  IInv'
<1>1. \A u \in Threads : SamePlace(u)
  BY OthersStay, PlainStays DEF IInv
<1> QED
  BY <1>1, AllStay DEF Moves

\* A step of t alone, with pc[t] as its only place.
LEMMA OneMoves ==
    ASSUME Shapes, NEW t \in Threads, NEW p, pc' = [pc EXCEPT ![t] = p],
           \/ flush' = flush
           \/ \E c : flush' = [flush EXCEPT ![t].ctx = c]
           \/ flush' = [flush EXCEPT ![t] = Idle]
    PROVE  Moves(t) /\ pc'[t] = p
<1>1. DOMAIN pc' = Threads /\ pc'[t] = p /\ \A u \in Threads \ {t} : pc'[u] = pc[u]
  BY DEF Shapes
<1>2. DOMAIN flush' = Threads /\ \A u \in Threads \ {t} : flush'[u] = flush[u]
  BY DEF Shapes
<1>3. \A u \in Threads : DOMAIN flush'[u] = FlushFields
  BY DEF Shapes, Idle, FlushFields
<1> QED
  BY <1>1, <1>2, <1>3 DEF Moves

----------------------------------------------------------------------------
(* The flush *)

LEMMA WithinFlush ==
    ASSUME IInv, NEW t \in Threads, Moves(t), pc[t] \in InFlush, pc'[t] \in InFlush,
           flush'[t].ctx = flush[t].ctx, FlagsKept,
           UNCHANGED <<requests, tasks, requests_lock>>
    PROVE  IInv'
BY PlainStep DEF InFlush, Plain

LEMMA FlushTopStep ==
    ASSUME IInv, NEW t \in Threads, flush_top(t)
    PROVE  IInv'
<1>1. PICK n, m : flush' = [flush EXCEPT ![t].ref = n, ![t].len = m]
  BY DEF flush_top
<1>2. pc[t] \in InFlush /\ \E p \in InFlush : pc' = [pc EXCEPT ![t] = p]
  BY DEF flush_top, Go, InFlush
<1>3. Moves(t) /\ flush'[t].ctx = flush[t].ctx /\ pc'[t] \in InFlush
  BY <1>1, <1>2 DEF Moves, IInv, Shapes, FlushFields
<1> QED
  BY <1>2, <1>3, WithinFlush DEF flush_top, shared, locks, FlagsKept, AboutToClose

LEMMA SendStep ==
    ASSUME IInv, NEW t \in Threads, send_some(t) \/ send_nothing(t)
    PROVE  IInv'
<1>1. flush' = flush \/ \E n : flush' = [flush EXCEPT ![t].num = n]
  BY DEF send_some, send_nothing
<1>2. pc[t] \in InFlush /\ \E p \in InFlush : pc' = [pc EXCEPT ![t] = p]
  BY DEF send_some, send_nothing, Go, InFlush
<1>3. Moves(t) /\ flush'[t].ctx = flush[t].ctx /\ pc'[t] \in InFlush
  BY <1>1, <1>2 DEF Moves, IInv, Shapes, FlushFields
<1> QED
  BY <1>2, <1>3, WithinFlush
  DEF send_some, send_nothing, shared, locks, FlagsKept, AboutToClose

LEMMA SkipStep ==
    ASSUME IInv, NEW t \in Threads, flush_skip(t) \/ flush_deduct(t)
    PROVE  IInv'
<1> DEFINE After(n, m) == [flush EXCEPT ![t].len = n, ![t].num = m, ![t].sent = TRUE]
           Kept == /\ DOMAIN flush' = Threads /\ DOMAIN flush'[t] = FlushFields
                   /\ flush'[t].ctx = flush[t].ctx
                   /\ \A u \in Threads \ {t} : flush'[u] = flush[u]
<1>1. flush' = flush \/ \E n, m : flush' = After(n, m)
  BY DEF flush_skip, flush_deduct, SentOn
<1>2. pc[t] \in InFlush /\ \E p \in InFlush : pc' = [pc EXCEPT ![t] = p]
  BY DEF flush_skip, flush_deduct, SentOn, Go, InFlush
<1>3. ASSUME flush' = flush PROVE Kept
  BY <1>3 DEF IInv, Shapes
<1>4. ASSUME NEW n, NEW m, flush' = After(n, m) PROVE Kept
  <2> DEFINE g == [[[flush[t] EXCEPT !.len = n] EXCEPT !.num = m] EXCEPT !.sent = TRUE]
  <2>1. DOMAIN g = FlushFields /\ g.ctx = flush[t].ctx
    BY DEF IInv, Shapes, FlushFields
  <2>2. flush' = [flush EXCEPT ![t] = g]
    BY <1>4 DEF IInv, Shapes
  <2> QED
    BY <2>1, <2>2 DEF IInv, Shapes
<1>5. Kept
  <2> HIDE DEF After, Kept
  <2> QED
    BY <1>1, <1>3, <1>4
<1>6. Moves(t) /\ flush'[t].ctx = flush[t].ctx /\ pc'[t] \in InFlush
  BY <1>2, <1>5 DEF Moves, IInv, Shapes
<1> QED
  BY <1>2, <1>6, WithinFlush
  DEF flush_skip, flush_deduct, SentOn, shared, locks, FlagsKept, AboutToClose

\* TestHwm() lets the thread go on, or pauses it.
LEMMA TestHwmMoves ==
    ASSUME NEW t \in Threads, TestHwm(t)
    PROVE  /\ \E p \in {"put", "pop", "waiting"} : pc' = [pc EXCEPT ![t] = p]
           /\ flush' = flush \/ flush' = [flush EXCEPT ![t] = Idle]
BY DEF TestHwm, PauseAtHwm, BelowHwm, Go

\* Any flush but that of send_continue ends outside of requests_lock.
LEMMA OtherFlushEnds ==
    ASSUME IInv, NEW t \in Threads, pc[t] \in InFlush, flush[t].ctx # "continue",
           Moves(t), Plain(pc'[t]), flush'[t].ctx # "continue", FlagsKept,
           UNCHANGED <<requests, tasks, requests_lock>>
    PROVE  IInv'
BY PlainStep DEF Plain, InFlush

\* send_continue returns, and a worker releases requests_lock.
LEMMA ContinueEnds ==
    ASSUME IInv, NEW t \in Threads, pc[t] \in InFlush, flush[t].ctx = "continue",
           Moves(t), flush'[t].ctx # "continue", FlagsKept,
           UNCHANGED <<requests, tasks>>,
           \/ t = Main /\ pc'[t] = "queue" /\ requests_lock' = Main
           \/ t = Main /\ pc'[t] = "close" /\ requests_lock' = None
           \/ t \in Workers /\ pc'[t] \in {"last", "idle"} /\ requests_lock' = None
    PROVE  IInv'
<1>1. \A u \in Threads \ {t} : SamePlace(u)
  BY OthersStay DEF IInv
<1>2. requests_lock = t /\ None \notin Threads /\ Main \notin Workers
  BY ThreadsDistinct DEF IInv, LockIsHeld, HoldsRequests, Continuing, Threads, None
<1>3. \A w \in Workers : w \in Threads
  BY DEF Threads
<1>4. Shapes'
  BY <1>1 DEF IInv, Shapes, Moves, SamePlace
<1>5. HoldsRequests(t)' <=> requests_lock' = t
  BY <1>2 DEF HoldsRequests, Continuing
<1>6. LockIsHeld'
  BY <1>1, <1>2, <1>5 DEF IInv, LockIsHeld, SamePlace
<1>7. \A w \in Workers : InService(w)' <=> InService(w)
  BY <1>1, <1>2, <1>3 DEF InService, SamePlace
<1>8. (NoServant' <=> NoServant) /\ (Servant' <=> Servant)
  BY <1>7 DEF NoServant, Servant
<1>9. \A w \in Workers : /\ Continuing(w)' => Continuing(w)
                         /\ pc'[w] = "next" => pc[w] = "next"
  BY <1>1, <1>2, <1>3 DEF Continuing, SamePlace
<1>10. requests_lock \notin Workers \/ requests = <<>>
  BY <1>2 DEF IInv, Service, Continuing
<1>11. Service'
  BY <1>8, <1>9, <1>10 DEF IInv, Service, FlagsKept
<1>12. Closes'
  BY <1>2 DEF IInv, Closes, FlagsKept, Threads
<1> QED
  BY <1>4, <1>6, <1>11, <1>12 DEF IInv

LEMMA NotifyMoves ==
    ASSUME Shapes, NEW t \in Threads, pc[t] # "waiting", NEW p,
           pc' = Notify([pc EXCEPT ![t] = p]),
           flush' = flush \/ flush' = [flush EXCEPT ![t] = Idle]
    PROVE  Moves(t) /\ pc'[t] = p
<1>1. DOMAIN flush' = Threads /\ \A u \in Threads : DOMAIN flush'[u] = FlushFields
  BY DEF Shapes, Idle, FlushFields
<1>2. \A u \in Threads \ {t} : flush'[u] = flush[u]
  BY DEF Shapes
<1>3. t \notin Waiters /\ \A u \in Waiters : pc[u] = "waiting"
  BY DEF Waiters
<1>4. DOMAIN pc' = Threads /\ pc'[t] = p
  BY <1>3 DEF Notify, Shapes
<1>5. \A u \in Threads \ {t} : pc'[u] = pc[u] \/ (pc[u] = "waiting" /\ pc'[u] = "relock")
  BY <1>3 DEF Notify, Shapes
<1> QED
  BY <1>1, <1>2, <1>4, <1>5 DEF Moves

\* A worker that may set a flag has a request; main does it without the lock.
LEMMA FlagsFree ==
    ASSUME IInv, NEW t \in Threads, Plain(pc[t]), flush[t].ctx # "continue"
    PROVE  requests # <<>> \/ requests_lock # Main
<1>1. CASE t = Main
  BY <1>1 DEF IInv, LockIsHeld, HoldsRequests, Continuing, Plain
<1>2. CASE t \in Workers
  <2>1. InService(t)
    BY DEF InService, Plain
  <2>2. ~NoServant
    BY <1>2, <2>1 DEF NoServant
  <2> QED
    BY <2>2 DEF IInv, Service
<1> QED
  BY <1>1, <1>2 DEF Threads

LEMMA ReturnStep ==
    ASSUME IInv, NEW t \in Threads, flush_return(t)
    PROVE  IInv'
<1>1. /\ pc[t] = "flushed" /\ pc[t] \in InFlush /\ pc[t] # "waiting"
      /\ FlushReturned(t) /\ Shapes /\ FlagsKept
      /\ UNCHANGED <<requests, tasks>>
  BY DEF flush_return, InFlush, IInv, FlagsKept, AboutToClose
<1>2. Idle.ctx # "continue" /\ Plain("after") /\ Plain("app")
      /\ Plain("put") /\ Plain("pop") /\ Plain("waiting")
  BY DEF Idle, Plain
<1>3. flush' = [flush EXCEPT ![t] = Idle] => flush'[t].ctx # "continue"
  BY <1>1, <1>2 DEF Shapes
<1>4. CASE flush[t].ctx = "unlocked"
  <2>1. pc' = [pc EXCEPT ![t] = "after"] /\ flush' = [flush EXCEPT ![t] = Idle]
        /\ UNCHANGED requests_lock
    BY <1>1, <1>4 DEF FlushReturned, Go, locks
  <2>2. Moves(t) /\ pc'[t] = "after"
    BY <1>1, <2>1, OneMoves
  <2> QED
    BY <1>1, <1>2, <1>3, <1>4, <2>1, <2>2, OtherFlushEnds
<1>5. CASE flush[t].ctx = "lockable"
  <2>1. flush' = [flush EXCEPT ![t] = Idle] /\ UNCHANGED requests_lock
    BY <1>1, <1>5 DEF FlushReturned
  <2>2. \/ pc' = [pc EXCEPT ![t] = "after"]
        \/ pc' = Notify([pc EXCEPT ![t] = "after"])
    BY <1>1, <1>5 DEF FlushReturned
  <2>3. Moves(t) /\ pc'[t] = "after"
    BY <1>1, <2>1, <2>2, OneMoves, NotifyMoves
  <2> QED
    BY <1>1, <1>2, <1>3, <1>5, <2>1, <2>3, OtherFlushEnds
<1>6. CASE flush[t].ctx = "continue"
  <2>1. /\ pc' = [pc EXCEPT ![t] = IF t = Main THEN "queue" ELSE "last"]
        /\ flush' = [flush EXCEPT ![t] = Idle]
        /\ requests_lock' = IF t = Main THEN Main ELSE None
    BY <1>1, <1>6 DEF FlushReturned, Go
  <2>2. Moves(t) /\ pc'[t] = IF t = Main THEN "queue" ELSE "last"
    BY <1>1, <2>1, OneMoves
  <2> QED
    BY <1>1, <1>3, <1>6, <2>1, <2>2, ContinueEnds DEF Threads
<1>7. CASE flush[t].ctx = "write"
  <2>1. pc' = [pc EXCEPT ![t] = "app"] /\ flush' = [flush EXCEPT ![t] = Idle]
        /\ UNCHANGED requests_lock
    BY <1>1, <1>7 DEF FlushReturned, Go
  <2>2. Moves(t) /\ pc'[t] = "app"
    BY <1>1, <2>1, OneMoves
  <2> QED
    BY <1>1, <1>2, <1>3, <1>7, <2>1, <2>2, OtherFlushEnds
<1>8. CASE flush[t].ctx \in {"hwm", "hwm_fin"}
  <2>1. TestHwm(t) /\ UNCHANGED requests_lock
    BY <1>1, <1>8 DEF FlushReturned
  <2>2. PICK p \in {"put", "pop", "waiting"} : pc' = [pc EXCEPT ![t] = p]
    BY <2>1, TestHwmMoves
  <2>3. flush' = flush \/ flush' = [flush EXCEPT ![t] = Idle]
    BY <2>1, TestHwmMoves
  <2>4. Moves(t) /\ pc'[t] = p
    BY <1>1, <2>2, <2>3, OneMoves
  <2>5. flush'[t].ctx # "continue"
    BY <1>3, <1>8, <2>3
  <2> QED
    BY <1>1, <1>2, <1>8, <2>1, <2>2, <2>4, <2>5, OtherFlushEnds
<1> QED
  BY <1>1, <1>4, <1>5, <1>6, <1>7, <1>8 DEF FlushReturned

LEMMA RaiseStep ==
    ASSUME IInv, NEW t \in Threads, flush_raise(t)
    PROVE  IInv'
<1>1. /\ pc[t] = "raised" /\ pc[t] \in InFlush /\ pc[t] # "waiting" /\ Plain(pc[t])
      /\ FlushRaised(t) /\ Shapes /\ connected' = connected
      /\ UNCHANGED <<requests, tasks>>
  BY DEF flush_raise, InFlush, IInv, Plain
<1>2. Idle.ctx # "continue" /\ Plain("after") /\ Plain("app") /\ Plain("waiting")
  BY DEF Idle, Plain
<1>3. flush' = [flush EXCEPT ![t] = Idle] => flush'[t].ctx # "continue"
  BY <1>1, <1>2 DEF Shapes
<1>4. CASE flush[t].ctx # "continue"
  <2>1. PICK p \in {"after", "app", "waiting"} : pc' = [pc EXCEPT ![t] = p]
    BY <1>1, <1>4 DEF FlushRaised, Go, PauseAtHwm
  <2>2. /\ flush' = flush \/ flush' = [flush EXCEPT ![t] = Idle]
        /\ UNCHANGED requests_lock
    BY <1>1, <1>4 DEF FlushRaised
  <2>3. Moves(t) /\ pc'[t] = p
    BY <1>1, <2>1, <2>2, OneMoves
  <2>4. FlagsKept
    BY <1>1, <1>4, FlagsFree DEF FlagsKept
  <2>5. flush'[t].ctx # "continue"
    BY <1>3, <1>4, <2>2
  <2> QED
    BY <1>1, <1>2, <1>4, <2>1, <2>2, <2>3, <2>4, <2>5, OtherFlushEnds
<1>5. CASE flush[t].ctx = "continue"
  <2>1. /\ pc' = [pc EXCEPT ![t] = IF t = Main THEN "close" ELSE "idle"]
        /\ flush' = [flush EXCEPT ![t] = Idle]
        /\ requests_lock' = None /\ UNCHANGED will_close
    BY <1>1, <1>5 DEF FlushRaised, Go
  <2>2. Moves(t) /\ pc'[t] = IF t = Main THEN "close" ELSE "idle"
    BY <1>1, <2>1, OneMoves
  <2>3. FlagsKept
    BY <1>1, <2>1 DEF FlagsKept, AboutToClose, flush_raise
  <2> QED
    BY <1>1, <1>3, <1>5, <2>1, <2>2, <2>3, ContinueEnds DEF Threads
<1> QED
  BY <1>4, <1>5

LEMMA FlushStep ==
    ASSUME IInv, NEW t \in Threads, flush_some(t)
    PROVE  IInv'
BY FlushTopStep, SendStep, SkipStep, ReturnStep, RaiseStep DEF flush_some

LEMMA CloseStep ==
    ASSUME IInv, NEW t \in Threads, handle_close(t) \/ dispatcher_close(t)
    PROVE  IInv'
<1>1. /\ pc[t] \in {"close", "fclose", "close2", "fclose2"} /\ pc[t] # "waiting"
      /\ Plain(pc[t]) /\ flush' = flush /\ Shapes
      /\ UNCHANGED <<requests, tasks, requests_lock>> /\ FlagsKept
  BY DEF handle_close, dispatcher_close, Plain, IInv, shared, locks, FlagsKept, AboutToClose
<1>2. PICK p \in {"close2", "fclose2", "flushed", "poll"} :
          /\ pc' = [pc EXCEPT ![t] = p] \/ pc' = Notify([pc EXCEPT ![t] = p])
          /\ pc[t] \in InFlush => p \in InFlush
  <2>1. CASE handle_close(t)
    <3>1. [pc EXCEPT ![t] = IF @ = "close" THEN "close2" ELSE "fclose2"]
              = [pc EXCEPT ![t] = IF pc[t] = "close" THEN "close2" ELSE "fclose2"]
      OBVIOUS
    <3> QED
      BY <2>1, <3>1 DEF handle_close, InFlush
  <2>2. CASE dispatcher_close(t)
    BY <2>2 DEF dispatcher_close, Go, InFlush
  <2> QED
    BY <2>1, <2>2
<1>3. Moves(t) /\ pc'[t] = p
  BY <1>1, <1>2, OneMoves, NotifyMoves
<1>4. Plain(p) /\ flush'[t].ctx = flush[t].ctx /\ (flush'[t].ctx = "continue" => p \in InFlush)
  BY <1>1, <1>2 DEF Plain, Shapes
<1> QED
  BY <1>1, <1>3, <1>4, PlainStep

LEMMA ContinueStep ==
    ASSUME IInv, NEW t \in Threads, send_continue(t)
    PROVE  IInv'
<1>1. /\ pc[t] = "continue" /\ flush' = [flush EXCEPT ![t].ctx = "continue"]
      /\ UNCHANGED <<requests, tasks, requests_lock>> /\ FlagsKept /\ Shapes
  BY DEF send_continue, StartFlush, FlagsKept, AboutToClose, IInv
<1>2. PICK p \in {"top", "raised"} : pc' = [pc EXCEPT ![t] = p]
  BY DEF send_continue, Go
<1>3. Moves(t) /\ pc'[t] = p
  BY <1>1, <1>2, OneMoves
<1>4. flush'[t].ctx = "continue"
  BY <1>1 DEF Shapes, FlushFields
<1>5. SamePlace(t)
  BY <1>1, <1>3, <1>4 DEF SamePlace, HoldsRequests, Continuing, InService, InFlush
<1>6. \A u \in Threads : SamePlace(u)
  BY <1>1, <1>3, <1>5, OthersStay
<1> QED
  BY <1>1, <1>3, <1>6, AllStay DEF Moves

----------------------------------------------------------------------------
(* Steps outside of requests_lock and of the flush *)

LEMMA OutsideStep ==
    ASSUME IInv, NEW t \in Threads, NEW p, Plain(pc[t]), pc[t] \notin InFlush, Plain(p),
           pc' = [pc EXCEPT ![t] = p],
           \/ flush' = flush
           \/ \E c \in {"unlocked", "lockable", "hwm", "hwm_fin", "write"} : StartFlush(t, c)
           \/ flush' = [flush EXCEPT ![t] = Idle],
           connected' => connected,
           UNCHANGED <<requests, tasks, requests_lock>>
    PROVE  IInv'
<1>1. Shapes /\ flush[t].ctx # "continue"
  BY DEF IInv, Shapes
<1>2. Moves(t) /\ pc'[t] = p
  BY <1>1, OneMoves DEF StartFlush
<1>3. flush'[t].ctx # "continue"
  <2>1. ASSUME NEW c \in {"unlocked", "lockable", "hwm", "hwm_fin", "write"},
               StartFlush(t, c)
        PROVE  flush'[t].ctx = c
    BY <1>1, <2>1 DEF Shapes, StartFlush, FlushFields
  <2>2. Idle.ctx = ""
    BY DEF Idle
  <2>3. flush' = [flush EXCEPT ![t] = Idle] => flush'[t] = Idle
    BY <1>1 DEF Shapes
  <2> QED
    BY <1>1, <2>1, <2>2, <2>3
<1>4. FlagsKept
  BY <1>1, FlagsFree DEF FlagsKept
<1> QED
  BY <1>1, <1>2, <1>3, <1>4, PlainStep

\* Clients and the clock change nothing that the invariant is about.
LEMMA NothingMoves ==
    ASSUME IInv, UNCHANGED <<shared, requests_lock, tasks, pc, flush>>
    PROVE  IInv'
<1>1. \A t \in Threads : SamePlace(t)
  BY DEF IInv, Shapes, SamePlace, HoldsRequests, Continuing, InService
<1> QED
  BY <1>1, AllStay DEF IInv, Shapes, shared, FlagsKept, AboutToClose

LEMMA MainStays ==
    ASSUME IInv,
           \/ server_readable \/ readable \/ writable \/ enter_select
           \/ select_returns \/ select_times_out \/ trigger_read \/ handle_read
           \/ handle_write \/ after_flush \/ interrupt
    PROVE  IInv'
<1>1. /\ Plain(pc[Main]) /\ pc[Main] \notin InFlush
      /\ UNCHANGED <<requests, tasks, requests_lock, connected>>
  BY DEF server_readable, readable, writable, enter_select, select_returns,
         select_times_out, trigger_read, handle_read, handle_write, after_flush,
         interrupt, shared, locks, Plain, InFlush
<1>2. \E p : Plain(p) /\ pc' = [pc EXCEPT ![Main] = p]
  BY DEF server_readable, readable, writable, enter_select, select_returns,
         select_times_out, trigger_read, handle_read, handle_write, after_flush,
         interrupt, Go, Plain
<1>3. flush' = flush \/ StartFlush(Main, "unlocked") \/ StartFlush(Main, "lockable")
  BY DEF server_readable, readable, writable, enter_select, select_returns,
         select_times_out, trigger_read, handle_read, handle_write, after_flush,
         interrupt
<1> QED
  BY <1>1, <1>2, <1>3, OutsideStep DEF Threads

LEMMA WorkerStays ==
    ASSUME IInv, NEW t \in Workers,
           \/ app_writes(t) \/ app_raises(t) \/ write_soon(t) \/ put(t)
           \/ wait_returns(t) \/ finish(t) \/ flush_before_next(t) \/ service_start(t)
    PROVE  IInv'
<1>1. /\ Plain(pc[t]) /\ pc[t] \notin InFlush /\ t \in Threads
      /\ UNCHANGED <<requests, tasks, requests_lock, connected>>
  BY DEF app_writes, app_raises, write_soon, put, wait_returns, finish,
         flush_before_next, service_start, shared, locks, Plain, InFlush, Threads
<1>2. CASE app_writes(t) \/ finish(t) \/ service_start(t)
  <2>1. \E p : Plain(p) /\ pc' = [pc EXCEPT ![t] = p]
    BY <1>2 DEF app_writes, finish, service_start, Go, Plain
  <2> QED
    BY <1>1, <1>2, <2>1, OutsideStep DEF app_writes, finish, service_start
<1>3. CASE app_raises(t)
  <2>1. flush' = flush /\ UNCHANGED shared /\ (pc' = pc \/ pc' = [pc EXCEPT ![t] = "finish"])
    BY <1>3 DEF app_raises, Go
  <2>2. CASE pc' = pc
    BY <1>1, <2>1, <2>2, NothingMoves
  <2>3. CASE pc' = [pc EXCEPT ![t] = "finish"]
    BY <1>1, <2>1, <2>3, OutsideStep DEF Plain
  <2> QED
    BY <2>1, <2>2, <2>3
<1>4. CASE write_soon(t) \/ put(t) \/ flush_before_next(t)
  <2>1. \E p : Plain(p) /\ pc' = [pc EXCEPT ![t] = p]
    BY <1>4 DEF write_soon, put, flush_before_next, Go, Plain
  <2>2. flush' = flush \/ \E c \in {"hwm", "hwm_fin", "write"} : StartFlush(t, c)
    BY <1>4 DEF write_soon, put, flush_before_next
  <2> QED
    BY <1>1, <2>1, <2>2, OutsideStep
<1>5. CASE wait_returns(t)
  <2>1. CASE TestHwm(t)
    BY <1>1, <2>1, TestHwmMoves, OutsideStep DEF Plain
  <2>2. CASE BelowHwm(t) /\ flush' = [flush EXCEPT ![t] = Idle]
    BY <1>1, <2>2, OutsideStep DEF BelowHwm, Go, Plain
  <2>3. TestHwm(t) \/ (BelowHwm(t) /\ flush' = [flush EXCEPT ![t] = Idle])
    <3>1. CASE job[t].exc
      BY <1>5, <3>1 DEF wait_returns
    <3>2. CASE ~job[t].exc
      BY <1>5, <3>2 DEF wait_returns
    <3> QED
      BY <3>1, <3>2
  <2> QED
    BY <2>1, <2>2, <2>3
<1> QED
  BY <1>2, <1>3, <1>4, <1>5

----------------------------------------------------------------------------
(* Steps with requests_lock, and those that add or take a task *)

\* requests_lock is taken, kept or released by t.
LEMMA LockMoves ==
    ASSUME IInv, NEW t \in Threads, Moves(t),
           requests_lock \in {None, t}, requests_lock' \in {None, t},
           HoldsRequests(t)' <=> requests_lock' = t
    PROVE  LockIsHeld'
<1>1. None \notin Threads
  BY ThreadsDistinct DEF Threads, None
<1>2. \A u \in Threads \ {t} : SamePlace(u)
  BY OthersStay DEF IInv
<1> QED
  BY <1>1, <1>2 DEF IInv, LockIsHeld, SamePlace

\* A step of main does not change who is in service.
LEMMA WorkersStay ==
    ASSUME IInv, Moves(Main)
    PROVE  /\ \A w \in Workers : SamePlace(w)
           /\ (\A w \in Workers : ~InService(w))' <=> \A w \in Workers : ~InService(w)
           /\ tasks' = tasks => (NoServant' <=> NoServant) /\ (Servant' <=> Servant)
<1>1. \A w \in Workers : w \in Threads \ {Main}
  BY ThreadsDistinct DEF Threads
<1>2. Main \in Threads
  BY DEF Threads
<1>3. \A w \in Workers : SamePlace(w)
  BY <1>1, <1>2, OthersStay DEF IInv
<1> QED
  BY <1>3 DEF SamePlace, NoServant, Servant

\* Main gets the lock, works with it and releases it.
LEMMA MainWithLock ==
    ASSUME IInv, NEW p, pc' = [pc EXCEPT ![Main] = p], flush' = flush,
           pc[Main] \notin InFlush,
           requests_lock \in {None, Main}, requests_lock' \in {None, Main},
           p \in {"parse", "queue", "continue"} <=> requests_lock' = Main,
           p \notin {"drop", "next"},
           connected' = connected, IsSequence(requests)', Closes',
           \/ UNCHANGED <<requests, tasks>>
           \/ requests # <<>> /\ requests' # <<>> /\ tasks' = tasks
           \/ requests = <<>> /\ requests' # <<>> /\ tasks' = tasks + 1
    PROVE  IInv'
<1>1. Main \in Threads /\ Main \notin Workers /\ None \notin Threads
      /\ Workers \subseteq Threads
  BY ThreadsDistinct DEF Threads, None
<1>2. Moves(Main) /\ pc'[Main] = p /\ flush[Main].ctx # "continue"
  BY <1>1, OneMoves DEF IInv, Shapes
<1>3. \A w \in Workers : SamePlace(w)
  BY <1>2, WorkersStay
<1>4. \A w \in Workers : ~Continuing(w) /\ pc[w] # "next"
  BY <1>1 DEF IInv, LockIsHeld, HoldsRequests
<1>5. Shapes'
  <2>1. \A u \in Threads \ {Main} : SamePlace(u)
    BY <1>3 DEF Threads
  <2> QED
    BY <1>2, <2>1 DEF IInv, Shapes, Moves, SamePlace
<1>6. LockIsHeld'
  <2>1. HoldsRequests(Main)' <=> requests_lock' = Main
    BY <1>2 DEF HoldsRequests, Continuing
  <2> QED
    BY <1>1, <1>2, <2>1, LockMoves
<1>7. requests_lock \notin Workers
  BY <1>1
<1>8. Service'
  <2>1. CASE tasks' = tasks
    <3>1. (NoServant' <=> NoServant) /\ (Servant' <=> Servant)
      BY <1>2, <2>1, WorkersStay
    <3>2. requests = <<>> <=> requests' = <<>>
      <4>1. requests = <<>> /\ tasks' = tasks + 1 => NoServant
        BY DEF IInv, Service
      <4> QED
        BY <2>1, <4>1 DEF NoServant
    <3> QED
      BY <1>3, <1>4, <1>7, <3>1, <3>2 DEF IInv, Service, SamePlace
  <2>2. CASE tasks' # tasks
    <3>1. requests = <<>> /\ requests' # <<>> /\ tasks' = tasks + 1 /\ NoServant
      BY <2>2 DEF IInv, Service
    <3>2. Servant'
      BY <1>2, <3>1, WorkersStay DEF NoServant, Servant
    <3> QED
      BY <1>3, <1>4, <3>1, <3>2 DEF IInv, Service, SamePlace
  <2> QED
    BY <2>1, <2>2
<1> QED
  BY <1>5, <1>6, <1>8 DEF IInv

LEMMA ReceivedStep ==
    ASSUME IInv, received
    PROVE  IInv'
<1>1. /\ pc[Main] = "received" /\ pc[Main] \notin InFlush /\ Plain(pc[Main])
      /\ requests_lock = None /\ UNCHANGED <<requests, tasks, connected, flush>>
      /\ Main \in Threads
  BY DEF received, shared, InFlush, Plain, Threads
<1>2. CASE AboutToClose
  BY <1>1, <1>2, OutsideStep DEF received, Go, Plain
<1>3. CASE ~AboutToClose
  <2>1. PICK p \in {"parse"} : pc' = [pc EXCEPT ![Main] = p] /\ requests_lock' = Main
    BY <1>3 DEF received, Go
  <2>2. Closes' /\ IsSequence(requests)'
    BY <1>1, <1>3 DEF Closes, AboutToClose, received, shared, IInv, Shapes
  <2>3. requests_lock \in {None, Main} /\ requests_lock' \in {None, Main}
    BY <1>1, <2>1
  <2>4. p \in {"parse", "queue", "continue"} <=> requests_lock' = Main
    BY <2>1
  <2> QED
    BY <1>1, <2>1, <2>2, <2>3, <2>4, MainWithLock
<1> QED
  BY <1>2, <1>3

LEMMA ParseStep ==
    ASSUME IInv, parse
    PROVE  IInv'
<1>1. /\ pc[Main] = "parse" /\ pc[Main] \notin InFlush
      /\ UNCHANGED <<requests, tasks, connected, flush, requests_lock>>
      /\ AboutToClose' = AboutToClose
  BY DEF parse, locks, InFlush, AboutToClose
<1>2. PICK p \in {"continue", "queue"} : pc' = [pc EXCEPT ![Main] = p]
  BY DEF parse, Go
<1>3. requests_lock = Main
  BY <1>1 DEF IInv, LockIsHeld, HoldsRequests, Threads
<1>4. Closes' /\ IsSequence(requests)'
  BY <1>1 DEF Closes, IInv, Shapes
<1> QED
  BY <1>1, <1>2, <1>3, <1>4, MainWithLock

LEMMA QueueStep ==
    ASSUME IInv, queue_request
    PROVE  IInv'
<1>1. /\ pc[Main] = "queue" /\ pc[Main] \notin InFlush
      /\ UNCHANGED <<connected, flush>>
      /\ AboutToClose' = AboutToClose
  BY DEF queue_request, InFlush, AboutToClose
<1>2. requests_lock = Main
  BY <1>1 DEF IInv, LockIsHeld, HoldsRequests, Threads
<1>3. PICK p \in {"write", "parse"} :
          /\ pc' = [pc EXCEPT ![Main] = p]
          /\ requests_lock' = IF p = "parse" THEN Main ELSE None
  BY <1>2 DEF queue_request, Go
<1>4. None # Main
  BY ThreadsDistinct DEF None
<1>5. \/ UNCHANGED <<requests, tasks>>
      \/ /\ requests' = Append(requests, request.id)
         /\ tasks' = IF requests = <<>> THEN tasks + 1 ELSE tasks
  BY DEF queue_request, MainAddsTask
<1>6. Append(requests, request.id) # <<>> /\ IsSequence(Append(requests, request.id))
  BY SequenceGrown DEF IInv, Shapes
<1>7. IsSequence(requests)'
  BY <1>5, <1>6 DEF IInv, Shapes
<1>8. Closes'
  BY <1>1, <1>2, <1>5, <1>6 DEF Closes, IInv
<1>9. requests_lock \in {None, Main} /\ requests_lock' \in {None, Main}
  BY <1>2, <1>3
<1>10. p \in {"parse", "queue", "continue"} <=> requests_lock' = Main
  BY <1>3, <1>4
<1>11. \/ UNCHANGED <<requests, tasks>>
       \/ requests # <<>> /\ requests' # <<>> /\ tasks' = tasks
       \/ requests = <<>> /\ requests' # <<>> /\ tasks' = tasks + 1
  BY <1>5, <1>6
<1> QED
  BY <1>1, <1>3, <1>7, <1>8, <1>9, <1>10, <1>11, MainWithLock

\* A step of worker w alone, outside of the flush.
LEMMA WorkerMoves ==
    ASSUME IInv, NEW w \in Workers, NEW p, pc' = [pc EXCEPT ![w] = p], flush' = flush,
           pc[w] \notin InFlush, IsSequence(requests)'
    PROVE  /\ Moves(w) /\ pc'[w] = p /\ flush[w].ctx # "continue" /\ w \in Threads
           /\ \A u \in Threads \ {w} : SamePlace(u)
           /\ \A v \in Workers \ {w} : SamePlace(v)
           /\ Shapes'
           /\ None \notin Threads /\ Main \notin Workers /\ Workers \subseteq Threads
<1>1. w \in Threads /\ None \notin Threads /\ Main \notin Workers /\ Workers \subseteq Threads
  BY ThreadsDistinct DEF Threads, None
<1>2. Moves(w) /\ pc'[w] = p /\ flush[w].ctx # "continue"
  BY <1>1, OneMoves DEF IInv, Shapes
<1>3. \A u \in Threads \ {w} : SamePlace(u)
  BY <1>1, <1>2, OthersStay DEF IInv
<1>4. Shapes'
  BY <1>1, <1>2, <1>3 DEF IInv, Shapes, Moves, SamePlace
<1> QED
  BY <1>1, <1>2, <1>3, <1>4

LEMMA TakeStep ==
    ASSUME IInv, NEW w \in Workers, take_task(w)
    PROVE  IInv'
<1>1. /\ pc[w] = "idle" /\ pc[w] \notin InFlush /\ pc' = [pc EXCEPT ![w] = "service"]
      /\ tasks > 0 /\ tasks' = tasks - 1
      /\ UNCHANGED <<requests, connected, requests_lock, flush>>
      /\ AboutToClose' = AboutToClose /\ IsSequence(requests)'
  BY DEF take_task, Go, shared, locks, InFlush, AboutToClose, IInv, Shapes
<1>2. /\ Moves(w) /\ pc'[w] = "service" /\ flush[w].ctx # "continue" /\ w \in Threads
      /\ \A u \in Threads \ {w} : SamePlace(u)
      /\ \A v \in Workers \ {w} : SamePlace(v)
      /\ Shapes'
  BY <1>1, WorkerMoves
<1>3. tasks = 1 /\ \A v \in Workers : ~InService(v)
  BY <1>1 DEF IInv, Service, NoServant, Servant
<1>4. ~NoServant /\ Servant
  BY <1>3 DEF NoServant, Servant
<1>5. InService(w)' /\ \A v \in Workers \ {w} : ~InService(v)'
  BY <1>1, <1>2, <1>3 DEF InService, SamePlace
<1>6. Servant'
  BY <1>1, <1>3, <1>5 DEF Servant
<1>7. SamePlace(w) \/ (~HoldsRequests(w) /\ ~HoldsRequests(w)')
  BY <1>1, <1>2 DEF HoldsRequests, Continuing
<1>8. LockIsHeld'
  BY <1>1, <1>2, <1>7 DEF IInv, LockIsHeld, SamePlace
<1>9. \A v \in Workers : pc'[v] # "next" /\ ~Continuing(v)'
  BY <1>1, <1>2, <1>4 DEF IInv, Service, SamePlace, Continuing
<1>10. Service'
  BY <1>1, <1>4, <1>6, <1>9 DEF IInv, Service
<1> QED
  BY <1>1, <1>2, <1>8, <1>10 DEF IInv, Closes

LEMMA CloseSoonStep ==
    ASSUME IInv, NEW w \in Workers, close_soon(w)
    PROVE  IInv'
<1>1. /\ pc[w] = "close_soon" /\ pc[w] \notin InFlush /\ pc' = [pc EXCEPT ![w] = "drop"]
      /\ requests_lock = None /\ requests_lock' = w
      /\ UNCHANGED <<requests, connected, tasks, flush>> /\ IsSequence(requests)'
  BY DEF close_soon, Go, InFlush, IInv, Shapes
<1>2. /\ Moves(w) /\ pc'[w] = "drop" /\ flush[w].ctx # "continue" /\ w \in Threads
      /\ \A v \in Workers \ {w} : SamePlace(v)
      /\ Shapes' /\ Main \notin Workers
  BY <1>1, WorkerMoves
<1>3. LockIsHeld'
  BY <1>1, <1>2, LockMoves DEF HoldsRequests
<1>4. \A v \in Workers : InService(v)' <=> InService(v)
  BY <1>1, <1>2 DEF InService, SamePlace
<1>5. (NoServant' <=> NoServant) /\ (Servant' <=> Servant)
  BY <1>1, <1>4 DEF NoServant, Servant
<1>6. \A v \in Workers : /\ pc'[v] = "next" => pc[v] = "next"
                         /\ Continuing(v)' => Continuing(v)
  BY <1>1, <1>2 DEF SamePlace, Continuing
<1>7. Service'
  BY <1>1, <1>5, <1>6 DEF IInv, Service
<1>8. Closes'
  BY <1>1, <1>2 DEF Closes
<1> QED
  BY <1>2, <1>3, <1>7, <1>8 DEF IInv

\* Worker w, with its request, leaves the service; nobody else is in it.
LEMMA LeavesService ==
    ASSUME IInv, NEW w \in Workers, InService(w), Moves(w), ~InService(w)',
           \A v \in Workers \ {w} : SamePlace(v), tasks' = tasks
    PROVE  NoServant' /\ ~Servant' /\ requests # <<>>
<1>1. ~NoServant
  BY DEF NoServant
<1>2. tasks = 0 /\ requests # <<>> /\ \A v \in Workers \ {w} : ~InService(v)
  BY <1>1 DEF IInv, Service, Servant
<1> QED
  BY <1>2 DEF SamePlace, NoServant, Servant

LEMMA DropStep ==
    ASSUME IInv, NEW w \in Workers, drop_requests(w)
    PROVE  IInv'
<1>1. /\ pc[w] = "drop" /\ pc[w] \notin InFlush /\ pc' = [pc EXCEPT ![w] = "last"]
      /\ requests' = <<>> /\ requests_lock' = None
      /\ UNCHANGED <<connected, tasks, flush>> /\ IsSequence(requests)'
  BY NoneYet DEF drop_requests, Go, InFlush
<1>2. /\ Moves(w) /\ pc'[w] = "last" /\ flush[w].ctx # "continue" /\ w \in Threads
      /\ \A v \in Workers \ {w} : SamePlace(v)
      /\ Shapes' /\ Main \notin Workers /\ None \notin Threads /\ Main \in Threads
  BY <1>1, WorkerMoves DEF Threads
<1>3. flush'[w].ctx # "continue" /\ ~HoldsRequests(w)'
  BY <1>1, <1>2 DEF HoldsRequests, Continuing
<1>4. requests_lock = w
  BY <1>1, <1>2 DEF IInv, LockIsHeld, HoldsRequests
<1>5. LockIsHeld'
  BY <1>1, <1>2, <1>3, <1>4, LockMoves
<1>6. InService(w) /\ ~InService(w)'
  BY <1>1, <1>2 DEF InService
<1>7. NoServant' /\ ~Servant'
  BY <1>1, <1>2, <1>6, LeavesService
<1>8. Service' /\ Closes'
  BY <1>1, <1>2, <1>7 DEF Service, Closes
<1> QED
  BY <1>2, <1>5, <1>8 DEF IInv

LEMMA PopStep ==
    ASSUME IInv, NEW w \in Workers, pop_request(w)
    PROVE  IInv'
<1>1. /\ pc[w] = "pop" /\ pc[w] \notin InFlush /\ pc' = [pc EXCEPT ![w] = "next"]
      /\ requests' = Tail(requests) /\ requests_lock = None /\ requests_lock' = w
      /\ UNCHANGED <<connected, tasks, flush>>
  BY DEF pop_request, Go, InFlush
<1>2. InService(w) /\ w \in Threads
  BY <1>1 DEF InService, IInv, Shapes, Threads, InFlush
<1>3. ~NoServant
  BY <1>2 DEF NoServant
<1>4. requests # <<>> /\ IsSequence(requests)
  BY <1>3 DEF IInv, Service, Shapes
<1>5. IsSequence(requests)'
  BY <1>1, <1>4, Shortened
<1>6. /\ Moves(w) /\ pc'[w] = "next" /\ flush[w].ctx # "continue"
      /\ \A v \in Workers \ {w} : SamePlace(v)
      /\ Shapes' /\ Main \notin Workers /\ None \notin Threads /\ Main \in Threads
  BY <1>1, <1>5, WorkerMoves DEF Threads
<1>7. LockIsHeld'
  BY <1>1, <1>2, <1>6, LockMoves DEF HoldsRequests
<1>8. NoServant' /\ ~Servant'
  <2>1. ~InService(w)'
    BY <1>6 DEF InService
  <2> QED
    BY <1>1, <1>2, <1>6, <2>1, LeavesService
<1>9. \A v \in Workers : ~Continuing(v)'
  <2>1. \A v \in Workers : ~Continuing(v)
    BY <1>3 DEF IInv, Service
  <2> QED
    BY <1>1, <1>6, <2>1 DEF SamePlace, Continuing
<1>10. Service' /\ Closes'
  BY <1>1, <1>6, <1>8, <1>9 DEF Service, Closes
<1> QED
  BY <1>6, <1>7, <1>10 DEF IInv

\* The lock is released with a task, with nothing to do, or kept for a continue.
LEMMA NextStep ==
    ASSUME IInv, NEW w \in Workers, next_request(w)
    PROVE  IInv'
<1>1. /\ pc[w] = "next" /\ pc[w] \notin InFlush
      /\ UNCHANGED <<requests, connected, flush>> /\ AboutToClose' = AboutToClose
      /\ IsSequence(requests)'
  BY DEF next_request, shared, InFlush, AboutToClose, IInv, Shapes
<1>2. PICK p \in {"last", "continue"} :
          /\ pc' = [pc EXCEPT ![w] = p]
          /\ requests_lock' = IF p = "last" THEN None ELSE requests_lock
          /\ \/ connected /\ requests # <<>> /\ tasks' = tasks + 1 /\ p = "last"
             \/ connected /\ requests = <<>> /\ tasks' = tasks
             \/ ~connected /\ tasks' = tasks /\ p = "last"
  BY DEF next_request, Go
<1>3. /\ Moves(w) /\ pc'[w] = p /\ flush[w].ctx # "continue" /\ w \in Threads
      /\ \A v \in Workers \ {w} : SamePlace(v)
      /\ Shapes' /\ Main \notin Workers /\ None \notin Threads /\ Main \in Threads
  BY <1>1, <1>2, WorkerMoves DEF Threads
<1>4. requests_lock = w
  BY <1>1, <1>3 DEF IInv, LockIsHeld, HoldsRequests
<1>5. flush'[w].ctx # "continue"
  BY <1>1, <1>3
<1>6. LockIsHeld'
  <2>1. HoldsRequests(w)' <=> requests_lock' = w
    BY <1>2, <1>3, <1>4, <1>5 DEF HoldsRequests, Continuing
  <2> QED
    BY <1>2, <1>3, <1>4, <2>1, LockMoves
<1>7. NoServant /\ ~InService(w)' /\ \A v \in Workers : ~InService(v)'
  <2>1. NoServant
    BY <1>1 DEF IInv, Service
  <2>2. ~InService(w)'
    BY <1>2, <1>3 DEF InService
  <2> QED
    BY <1>3, <2>1, <2>2 DEF NoServant, SamePlace
<1>8. /\ tasks' = tasks + 1 => Servant'
      /\ tasks' = tasks => NoServant' /\ ~Servant'
  BY <1>7 DEF NoServant, Servant
<1>9. \A v \in Workers \ {w} : ~Continuing(v)' /\ pc'[v] # "next"
  <2>1. \A v \in Workers \ {w} : ~HoldsRequests(v)
    BY <1>3, <1>4 DEF IInv, LockIsHeld, Threads
  <2> QED
    BY <1>3, <2>1 DEF SamePlace, HoldsRequests
<1>10. Continuing(w)' <=> p = "continue"
  BY <1>3, <1>5 DEF Continuing
<1>11. pc'[w] # "next"
  BY <1>2, <1>3
<1>12. Service'
  <2>1. CASE tasks' = tasks + 1 /\ p = "last" /\ requests # <<>>
    BY <1>1, <1>8, <1>9, <1>10, <1>11, <2>1 DEF Service
  <2>2. CASE tasks' = tasks /\ p = "last" /\ (requests = <<>> \/ ~connected)
    BY <1>1, <1>8, <1>9, <1>10, <1>11, <2>2 DEF Service
  <2>3. CASE tasks' = tasks /\ p = "continue" /\ requests = <<>>
    BY <1>1, <1>8, <1>9, <1>10, <1>11, <2>3 DEF Service
  <2> QED
    BY <1>2, <2>1, <2>2, <2>3
<1>13. Closes'
  BY <1>2, <1>3, <1>4 DEF Closes
<1> QED
  BY <1>3, <1>6, <1>12, <1>13 DEF IInv

LEMMA EndsStep ==
    ASSUME IInv, NEW w \in Workers, service_ends(w)
    PROVE  IInv'
<1>1. /\ pc[w] = "last" /\ pc[w] \notin InFlush /\ pc' = [pc EXCEPT ![w] = "idle"]
      /\ UNCHANGED <<requests, tasks, requests_lock, connected, flush>>
      /\ AboutToClose' = AboutToClose /\ IsSequence(requests)'
  BY DEF service_ends, Go, shared, locks, InFlush, AboutToClose, IInv, Shapes
<1>2. /\ Moves(w) /\ pc'[w] = "idle" /\ flush[w].ctx # "continue"
      /\ \A u \in Threads \ {w} : SamePlace(u)
  BY <1>1, WorkerMoves
<1>3. SamePlace(w)
  BY <1>1, <1>2 DEF SamePlace, HoldsRequests, Continuing, InService
<1>4. \A u \in Threads : SamePlace(u)
  BY <1>2, <1>3
<1> QED
  BY <1>1, <1>2, <1>4, AllStay DEF Moves, FlagsKept

\* cancel(), without the lock: the channel is in the queue, so no worker has it.
LEMMA ShutdownStep ==
    ASSUME IInv, shutdown
    PROVE  IInv'
<1>1. /\ pc[Main] = "stopping" /\ pc[Main] \notin InFlush /\ Plain(pc[Main])
      /\ pc' = [pc EXCEPT ![Main] = "stopped"] /\ Plain("stopped")
      /\ UNCHANGED <<requests_lock, flush>> /\ Main \in Threads /\ Main \notin Workers
  BY ThreadsDistinct DEF shutdown, Go, locks, InFlush, Plain, Threads
<1>2. CASE tasks > 0
  <2>1. tasks' = 0 /\ ~connected' /\ requests' = <<>>
    BY <1>2 DEF shutdown
  <2>2. Servant /\ ~NoServant /\ \A w \in Workers : ~InService(w)
    BY <1>2 DEF IInv, Service, NoServant, Servant
  <2>3. Moves(Main) /\ pc'[Main] = "stopped" /\ flush[Main].ctx # "continue"
    BY <1>1, OneMoves DEF IInv, Shapes
  <2>4. /\ \A w \in Workers : SamePlace(w)
        /\ (\A w \in Workers : ~InService(w))' <=> \A w \in Workers : ~InService(w)
    BY <2>3, WorkersStay
  <2>5. NoServant' /\ ~Servant'
    BY <2>1, <2>2, <2>4 DEF NoServant, Servant
  <2>6. SamePlace(Main)
    BY <1>1, <2>3, PlainStays DEF IInv
  <2>7. Shapes' /\ LockIsHeld'
    BY <1>1, <2>1, <2>3, <2>4, <2>6, NoneYet
    DEF IInv, Shapes, LockIsHeld, Moves, SamePlace, Threads
  <2>8. Service'
    BY <2>1, <2>2, <2>4, <2>5 DEF IInv, Service, SamePlace
  <2>9. Closes'
    BY <1>1, <2>3 DEF Closes, IInv, LockIsHeld, HoldsRequests, Continuing
  <2> QED
    BY <2>7, <2>8, <2>9 DEF IInv
<1>3. CASE ~(tasks > 0)
  <2>1. PICK p \in {"stopped"} : Plain(p) /\ pc' = [pc EXCEPT ![Main] = p]
    BY <1>1
  <2>2. UNCHANGED <<requests, tasks, connected>>
    BY <1>3 DEF shutdown
  <2> QED
    BY <1>1, <2>1, <2>2, OutsideStep
<1> QED
  BY <1>2, <1>3

----------------------------------------------------------------------------
LEMMA InvInit == Init => IInv
<1> SUFFICES ASSUME Init PROVE IInv
  OBVIOUS
<1>1. /\ DOMAIN pc = Threads /\ DOMAIN flush = Threads
      /\ \A t \in Threads : /\ pc[t] \in {"poll", "idle"} /\ flush[t].ctx = ""
                            /\ DOMAIN flush[t] = FlushFields
      /\ \A w \in Workers : w \in Threads /\ pc[w] = "idle"
      /\ requests = <<>> /\ tasks = 0 /\ requests_lock = None
  BY ThreadsDistinct DEF Init, Threads, FlushFields
<1>2. Shapes
  BY <1>1, NoneYet DEF Shapes
<1>3. None \notin Threads /\ Main \in Threads
  BY ThreadsDistinct DEF Threads, None
<1>4. LockIsHeld
  BY <1>1, <1>3 DEF LockIsHeld, HoldsRequests, Continuing
<1>5. NoServant /\ ~Servant
  <2>1. \A w \in Workers : ~InService(w)
    BY <1>1 DEF InService
  <2>2. tasks = 0
    BY <1>1
  <2> QED
    BY <2>1, <2>2 DEF NoServant, Servant
<1>6. Service
  BY <1>1, <1>5 DEF Service, Continuing
<1>7. Closes
  BY <1>1, <1>3 DEF Closes
<1> QED
  BY <1>2, <1>4, <1>6, <1>7 DEF IInv

LEMMA InvNext == IInv /\ [Next]_vars => IInv'
<1> SUFFICES ASSUME IInv, [Next]_vars PROVE IInv'
  OBVIOUS
<1>1. CASE UNCHANGED vars
  BY <1>1, NothingMoves DEF vars, shared, locks
<1>2. CASE MainStep
  <2>1. Main \in Threads
    BY DEF Threads
  <2> QED
    BY <1>2, <2>1, MainStays, ReceivedStep, ParseStep, QueueStep, ShutdownStep,
       ContinueStep, FlushStep, CloseStep DEF MainStep
<1>3. CASE select_times_out \/ interrupt
  BY <1>3, MainStays
<1>4. ASSUME NEW w \in Workers, WorkerStep(w) PROVE IInv'
  <2>1. w \in Threads
    BY DEF Threads
  <2> QED
    BY <1>4, <2>1, WorkerStays, TakeStep, CloseSoonStep, DropStep, PopStep, NextStep,
       EndsStep, ContinueStep, FlushStep, CloseStep DEF WorkerStep
<1>5. CASE ClientStep
  BY <1>5, NothingMoves
  DEF ClientStep, client_sends, client_reads, client_leaves, time_passes, server, locks
<1> QED
  BY <1>1, <1>2, <1>3, <1>4, <1>5 DEF Next

LEMMA InvAlways == Spec => []IInv
BY InvInit, InvNext, PTL DEF Spec

\* The channel is serviced by one worker at a time, and a request on a live
\* connection is never left without one, for any number of workers, requests and
\* events (channel.py:233-238, 419-516).
THEOREM ServedByOne == Spec => []OneServant
<1>1. IInv => OneServant
  <2> SUFFICES ASSUME IInv PROVE OneServant
    OBVIOUS
  <2> DEFINE W == {w \in Workers : InService(w)}
  <2>1. NoServant => W = {} /\ tasks = 0
    BY DEF NoServant
  <2>2. Servant => (tasks = 1 /\ W = {}) \/ (tasks = 0 /\ \E w : W = {w})
    BY DEF Servant
  <2>3. Cardinality({}) = 0 /\ \A w : Cardinality({w}) = 1
    BY FS_EmptySet, FS_Singleton
  <2>4. NoServant => Servants = 0
    BY <2>1, <2>3 DEF Servants
  <2>5. Servant => Servants = 1
    <3>1. Servants = tasks + Cardinality(W)
      BY DEF Servants
    <3> HIDE DEF W
    <3>2. CASE tasks = 1 /\ W = {}
      BY <2>3, <3>1, <3>2
    <3>3. CASE tasks = 0 /\ \E w : W = {w}
      <4>1. Cardinality(W) = 1
        BY <2>3, <3>3
      <4> QED
        BY <3>1, <3>3, <4>1
    <3> QED
      BY <2>2, <3>2, <3>3
  <2>6. None \notin Workers
    BY ThreadsDistinct DEF None
  <2> QED
    BY <2>4, <2>5, <2>6 DEF IInv, Service, OneServant
<1> QED
  BY <1>1, InvAlways, PTL

\* Once a close was decided and the queue is empty it stays empty, whatever has
\* been read or is being parsed (channel.py:191-245, 465-471).
THEOREM NothingQueuedAfterClose == Spec => NoRequestAfterClose
<1>1. IInv /\ [Next]_vars =>
          ((will_close \/ close_when_flushed) /\ requests = <<>> => requests' = <<>>)
  <2> SUFFICES ASSUME IInv, [Next]_vars, AboutToClose, requests = <<>>
               PROVE  requests' = <<>>
    BY DEF AboutToClose
  <2>1. ~queue_request
    BY DEF queue_request, IInv, Closes, LockIsHeld, HoldsRequests, Threads
  <2>2. \A w \in Workers : ~pop_request(w)
    <3>1. NoServant
      BY DEF IInv, Service
    <3>2. \A w \in Workers : w \in Threads /\ (pc[w] = "pop" => InService(w))
      BY DEF IInv, Shapes, InService, InFlush, Threads
    <3> QED
      BY <3>1, <3>2 DEF pop_request, NoServant
  <2>3. ASSUME NEW t \in Threads,
               flush_some(t) \/ send_continue(t) \/ handle_close(t) \/ dispatcher_close(t)
        PROVE  requests' = <<>>
    <3>1. CASE flush_some(t)
      BY <3>1 DEF flush_some, flush_top, send_some, send_nothing,
         flush_skip, flush_deduct, SentOn,
                  flush_return, flush_raise, shared
    <3>2. CASE send_continue(t) \/ handle_close(t) \/ dispatcher_close(t)
      BY <3>2 DEF send_continue, handle_close, dispatcher_close, shared
    <3> QED
      BY <2>3, <3>1, <3>2
  <2>4. CASE MainStep
    <3>1. CASE server_readable \/ readable \/ writable \/ enter_select
               \/ select_returns \/ trigger_read \/ handle_read
      BY <3>1 DEF server_readable, readable, writable, enter_select,
                  select_returns, trigger_read, handle_read, shared
    <3>2. CASE received \/ parse \/ handle_write \/ after_flush \/ shutdown
      BY <3>2 DEF received, parse, handle_write, after_flush, shutdown, shared
    <3> QED
      BY <2>1, <2>3, <2>4, <3>1, <3>2 DEF MainStep, Threads
  <2>5. ASSUME NEW w \in Workers, WorkerStep(w) PROVE requests' = <<>>
    <3>1. CASE take_task(w) \/ service_start(w) \/ app_writes(w) \/ app_raises(w)
               \/ write_soon(w) \/ put(w) \/ wait_returns(w) \/ finish(w)
      BY <3>1 DEF take_task, service_start, app_writes, app_raises, write_soon,
                  put, wait_returns, finish, shared
    <3>2. CASE flush_before_next(w) \/ close_soon(w) \/ drop_requests(w)
               \/ next_request(w) \/ service_ends(w)
      BY <3>2 DEF flush_before_next, close_soon, drop_requests, next_request,
                  service_ends, shared
    <3> QED
      BY <2>2, <2>3, <2>5, <3>1, <3>2 DEF WorkerStep, Threads
  <2>6. CASE ClientStep \/ select_times_out \/ interrupt \/ UNCHANGED vars
    BY <2>6 DEF ClientStep, client_sends, client_reads, client_leaves, time_passes,
                server, select_times_out, interrupt, vars, shared
  <2> QED
    BY <2>4, <2>5, <2>6 DEF Next
<1> QED
  BY <1>1, InvAlways, PTL DEF Spec, NoRequestAfterClose

----------------------------------------------------------------------------
(* Who uses the output buffers, who holds outbuf_lock, and which descriptors *)
(* reach select().  This is for behaviours in which nobody but main sends a  *)
(* 100 Continue, and main only on an open channel: the findings about        *)
(* send_continue show that none of it holds without that.                    *)

\* No continue is sent by a worker, or on a channel that was closed meanwhile.
ContinuesInTime == \A t \in Threads : pc[t] = "continue" => t = Main /\ connected

HoldsOutbufs(t) ==
    pc[t] = "put" \/ (pc[t] \in InFlush /\ flush[t].ctx # "unlocked")

\* outbuf_lock is held where the code says so.
OutLockIsHeld == \A t \in Threads : HoldsOutbufs(t) <=> outbuf_lock = t

\* Nobody is between skip() and `-=`, or would find the buffers in use.
MainPlaces ==
    (InFlush \ {"deduct"}) \union
    {"poll", "readable", "writable", "select", "blocked", "drain", "read",
     "received", "parse", "queue", "continue", "write", "after", "close",
     "close2", "stopping", "stopped"}

\* In particular a worker never closes, and main never crashes.
WorkerPlaces ==
    {"idle", "service", "app", "write_soon", "put", "waiting", "relock", "finish",
     "flush_fin", "close_soon", "drop", "pop", "next", "last",
     "top", "send", "skip", "flushed", "raised"}

\* Each thread is where it can be, and flushes for a caller that it can have.
InPlace(t) ==
    IF t = Main
    THEN /\ pc[t] \in MainPlaces
         /\ pc[t] \in InFlush => flush[t].ctx \in {"unlocked", "lockable", "continue"}
    ELSE /\ pc[t] \in WorkerPlaces
         /\ pc[t] \in InFlush => flush[t].ctx \in {"write", "hwm", "hwm_fin"}
         /\ pc[t] \in {"waiting", "relock"} => flush[t].ctx \in {"hwm", "hwm_fin"}

\* handle_write's "there are no running tasks".
UnlockedAlone ==
    pc[Main] \in InFlush /\ flush[Main].ctx = "unlocked" => requests = <<>>

\* What readable() and writable() found out about the socket is still true.
SelectsOpen ==
    /\ pc[Main] = "writable" => sock = "open"
    /\ pc[Main] = "select" /\ (ready.r \/ ready.w) => sock = "open"

FInv == OutLockIsHeld /\ (\A t \in Threads : InPlace(t)) /\ UnlockedAlone /\ SelectsOpen

----------------------------------------------------------------------------
(* Where the steps of the flush take a thread *)

\* t goes to p, for the same caller.
Within(t, p) == Moves(t) /\ pc'[t] = p /\ flush'[t].ctx = flush[t].ctx

\* t leaves the flush, to p.
Leaves(t, p) == Moves(t) /\ pc'[t] = p /\ flush'[t].ctx = ""

LEMMA ThreadKinds ==
    /\ Main \in Threads /\ Main \notin Workers /\ None \notin Threads
    /\ \A w \in Workers : w \in Threads /\ w # Main
    /\ \A t \in Threads : t # Main => t \in Workers
BY ThreadsDistinct DEF Threads, None

LEMMA TopMoves ==
    ASSUME Shapes, NEW t \in Threads, flush_top(t)
    PROVE  pc[t] = "top" /\ \E p \in {"flushed", "send"} : Within(t, p)
<1>1. PICK n, m : flush' = [flush EXCEPT ![t].ref = n, ![t].len = m]
  BY DEF flush_top
<1>2. pc[t] = "top" /\ \E p \in {"flushed", "send"} : pc' = [pc EXCEPT ![t] = p]
  BY DEF flush_top, Go
<1>3. Moves(t) /\ flush'[t].ctx = flush[t].ctx
  BY <1>1, <1>2 DEF Moves, Shapes, FlushFields
<1> QED
  BY <1>2, <1>3 DEF Within, Shapes

LEMMA SendMoves ==
    ASSUME Shapes, NEW t \in Threads, send_some(t) \/ send_nothing(t)
    PROVE  /\ pc[t] = "send"
           /\ \/ \E p \in {"skip", "flushed", "raised"} : Within(t, p)
              \/ DoClose(t) /\ Within(t, "fclose")
<1>1. flush' = flush \/ \E n : flush' = [flush EXCEPT ![t].num = n]
  BY DEF send_some, send_nothing
<1>2. /\ pc[t] = "send"
      /\ \/ \E p \in {"skip", "flushed", "raised"} : pc' = [pc EXCEPT ![t] = p]
         \/ DoClose(t) /\ pc' = [pc EXCEPT ![t] = "fclose"]
  BY DEF send_some, send_nothing, Go
<1>3. Moves(t) /\ flush'[t].ctx = flush[t].ctx
  BY <1>1, <1>2 DEF Moves, Shapes, FlushFields
<1> QED
  BY <1>2, <1>3 DEF Within, Shapes

LEMMA SkipMoves ==
    ASSUME Shapes, NEW t \in Threads, flush_skip(t) \/ flush_deduct(t)
    PROVE  /\ pc[t] \in {"skip", "deduct"}
           /\ \E p \in {"raised", "send", "top", "deduct"} : Within(t, p)
           /\ flush_deduct(t) => pc[t] = "deduct"
           /\ pc'[t] = "deduct" => flush_skip(t) /\ Racing(t)
<1> DEFINE After(n, m) == [flush EXCEPT ![t].len = n, ![t].num = m, ![t].sent = TRUE]
           Kept == /\ DOMAIN flush' = Threads /\ DOMAIN flush'[t] = FlushFields
                   /\ flush'[t].ctx = flush[t].ctx
                   /\ \A u \in Threads \ {t} : flush'[u] = flush[u]
<1>1. flush' = flush \/ \E n, m : flush' = After(n, m)
  BY DEF flush_skip, flush_deduct, SentOn
<1>2. /\ pc[t] \in {"skip", "deduct"}
      /\ flush_deduct(t) => pc[t] = "deduct"
      /\ \E p \in {"raised", "send", "top", "deduct"} :
            /\ pc' = [pc EXCEPT ![t] = p]
            /\ p = "deduct" => flush_skip(t) /\ Racing(t)
  BY DEF flush_skip, flush_deduct, SentOn, Go
<1>3. ASSUME flush' = flush PROVE Kept
  BY <1>3 DEF Shapes
<1>4. ASSUME NEW n, NEW m, flush' = After(n, m) PROVE Kept
  <2> DEFINE g == [[[flush[t] EXCEPT !.len = n] EXCEPT !.num = m] EXCEPT !.sent = TRUE]
  <2>1. DOMAIN g = FlushFields /\ g.ctx = flush[t].ctx
    BY DEF Shapes, FlushFields
  <2>2. flush' = [flush EXCEPT ![t] = g]
    BY <1>4 DEF Shapes
  <2> QED
    BY <2>1, <2>2 DEF Shapes
<1>5. Kept
  <2> HIDE DEF After, Kept
  <2> QED
    BY <1>1, <1>3, <1>4
<1>6. Moves(t) /\ flush'[t].ctx = flush[t].ctx
  BY <1>2, <1>5 DEF Moves, Shapes
<1> QED
  BY <1>2, <1>6 DEF Within, Shapes

LEMMA IdleFlush ==
    ASSUME Shapes, NEW t \in Threads, flush' = [flush EXCEPT ![t] = Idle]
    PROVE  flush'[t].ctx = ""
BY DEF Shapes, Idle

\* Where _flush_some returns to.
LEMMA ReturnMoves ==
    ASSUME Shapes, NEW t \in Threads, flush_return(t)
    PROVE  /\ pc[t] = "flushed"
           /\ \/ /\ flush[t].ctx = "unlocked" /\ Leaves(t, "after")
                 /\ UNCHANGED outbuf_lock
              \/ flush[t].ctx = "lockable" /\ Leaves(t, "after") /\ outbuf_lock' = None
              \/ /\ flush[t].ctx = "continue" /\ outbuf_lock' = None
                 /\ Leaves(t, IF t = Main THEN "queue" ELSE "last")
              \/ flush[t].ctx = "write" /\ Leaves(t, "app") /\ outbuf_lock' = None
              \/ flush[t].ctx = "hwm" /\ Leaves(t, "put") /\ outbuf_lock' = t
              \/ flush[t].ctx = "hwm_fin" /\ Leaves(t, "pop") /\ outbuf_lock' = None
              \/ /\ flush[t].ctx \in {"hwm", "hwm_fin"} /\ outbuf_lock' = None
                 /\ Within(t, "waiting") /\ connected
<1>1. pc[t] = "flushed" /\ pc[t] # "waiting" /\ FlushReturned(t)
  BY DEF flush_return
<1>2. ASSUME NEW p, \/ pc' = [pc EXCEPT ![t] = p]
                    \/ pc' = Notify([pc EXCEPT ![t] = p]),
             flush' = [flush EXCEPT ![t] = Idle]
      PROVE  Leaves(t, p)
  BY <1>1, <1>2, OneMoves, NotifyMoves, IdleFlush DEF Leaves
<1>3. CASE flush[t].ctx = "unlocked"
  BY <1>1, <1>2, <1>3 DEF FlushReturned, Go, locks
<1>4. CASE flush[t].ctx = "lockable"
  <2>1. \/ pc' = [pc EXCEPT ![t] = "after"]
        \/ pc' = Notify([pc EXCEPT ![t] = "after"])
    BY <1>1, <1>4 DEF FlushReturned
  <2> QED
    BY <1>1, <1>2, <1>4, <2>1 DEF FlushReturned
<1>5. CASE flush[t].ctx = "continue"
  BY <1>1, <1>2, <1>5 DEF FlushReturned, Go
<1>6. CASE flush[t].ctx = "write"
  BY <1>1, <1>2, <1>6 DEF FlushReturned, Go
<1>7. CASE flush[t].ctx \in {"hwm", "hwm_fin"}
  <2>1. TestHwm(t)
    BY <1>1, <1>7 DEF FlushReturned
  <2>2. CASE connected /\ total > Hwm
    <3>1. pc' = [pc EXCEPT ![t] = "waiting"] /\ flush' = flush /\ outbuf_lock' = None
      BY <2>1, <2>2 DEF TestHwm, PauseAtHwm, Go
    <3> QED
      BY <1>7, <1>1, <2>2, <3>1, OneMoves DEF Within
  <2>3. CASE ~(connected /\ total > Hwm)
    <3>1. BelowHwm(t) /\ flush' = [flush EXCEPT ![t] = Idle]
      BY <2>1, <2>3 DEF TestHwm
    <3> QED
      BY <1>1, <1>2, <1>7, <3>1 DEF BelowHwm, Go
  <2> QED
    BY <2>2, <2>3
<1> QED
  BY <1>1, <1>3, <1>4, <1>5, <1>6, <1>7 DEF FlushReturned

\* Where an exception in _flush_some leads to.
LEMMA RaiseMoves ==
    ASSUME Shapes, NEW t \in Threads, flush_raise(t)
    PROVE  /\ pc[t] = "raised"
           /\ \/ /\ flush[t].ctx = "unlocked" /\ Leaves(t, "after")
                 /\ UNCHANGED outbuf_lock
              \/ flush[t].ctx = "lockable" /\ Leaves(t, "after") /\ outbuf_lock' = None
              \/ flush[t].ctx = "write" /\ Leaves(t, "app") /\ outbuf_lock' = None
              \/ /\ flush[t].ctx \in {"hwm", "hwm_fin"} /\ outbuf_lock' = None
                 /\ Within(t, "waiting")
              \/ /\ flush[t].ctx = "continue" /\ outbuf_lock' = None
                 /\ Leaves(t, IF t = Main THEN "close" ELSE "idle")
<1>1. pc[t] = "raised" /\ FlushRaised(t)
  BY DEF flush_raise
<1>2. ASSUME NEW p, pc' = [pc EXCEPT ![t] = p], flush' = [flush EXCEPT ![t] = Idle]
      PROVE  Leaves(t, p)
  BY <1>2, OneMoves, IdleFlush DEF Leaves
<1>3. CASE flush[t].ctx = "unlocked"
  BY <1>1, <1>2, <1>3 DEF FlushRaised, Go
<1>4. CASE flush[t].ctx = "lockable"
  BY <1>1, <1>2, <1>4 DEF FlushRaised, Go
<1>5. CASE flush[t].ctx = "write"
  BY <1>1, <1>2, <1>5 DEF FlushRaised, Go
<1>6. CASE flush[t].ctx \in {"hwm", "hwm_fin"}
  <2>1. pc' = [pc EXCEPT ![t] = "waiting"] /\ flush' = flush /\ outbuf_lock' = None
    BY <1>1, <1>6 DEF FlushRaised, PauseAtHwm, Go
  <2> QED
    BY <1>1, <1>6, <2>1, OneMoves DEF Within
<1>7. CASE flush[t].ctx = "continue"
  BY <1>1, <1>2, <1>7 DEF FlushRaised, Go
<1> QED
  BY <1>1, <1>3, <1>4, <1>5, <1>6, <1>7 DEF FlushRaised

LEMMA CloseMoves ==
    ASSUME Shapes, NEW t \in Threads, handle_close(t)
    PROVE  \/ pc[t] = "close" /\ Within(t, "close2")
           \/ pc[t] = "fclose" /\ Within(t, "fclose2")
<1>1. pc[t] \in {"close", "fclose"} /\ pc[t] # "waiting" /\ flush' = flush
  BY DEF handle_close
<1>2. pc' = Notify([pc EXCEPT ![t] = IF pc[t] = "close" THEN "close2" ELSE "fclose2"])
  <2>1. [pc EXCEPT ![t] = IF @ = "close" THEN "close2" ELSE "fclose2"]
            = [pc EXCEPT ![t] = IF pc[t] = "close" THEN "close2" ELSE "fclose2"]
    OBVIOUS
  <2> QED
    BY <2>1 DEF handle_close
<1>3. Moves(t) /\ pc'[t] = IF pc[t] = "close" THEN "close2" ELSE "fclose2"
  BY <1>1, <1>2, NotifyMoves
<1> QED
  BY <1>1, <1>3 DEF Within

LEMMA DispatcherCloseMoves ==
    ASSUME Shapes, NEW t \in Threads, dispatcher_close(t)
    PROVE  \/ pc[t] = "close2" /\ Within(t, "poll")
           \/ pc[t] = "fclose2" /\ Within(t, "flushed")
<1>1. /\ pc[t] \in {"close2", "fclose2"} /\ flush' = flush
      /\ pc' = [pc EXCEPT ![t] = IF pc[t] = "fclose2" THEN "flushed" ELSE "poll"]
  BY DEF dispatcher_close, Go
<1>2. Moves(t) /\ pc'[t] = IF pc[t] = "fclose2" THEN "flushed" ELSE "poll"
  BY <1>1, OneMoves
<1> QED
  BY <1>1, <1>2 DEF Within

LEMMA ContinueMoves ==
    ASSUME Shapes, NEW t \in Threads, send_continue(t)
    PROVE  /\ pc[t] = "continue" /\ Moves(t) /\ pc'[t] \in {"top", "raised"}
           /\ flush'[t].ctx = "continue"
           /\ outbuf_lock = None /\ outbuf_lock' = t
<1>1. /\ pc[t] = "continue" /\ flush' = [flush EXCEPT ![t].ctx = "continue"]
      /\ outbuf_lock = None /\ outbuf_lock' = t
  BY DEF send_continue, StartFlush
<1>2. PICK p \in {"top", "raised"} : pc' = [pc EXCEPT ![t] = p]
  BY DEF send_continue, Go
<1>3. Moves(t) /\ pc'[t] = p
  BY <1>1, <1>2, OneMoves
<1>4. flush'[t].ctx = "continue"
  BY <1>1 DEF Shapes, FlushFields
<1> QED
  BY <1>1, <1>3, <1>4

----------------------------------------------------------------------------
(* The invariant is kept *)

\* t uses or takes or releases the lock; nobody else is concerned.
LockFollows(t) ==
    \/ outbuf_lock' = outbuf_lock /\ (HoldsOutbufs(t)' <=> HoldsOutbufs(t))
    \/ /\ outbuf_lock \in {None, t} /\ outbuf_lock' \in {None, t}
       /\ HoldsOutbufs(t)' <=> outbuf_lock' = t

LEMMA OthersKept ==
    ASSUME Shapes, OutLockIsHeld, \A u \in Threads : InPlace(u),
           NEW t \in Threads, Moves(t), InPlace(t)', LockFollows(t)
    PROVE  OutLockIsHeld' /\ (\A u \in Threads : InPlace(u))'
<1>1. \A u \in Threads \ {t} : InPlace(u)'
  BY DEF Moves, InPlace, InFlush, WorkerPlaces, MainPlaces
<1>2. \A u \in Threads \ {t} : HoldsOutbufs(u)' <=> HoldsOutbufs(u)
  BY DEF Moves, HoldsOutbufs, InFlush
<1>3. None \notin Threads
  BY ThreadKinds
<1>4. OutLockIsHeld'
  BY <1>2, <1>3 DEF OutLockIsHeld, LockFollows
<1> QED
  BY <1>1, <1>4

LEMMA WorkerKept ==
    ASSUME IInv, FInv, NEW w \in Workers, Moves(w), InPlace(w)', LockFollows(w),
           requests = <<>> => requests' = <<>>, UNCHANGED <<ready, sock>>
    PROVE  FInv'
<1>1. w \in Threads /\ Main \in Threads \ {w}
  BY ThreadKinds
<1>2. OutLockIsHeld' /\ (\A u \in Threads : InPlace(u))'
  BY <1>1, OthersKept DEF IInv, FInv
<1>3. pc'[Main] = pc[Main] /\ flush'[Main] = flush[Main]
  BY <1>1 DEF Moves, FInv, InPlace, MainPlaces, InFlush
<1> QED
  BY <1>2, <1>3 DEF FInv, UnlockedAlone, SelectsOpen

\* Main in the flush, or where neither the flush nor select() is near.
LEMMA MainKept ==
    ASSUME IInv, FInv, Moves(Main), InPlace(Main)', LockFollows(Main),
           pc'[Main] \notin {"writable", "select"},
           \/ pc'[Main] \notin InFlush
           \/ flush'[Main].ctx # "unlocked"
           \/ /\ pc[Main] \in InFlush /\ flush'[Main].ctx = flush[Main].ctx
              /\ requests' = requests
    PROVE  FInv'
<1>1. OutLockIsHeld' /\ (\A u \in Threads : InPlace(u))'
  BY ThreadKinds, OthersKept DEF IInv, FInv
<1> QED
  BY <1>1 DEF FInv, UnlockedAlone, SelectsOpen

\* Steps within the flush, for the same caller and with the same lock.
LEMMA WithinKept ==
    ASSUME IInv, FInv, NEW t \in Threads, NEW p \in InFlush \ {"deduct"}, Within(t, p),
           pc[t] \in InFlush, t # Main => p \in WorkerPlaces,
           UNCHANGED <<requests, ready, sock, outbuf_lock>>
    PROVE  FInv'
<1>1. pc'[t] = p /\ flush'[t].ctx = flush[t].ctx /\ Moves(t)
  BY DEF Within
<1>2. InPlace(t)'
  BY <1>1 DEF FInv, InPlace, MainPlaces, WorkerPlaces, InFlush
<1>3. LockFollows(t)
  BY <1>1 DEF LockFollows, HoldsOutbufs, InFlush
<1>4. p \notin {"writable", "select"}
  BY DEF InFlush
<1> QED
  BY <1>1, <1>2, <1>3, <1>4, WorkerKept, MainKept, ThreadKinds

LEMMA OneUser ==
    ASSUME IInv, FInv, NEW t \in Threads, NEW u \in Threads,
           UsingOutbufs(t), UsingOutbufs(u)
    PROVE  t = u
<1>1. \A v \in Threads : UsingOutbufs(v) /\ ~HoldsOutbufs(v) =>
                            v = Main /\ requests = <<>>
  BY DEF UsingOutbufs, Flushing, HoldsOutbufs, InFlush, FInv, InPlace, UnlockedAlone
<1>2. \A w \in Workers : UsingOutbufs(w) => requests # <<>>
  <2> SUFFICES ASSUME NEW w \in Workers, UsingOutbufs(w)
               PROVE  requests # <<>>
    OBVIOUS
  <2>1. InService(w)
    BY ThreadKinds DEF UsingOutbufs, Flushing, InService, FInv, InPlace, InFlush,
                       IInv, Shapes
  <2>2. ~NoServant
    BY <2>1 DEF NoServant
  <2> QED
    BY <2>2 DEF IInv, Service
<1>3. CASE HoldsOutbufs(t) /\ HoldsOutbufs(u)
  BY <1>3 DEF FInv, OutLockIsHeld
<1>4. CASE ~HoldsOutbufs(t) \/ ~HoldsOutbufs(u)
  BY <1>1, <1>2, <1>4, ThreadKinds
<1> QED
  BY <1>3, <1>4

\* Only main sends a continue, and who flushes then has the lock.
LEMMA NoRace ==
    ASSUME IInv, FInv, NEW t \in Threads, Flushing(t)
    PROVE  ~Racing(t)
<1> SUFFICES ASSUME NEW u \in Threads \ {t},
                    UsingOutbufs(u) \/ (pc[u] = "continue" /\ outbuf_lock # t)
             PROVE  FALSE
  BY DEF Racing
<1>1. ~UsingOutbufs(u)
  BY OneUser DEF UsingOutbufs
<1>2. u = Main /\ t # Main
  BY <1>1 DEF FInv, InPlace, WorkerPlaces
<1>3. HoldsOutbufs(t)
  BY <1>2 DEF Flushing, HoldsOutbufs, InFlush, FInv, InPlace
<1> QED
  BY <1>1, <1>3 DEF FInv, OutLockIsHeld

\* Nobody is between skip() and `-=`, or gets there, and no update of the total is
\* lost.
Unraced ==
    \A t \in Threads : /\ pc[t] # "deduct" /\ ~Overwritten(t)
                       /\ pc[t] = "skip" => ~Racing(t)

LEMMA NobodyRaces == IInv /\ FInv => Unraced
<1> SUFFICES ASSUME IInv, FInv PROVE Unraced
  OBVIOUS
<1>1. \A t \in Threads : pc[t] # "deduct"
  BY DEF FInv, InPlace, MainPlaces, WorkerPlaces, InFlush
<1> QED
  BY <1>1, NoRace DEF Unraced, Overwritten, Flushing

LEMMA NotContinuing ==
    ASSUME FInv, NEW t \in Threads, t # Main, pc[t] \in InFlush
    PROVE  ~DoClose(t) /\ flush[t].ctx \in {"write", "hwm", "hwm_fin"}
BY DEF FInv, InPlace, DoClose

LEMMA FlushKept ==
    ASSUME IInv, FInv, NEW t \in Threads,
           flush_top(t) \/ send_some(t) \/ send_nothing(t) \/ flush_skip(t)
    PROVE  FInv'
<1>1. Shapes /\ UNCHANGED <<requests, ready, sock, outbuf_lock>>
  BY DEF IInv, flush_top, send_some, send_nothing, flush_skip, SentOn, shared, locks
<1>2. CASE flush_top(t)
  BY <1>1, <1>2, TopMoves, WithinKept DEF InFlush, WorkerPlaces
<1>3. CASE send_some(t) \/ send_nothing(t)
  BY <1>1, <1>3, SendMoves, WithinKept, NotContinuing DEF InFlush, WorkerPlaces
<1>4. CASE flush_skip(t)
  <2>1. pc[t] = "skip"
    BY <1>4 DEF flush_skip
  <2>2. ~Racing(t)
    BY <2>1, NobodyRaces DEF Unraced
  <2>3. \E p \in {"raised", "send", "top"} : Within(t, p)
    BY <1>1, <1>4, <2>2, SkipMoves DEF Within
  <2> QED
    BY <1>1, <2>1, <2>3, WithinKept DEF InFlush, WorkerPlaces
<1> QED
  BY <1>2, <1>3, <1>4

\* The flush ends, or its thread pauses.
LEMMA LeavingKept ==
    ASSUME IInv, FInv, NEW t \in Threads, pc[t] \in InFlush,
           NEW p, Leaves(t, p) \/ Within(t, p),
           p \notin InFlush \union {"writable", "select"},
           t = Main => p \in MainPlaces,
           t # Main => p \in WorkerPlaces,
           p = "waiting" => Within(t, p) /\ flush[t].ctx \in {"hwm", "hwm_fin"},
           p # "relock",
           \/ flush[t].ctx = "unlocked" /\ UNCHANGED outbuf_lock /\ p # "put"
           \/ flush[t].ctx # "unlocked" /\ p # "put" /\ outbuf_lock' = None
           \/ flush[t].ctx # "unlocked" /\ p = "put" /\ outbuf_lock' = t,
           UNCHANGED <<requests, ready, sock>>
    PROVE  FInv'
<1>1. Moves(t) /\ pc'[t] = p /\ (Within(t, p) => flush'[t].ctx = flush[t].ctx)
  BY DEF Leaves, Within
<1>2. InPlace(t)'
  BY <1>1 DEF InPlace
<1>3. HoldsOutbufs(t)' <=> p = "put"
  BY <1>1 DEF HoldsOutbufs
<1>4. HoldsOutbufs(t) <=> flush[t].ctx # "unlocked"
  BY DEF HoldsOutbufs, InFlush
<1>5. LockFollows(t)
  <2>1. None # t
    BY ThreadKinds
  <2>2. HoldsOutbufs(t) => outbuf_lock = t
    BY DEF FInv, OutLockIsHeld
  <2> QED
    BY <1>3, <1>4, <2>1, <2>2 DEF LockFollows
<1> QED
  BY <1>1, <1>2, <1>5, WorkerKept, MainKept, ThreadKinds

LEMMA ReturnKept ==
    ASSUME IInv, FInv, NEW t \in Threads, flush_return(t) \/ flush_raise(t)
    PROVE  FInv'
<1>1. Shapes /\ UNCHANGED <<requests, ready, sock>>
  BY DEF IInv, flush_return, flush_raise, shared
<1>2. pc[t] \in InFlush
  BY <1>1, ReturnMoves, RaiseMoves DEF InFlush
<1>3. IF t = Main THEN flush[t].ctx \in {"unlocked", "lockable", "continue"}
                  ELSE flush[t].ctx \in {"write", "hwm", "hwm_fin"}
  BY <1>2 DEF FInv, InPlace
<1>4. \E p : /\ Leaves(t, p) \/ Within(t, p)
             /\ IF t = Main THEN p \in {"after", "queue", "close"}
                            ELSE p \in {"app", "put", "pop", "waiting"}
             /\ p = "waiting" => Within(t, p) /\ flush[t].ctx \in {"hwm", "hwm_fin"}
             /\ \/ flush[t].ctx = "unlocked" /\ UNCHANGED outbuf_lock /\ p # "put"
                \/ flush[t].ctx # "unlocked" /\ p # "put" /\ outbuf_lock' = None
                \/ flush[t].ctx # "unlocked" /\ p = "put" /\ outbuf_lock' = t
  <2>1. CASE flush_return(t)
    BY <1>1, <1>3, <2>1, ReturnMoves
  <2>2. CASE flush_raise(t)
    BY <1>1, <1>3, <2>2, RaiseMoves
  <2> QED
    BY <2>1, <2>2
<1> QED
  BY <1>1, <1>2, <1>4, LeavingKept DEF MainPlaces, WorkerPlaces, InFlush

LEMMA CloseKept ==
    ASSUME IInv, FInv, NEW t \in Threads, handle_close(t) \/ dispatcher_close(t)
    PROVE  FInv'
<1>1. Shapes /\ UNCHANGED <<requests, outbuf_lock>>
  BY DEF IInv, handle_close, dispatcher_close, shared, locks
<1>2. PICK p \in {"close2", "fclose2", "poll", "flushed"} :
          Within(t, p) /\ (p \in InFlush <=> pc[t] \in InFlush)
  BY <1>1, CloseMoves, DispatcherCloseMoves DEF InFlush
<1>3. t = Main
  <2>1. pc[t] \in {"close", "fclose", "close2", "fclose2"}
    BY <1>1, CloseMoves, DispatcherCloseMoves
  <2> QED
    BY <2>1 DEF FInv, InPlace, WorkerPlaces
<1>4. Moves(t) /\ pc'[t] = p /\ flush'[t].ctx = flush[t].ctx
  BY <1>2 DEF Within
<1>5. InPlace(t)'
  BY <1>2, <1>3, <1>4 DEF FInv, InPlace, MainPlaces, InFlush
<1>6. LockFollows(t)
  <2>1. pc[t] # "put" /\ pc'[t] # "put"
    BY <1>2, <1>3, <1>4 DEF FInv, InPlace, MainPlaces, InFlush
  <2> QED
    BY <1>1, <1>2, <1>4, <2>1 DEF LockFollows, HoldsOutbufs
<1> QED
  BY <1>1, <1>2, <1>3, <1>4, <1>5, <1>6, MainKept

LEMMA ContinueKept ==
    ASSUME IInv, FInv, ContinuesInTime, NEW t \in Threads, send_continue(t)
    PROVE  FInv'
<1>1. /\ pc[t] = "continue" /\ Moves(t) /\ pc'[t] \in {"top", "raised"}
      /\ flush'[t].ctx = "continue"
      /\ outbuf_lock = None /\ outbuf_lock' = t
  BY ContinueMoves DEF IInv
<1>2. t = Main
  BY <1>1 DEF ContinuesInTime
<1>3. InPlace(t)' /\ LockFollows(t)
  BY <1>1, <1>2 DEF InPlace, MainPlaces, InFlush, LockFollows, HoldsOutbufs
<1> QED
  BY <1>1, <1>2, <1>3, MainKept

\* Main outside of the flush, before and after.
LEMMA MainOutside ==
    ASSUME IInv, FInv, NEW p \in MainPlaces \ InFlush, pc[Main] \notin InFlush,
           pc' = [pc EXCEPT ![Main] = p], flush' = flush, UNCHANGED outbuf_lock,
           p = "writable" => sock' = "open",
           p = "select" /\ (ready'.r \/ ready'.w) => sock' = "open"
    PROVE  FInv'
<1>1. Moves(Main) /\ pc'[Main] = p
  BY ThreadKinds, OneMoves DEF IInv
<1>2. InPlace(Main)'
  BY <1>1 DEF InPlace
<1>3. LockFollows(Main)
  BY <1>1, ThreadKinds DEF FInv, InPlace, MainPlaces, InFlush, LockFollows, HoldsOutbufs
<1>4. OutLockIsHeld' /\ (\A u \in Threads : InPlace(u))'
  BY <1>1, <1>2, <1>3, ThreadKinds, OthersKept DEF IInv, FInv
<1> QED
  BY <1>1, <1>4 DEF FInv, UnlockedAlone, SelectsOpen

LEMMA PollKept ==
    ASSUME IInv, FInv,
           \/ server_readable \/ readable \/ writable \/ enter_select
           \/ select_returns \/ select_times_out \/ trigger_read \/ handle_read
           \/ after_flush \/ interrupt \/ shutdown
           \/ received \/ parse \/ queue_request
    PROVE  FInv'
<1>1. flush' = flush /\ UNCHANGED outbuf_lock
  BY DEF server_readable, readable, writable, enter_select, select_returns,
         select_times_out, trigger_read, handle_read, after_flush, interrupt,
         shutdown, received, parse, queue_request, locks
<1>2. CASE readable
  BY <1>1, <1>2, MainOutside DEF readable, Go, MainPlaces, InFlush
<1>3. CASE writable
  <2>1. sock' = "open" /\ pc' = [pc EXCEPT ![Main] = "select"] /\ pc[Main] = "writable"
    BY <1>3 DEF writable, Go, FInv, SelectsOpen
  <2> QED
    BY <1>1, <2>1, MainOutside DEF MainPlaces, InFlush
<1>4. CASE enter_select
  <2>1. ~((ready.r \/ ready.w) /\ sock = "closed") /\ pc[Main] = "select"
    BY <1>4 DEF enter_select, FInv, SelectsOpen
  <2>2. pc' = [pc EXCEPT ![Main] = "blocked"]
    BY <1>4, <2>1 DEF enter_select, Go
  <2> QED
    BY <1>1, <2>1, <2>2, MainOutside DEF MainPlaces, InFlush
<1>5. CASE \/ server_readable \/ select_returns \/ select_times_out \/ trigger_read
           \/ handle_read \/ after_flush \/ interrupt \/ shutdown
           \/ received \/ parse \/ queue_request
  <2>1. pc[Main] \notin InFlush
    BY <1>5 DEF server_readable, select_returns, select_times_out, trigger_read,
                handle_read, after_flush, interrupt, shutdown, received, parse,
                queue_request, InFlush
  <2>2. \E p \in MainPlaces \ (InFlush \union {"writable", "select"}) :
            pc' = [pc EXCEPT ![Main] = p]
    BY <1>5 DEF server_readable, select_returns, select_times_out, trigger_read,
                handle_read, after_flush, interrupt, shutdown, received, parse,
                queue_request, Go, InFlush, MainPlaces
  <2> QED
    BY <1>1, <2>1, <2>2, MainOutside
<1> QED
  BY <1>2, <1>3, <1>4, <1>5

LEMMA HandleWriteKept ==
    ASSUME IInv, FInv, handle_write
    PROVE  FInv'
<1>1. pc[Main] = "write" /\ UNCHANGED <<requests, ready, sock>> /\ Main \in Threads
  BY ThreadKinds DEF handle_write, shared
<1>2. \/ \E p \in {"poll", "after"} : /\ pc' = [pc EXCEPT ![Main] = p]
                                     /\ UNCHANGED <<flush, outbuf_lock>>
      \/ /\ pc' = [pc EXCEPT ![Main] = "top"] /\ UNCHANGED outbuf_lock
         /\ flush' = [flush EXCEPT ![Main].ctx = "unlocked"] /\ requests = <<>>
      \/ /\ pc' = [pc EXCEPT ![Main] = "top"]
         /\ outbuf_lock = None /\ outbuf_lock' = Main
         /\ flush' = [flush EXCEPT ![Main].ctx = "lockable"]
  BY DEF handle_write, Go, StartFlush, NoRunningTasks
<1>3. CASE \E p \in {"poll", "after"} : /\ pc' = [pc EXCEPT ![Main] = p]
                                       /\ UNCHANGED <<flush, outbuf_lock>>
  BY <1>1, <1>3, MainOutside DEF MainPlaces, InFlush
<1>4. ASSUME pc' = [pc EXCEPT ![Main] = "top"],
             NEW c \in {"unlocked", "lockable"}, flush' = [flush EXCEPT ![Main].ctx = c],
             IF c = "unlocked" THEN requests = <<>> /\ UNCHANGED outbuf_lock
                               ELSE outbuf_lock = None /\ outbuf_lock' = Main
      PROVE  FInv'
  <2>1. Moves(Main) /\ pc'[Main] = "top" /\ flush'[Main].ctx = c
    BY <1>1, <1>4, OneMoves DEF IInv, Shapes, FlushFields
  <2>2. InPlace(Main)' /\ LockFollows(Main)
    BY <1>1, <1>4, <2>1
    DEF InPlace, MainPlaces, InFlush, LockFollows, HoldsOutbufs
  <2>3. OutLockIsHeld' /\ (\A u \in Threads : InPlace(u))'
    BY <1>1, <2>1, <2>2, OthersKept DEF IInv, FInv
  <2> QED
    BY <1>1, <1>4, <2>1, <2>3 DEF FInv, UnlockedAlone, SelectsOpen
<1> QED
  BY <1>2, <1>3, <1>4

\* Only main queues; with an empty queue no worker is in service.
LEMMA WorkersQueueNothing ==
    ASSUME IInv, NEW w \in Workers, WorkerStep(w), requests = <<>>
    PROVE  requests' = <<>>
<1>1. ~pop_request(w)
  <2>1. NoServant
    BY DEF IInv, Service
  <2>2. pc[w] = "pop" => InService(w)
    BY ThreadKinds DEF IInv, Shapes, InService, InFlush
  <2> QED
    BY <2>1, <2>2 DEF pop_request, NoServant
<1>2. CASE flush_some(w)
  BY <1>2 DEF flush_some, flush_top, send_some, send_nothing,
     flush_skip, flush_deduct, SentOn,
              flush_return, flush_raise, shared
<1>3. CASE send_continue(w) \/ handle_close(w) \/ dispatcher_close(w)
  BY <1>3 DEF send_continue, handle_close, dispatcher_close, shared
<1>4. CASE take_task(w) \/ service_start(w) \/ app_writes(w) \/ app_raises(w)
           \/ write_soon(w) \/ put(w) \/ wait_returns(w) \/ finish(w)
  BY <1>4 DEF take_task, service_start, app_writes, app_raises, write_soon,
              put, wait_returns, finish, shared
<1>5. CASE flush_before_next(w) \/ close_soon(w) \/ drop_requests(w)
           \/ next_request(w) \/ service_ends(w)
  BY <1>5 DEF flush_before_next, close_soon, drop_requests, next_request,
              service_ends, shared
<1> QED
  BY <1>1, <1>2, <1>3, <1>4, <1>5 DEF WorkerStep

\* A worker that neither uses the buffers nor comes to use them.
LEMMA AsideKept ==
    ASSUME IInv, FInv, NEW w \in Workers, WorkerStep(w),
           NEW p \in WorkerPlaces \ (InFlush \union {"put", "waiting", "relock"}),
           pc[w] \notin InFlush \union {"put"},
           pc' = [pc EXCEPT ![w] = p], flush' = flush,
           UNCHANGED <<outbuf_lock, ready, sock>>
    PROVE  FInv'
<1>1. Moves(w) /\ pc'[w] = p /\ w # Main
  BY ThreadKinds, OneMoves DEF IInv
<1>2. InPlace(w)' /\ LockFollows(w)
  BY <1>1 DEF InPlace, LockFollows, HoldsOutbufs
<1> QED
  BY <1>1, <1>2, WorkersQueueNothing, WorkerKept

LEMMA ServiceKept ==
    ASSUME IInv, FInv, ContinuesInTime', NEW w \in Workers,
           \/ take_task(w) \/ service_start(w) \/ app_writes(w) \/ app_raises(w)
           \/ finish(w) \/ close_soon(w) \/ drop_requests(w) \/ pop_request(w)
           \/ next_request(w) \/ service_ends(w)
    PROVE  FInv'
<1>1. WorkerStep(w) /\ flush' = flush /\ UNCHANGED <<outbuf_lock, ready, sock>>
  BY DEF WorkerStep, take_task, service_start, app_writes, app_raises, finish,
         close_soon, drop_requests, pop_request, next_request, service_ends, locks
<1>2. pc[w] \notin InFlush \union {"put"}
  BY DEF take_task, service_start, app_writes, app_raises, finish, close_soon,
         drop_requests, pop_request, next_request, service_ends, InFlush
<1>3. CASE pc' = pc
  <2>1. requests' = requests
    BY <1>2, <1>3, ThreadKinds DEF take_task, service_start, app_writes, app_raises,
       finish, close_soon, drop_requests, pop_request, next_request, service_ends, Go,
       shared, IInv, Shapes
  <2> QED
    BY <1>1, <1>3, <2>1 DEF FInv, OutLockIsHeld, HoldsOutbufs, InPlace, UnlockedAlone,
       SelectsOpen
<1>4. CASE next_request(w)
  <2>1. \E p \in {"last", "continue"} : pc' = [pc EXCEPT ![w] = p]
    BY <1>4 DEF next_request, Go
  <2>2. pc'[w] # "continue"
    BY ThreadKinds DEF ContinuesInTime
  <2>3. pc' = [pc EXCEPT ![w] = "last"]
    BY <2>1, <2>2, ThreadKinds DEF IInv, Shapes
  <2> QED
    BY <1>1, <1>2, <2>3, AsideKept DEF WorkerPlaces, InFlush
<1>5. CASE /\ pc' # pc
           /\ \/ take_task(w) \/ service_start(w) \/ app_writes(w) \/ app_raises(w)
              \/ finish(w) \/ close_soon(w) \/ drop_requests(w) \/ pop_request(w)
              \/ service_ends(w)
  <2>1. \E p \in {"service", "app", "write_soon", "finish", "close_soon", "flush_fin",
                  "pop", "drop", "last", "next", "idle"} : pc' = [pc EXCEPT ![w] = p]
    BY <1>5 DEF take_task, service_start, app_writes, app_raises, finish,
       close_soon, drop_requests, pop_request, service_ends, Go
  <2> QED
    BY <1>1, <1>2, <2>1, AsideKept DEF WorkerPlaces, InFlush
<1> QED
  BY <1>3, <1>4, <1>5

\* A worker that takes outbuf_lock, works with it, or gives it back.
LEMMA TakesKept ==
    ASSUME IInv, FInv, NEW w \in Workers, WorkerStep(w), pc[w] \notin InFlush,
           NEW p \in {"put", "top", "waiting", "app", "finish", "pop"}, Moves(w), pc'[w] = p,
           p = "top" => flush'[w].ctx \in {"write", "hwm", "hwm_fin"},
           p = "waiting" => flush'[w].ctx \in {"hwm", "hwm_fin"},
           outbuf_lock \in {None, w},
           outbuf_lock' = (IF p \in {"put", "top"} THEN w ELSE None),
           UNCHANGED <<ready, sock>>
    PROVE  FInv'
<1>1. InPlace(w)'
  BY ThreadKinds DEF InPlace, WorkerPlaces, InFlush
<1>2. LockFollows(w)
  BY ThreadKinds DEF LockFollows, HoldsOutbufs, InFlush
<1> QED
  BY <1>1, <1>2, WorkersQueueNothing, WorkerKept

LEMMA WritingKept ==
    ASSUME IInv, FInv, NEW w \in Workers,
           write_soon(w) \/ put(w) \/ flush_before_next(w)
    PROVE  FInv'
<1>1. /\ WorkerStep(w) /\ UNCHANGED <<ready, sock>> /\ pc[w] \notin InFlush
      /\ w \in Threads /\ Shapes
  BY ThreadKinds DEF WorkerStep, write_soon, put, flush_before_next, InFlush, IInv
<1>2. outbuf_lock \in {None, w}
  <2>1. pc[w] = "put" => outbuf_lock = w
    BY ThreadKinds DEF FInv, OutLockIsHeld, HoldsOutbufs
  <2> QED
    BY <2>1 DEF write_soon, put, flush_before_next
<1>3. ASSUME NEW c, StartFlush(w, c) PROVE flush'[w].ctx = c
  BY <1>1, <1>3 DEF StartFlush, Shapes, FlushFields
<1>4. CASE write_soon(w)
  <2>1. \/ pc' = [pc EXCEPT ![w] = "top"] /\ StartFlush(w, "hwm") /\ outbuf_lock' = w
        \/ pc' = [pc EXCEPT ![w] = "put"] /\ flush' = flush /\ outbuf_lock' = w
    BY <1>4 DEF write_soon, Go
  <2> QED
    BY <1>1, <1>2, <1>3, <2>1, OneMoves, TakesKept DEF StartFlush
<1>5. CASE put(w)
  <2>1. outbuf_lock = w
    BY <1>5, ThreadKinds DEF put, FInv, OutLockIsHeld, HoldsOutbufs
  <2>2. \/ pc' = [pc EXCEPT ![w] = "top"] /\ StartFlush(w, "write") /\ outbuf_lock' = w
        \/ /\ \E p \in {"app", "finish"} : pc' = [pc EXCEPT ![w] = p]
           /\ flush' = flush /\ outbuf_lock' = None
    BY <1>5, <2>1 DEF put, Go
  <2> QED
    BY <1>1, <1>2, <1>3, <2>2, OneMoves, TakesKept DEF StartFlush
<1>6. CASE flush_before_next(w)
  <2>1. pc' = [pc EXCEPT ![w] = "top"] /\ StartFlush(w, "hwm_fin") /\ outbuf_lock' = w
    BY <1>6 DEF flush_before_next, Go
  <2> QED
    BY <1>1, <1>2, <1>3, <2>1, OneMoves, TakesKept DEF StartFlush
<1> QED
  BY <1>4, <1>5, <1>6

\* What the loop at the watermark may do, with or without the lock held before.
LEMMA PauseOrGo ==
    ASSUME Shapes, NEW t \in Threads, flush[t].ctx \in {"hwm", "hwm_fin"},
           TestHwm(t) \/ (BelowHwm(t) /\ flush' = [flush EXCEPT ![t] = Idle])
    PROVE  /\ Moves(t)
           /\ \/ /\ pc' = [pc EXCEPT ![t] = "waiting"] /\ outbuf_lock' = None
                 /\ flush' = flush /\ connected /\ total > Hwm /\ TestHwm(t)
              \/ pc' = [pc EXCEPT ![t] = "put"] /\ flush[t].ctx = "hwm" /\ outbuf_lock' = t
              \/ pc' = [pc EXCEPT ![t] = "pop"] /\ flush[t].ctx # "hwm" /\ outbuf_lock' = None
<1>1. CASE BelowHwm(t) /\ flush' = [flush EXCEPT ![t] = Idle]
  BY <1>1, OneMoves DEF BelowHwm, Go
<1>2. CASE TestHwm(t) /\ ~(BelowHwm(t) /\ flush' = [flush EXCEPT ![t] = Idle])
  <2>1. /\ pc' = [pc EXCEPT ![t] = "waiting"] /\ outbuf_lock' = None /\ flush' = flush
        /\ connected /\ total > Hwm
    BY <1>2 DEF TestHwm, PauseAtHwm, Go
  <2> QED
    BY <1>2, <2>1, OneMoves
<1> QED
  BY <1>1, <1>2

LEMMA WaitKept ==
    ASSUME IInv, FInv, NEW w \in Workers, wait_returns(w)
    PROVE  FInv'
<1>1. /\ WorkerStep(w) /\ UNCHANGED <<ready, sock>> /\ pc[w] = "relock"
      /\ w \in Threads /\ Shapes /\ outbuf_lock = None
  BY ThreadKinds DEF WorkerStep, wait_returns, IInv
<1>2. TestHwm(w) \/ (BelowHwm(w) /\ flush' = [flush EXCEPT ![w] = Idle])
  <2>1. CASE job[w].exc
    BY <2>1 DEF wait_returns
  <2>2. CASE ~job[w].exc
    BY <2>2 DEF wait_returns
  <2> QED
    BY <2>1, <2>2
<1>3. flush[w].ctx \in {"hwm", "hwm_fin"}
  BY <1>1, ThreadKinds DEF FInv, InPlace
<1>4. PICK p \in {"waiting", "put", "pop"} :
          /\ pc' = [pc EXCEPT ![w] = p] /\ Moves(w)
          /\ outbuf_lock' = (IF p = "put" THEN w ELSE None)
          /\ p = "waiting" => flush' = flush
  BY <1>1, <1>2, <1>3, PauseOrGo
<1>5. pc'[w] = p
  BY <1>1, <1>4 DEF Shapes
<1>6. p = "waiting" => flush'[w].ctx \in {"hwm", "hwm_fin"}
  BY <1>3, <1>4
<1>7. pc[w] \notin InFlush
  BY <1>1 DEF InFlush
<1> QED
  BY <1>1, <1>4, <1>5, <1>6, <1>7, TakesKept

----------------------------------------------------------------------------
LEMMA FInvInit == Init => FInv
<1> SUFFICES ASSUME Init PROVE FInv
  OBVIOUS
<1>1. /\ pc[Main] = "poll" /\ outbuf_lock = None
      /\ \A w \in Workers : pc[w] = "idle"
      /\ \A t \in Threads : pc[t] \in {"poll", "idle"}
  BY ThreadKinds DEF Init
<1>2. OutLockIsHeld
  BY <1>1, ThreadKinds DEF OutLockIsHeld, HoldsOutbufs, InFlush
<1>3. \A t \in Threads : InPlace(t)
  BY <1>1, ThreadKinds DEF InPlace, MainPlaces, WorkerPlaces, InFlush
<1> QED
  BY <1>1, <1>2, <1>3 DEF FInv, UnlockedAlone, SelectsOpen, InFlush

LEMMA FInvNext ==
    IInv /\ FInv /\ ContinuesInTime /\ ContinuesInTime' /\ [Next]_vars => FInv'
<1> SUFFICES ASSUME IInv, FInv, ContinuesInTime, ContinuesInTime', [Next]_vars
             PROVE  FInv'
  OBVIOUS
<1>1. CASE \/ UNCHANGED vars
           \/ ClientStep
  <2>1. UNCHANGED <<pc, flush, outbuf_lock, requests, ready, sock>>
    BY <1>1 DEF vars, ClientStep, client_sends, client_reads, client_leaves,
                time_passes, server, shared, locks
  <2> QED
    BY <2>1 DEF FInv, OutLockIsHeld, HoldsOutbufs, InPlace, UnlockedAlone, SelectsOpen
<1>2. ASSUME NEW t \in Threads,
             flush_some(t) \/ send_continue(t) \/ handle_close(t) \/ dispatcher_close(t)
      PROVE  FInv'
  BY <1>2, NobodyRaces, FlushKept, ReturnKept, ContinueKept, CloseKept
  DEF flush_some, flush_deduct, Unraced
<1>3. CASE MainStep \/ select_times_out \/ interrupt
  BY <1>2, <1>3, PollKept, HandleWriteKept, ThreadKinds DEF MainStep
<1>4. ASSUME NEW w \in Workers, WorkerStep(w) PROVE FInv'
  BY <1>2, <1>4, ServiceKept, WritingKept, WaitKept, ThreadKinds DEF WorkerStep
<1> QED
  BY <1>1, <1>3, <1>4 DEF Next

LEMMA FInvAlways == Spec /\ []ContinuesInTime => []FInv
BY InvAlways, FInvInit, FInvNext, PTL DEF Spec

----------------------------------------------------------------------------
\* Two threads never use the output buffers at once, although main flushes
\* without outbuf_lock when it sees no request (channel.py:95-101): that is
\* right as long as no worker sends a continue.
THEOREM BuffersHaveOneUser == Spec /\ []ContinuesInTime => []OneFlusher
<1>1. IInv /\ FInv => OneFlusher
  <2> SUFFICES ASSUME IInv, FInv PROVE OneFlusher
    OBVIOUS
  <2> DEFINE U == {t \in Threads : UsingOutbufs(t)}
  <2>1. \A t, u \in U : t = u
    BY OneUser
  <2>2. U = {} \/ \E t : U = {t}
    BY <2>1
  <2>3. Cardinality(U) = 0 \/ Cardinality(U) = 1
    <3> HIDE DEF U
    <3> QED
      BY <2>2, FS_EmptySet, FS_Singleton
  <2> QED
    BY <2>3 DEF OneFlusher
<1> QED
  BY <1>1, InvAlways, FInvAlways, PTL

\* No closed descriptor is passed to select() (HISTORY.txt, 2.1.2): only main
\* closes, and between its look at the socket and select() it does not.
THEOREM LoopNeverCrashes == Spec /\ []ContinuesInTime => []LoopSurvives
<1>1. FInv => LoopSurvives
  BY ThreadKinds DEF FInv, InPlace, MainPlaces, InFlush, LoopSurvives
<1> QED
  BY <1>1, FInvAlways, PTL

----------------------------------------------------------------------------
(* Numbers, and sequences of sequences *)

\* The intervals from 0 to the elements of T are finite subsets of Nat; one of them
\* has none of the others in it.
LEMMA LeastOf ==
    ASSUME NEW T \in SUBSET Nat, T # {}
    PROVE  \E x \in T : \A y \in T : x =< y
<1> DEFINE U == {0 .. x : x \in T}
<1>1. U \subseteq FiniteSubsetsOf(Nat) /\ U # {}
  <2>1. \A x \in T : 0 .. x \in FiniteSubsetsOf(Nat)
    <3> TAKE x \in T
    <3>1. 0 \in Int /\ x \in Int /\ 0 .. x \in SUBSET Nat
      OBVIOUS
    <3> QED
      BY <3>1, FS_Interval DEF FiniteSubsetsOf
  <2> QED
    BY <2>1
<1> HIDE DEF U
<1>2. PICK u \in U : \A v \in U : <<v, u>> \notin StrictSubsetOrdering(Nat)
  BY <1>1, FS_StrictSubsetOrderingWellFounded, WFMin
<1>3. PICK x \in T : u = 0 .. x
  BY DEF U
<1>4. ASSUME NEW y \in T, y < x PROVE FALSE
  <2>1. 0 .. y \in U
    BY DEF U
  <2>2. 0 .. y \subseteq 0 .. x /\ x \in 0 .. x /\ x \notin 0 .. y
    BY <1>4
  <2>3. <<0 .. y, 0 .. x>> \in StrictSubsetOrdering(Nat)
    BY <2>2 DEF StrictSubsetOrdering
  <2> QED
    BY <1>2, <1>3, <2>1, <2>3
<1> QED
  BY <1>4

\* f[i] is the concatenation of the first i elements of q, for each i up to k.
Joins(f, q, k) ==
    f = [i \in 1 .. k |-> IF i = 1 THEN q[i] ELSE f[i - 1] \o q[i]]

LEMMA JoinsExists ==
    ASSUME NEW S, NEW q \in Seq(Seq(S)), NEW k \in Nat, k =< Len(q)
    PROVE  \E f : Joins(f, q, k)
<1> DEFINE T == {j \in Nat : j =< Len(q) /\ ~\E f : Joins(f, q, j)}
<1>1. SUFFICES ASSUME T # {} PROVE FALSE
  OBVIOUS
<1>2. PICK j \in T : \A y \in T : j =< y
  <2>1. T \in SUBSET Nat
    OBVIOUS
  <2> HIDE DEF T
  <2> QED
    BY <1>1, <2>1, LeastOf
<1>3. CASE j = 0
  <2>1. Joins([i \in 1 .. 0 |-> 0], q, 0)
    BY DEF Joins
  <2> QED
    BY <1>3, <2>1
<1>4. CASE j # 0
  <2>1. j \in Nat /\ j - 1 \in Nat /\ j - 1 =< Len(q) /\ ~(j =< j - 1)
    BY <1>4, LenProperties
  <2>2. PICK g : Joins(g, q, j - 1)
    BY <1>2, <2>1
  <2> DEFINE f == [i \in 1 .. j |->
                      IF i < j THEN g[i] ELSE IF j = 1 THEN q[j] ELSE g[j - 1] \o q[j]]
  <2>3. ASSUME NEW i \in 1 .. j
        PROVE  f[i] = IF i = 1 THEN q[i] ELSE f[i - 1] \o q[i]
    <3>1. CASE i < j
      <4>1. i \in 1 .. j - 1 /\ (i # 1 => i - 1 \in 1 .. j /\ i - 1 < j)
        BY <2>1, <3>1
      <4>2. f[i] = g[i] /\ (i # 1 => f[i - 1] = g[i - 1])
        BY <3>1, <4>1
      <4> QED
        BY <2>2, <4>1, <4>2 DEF Joins
    <3>2. CASE i = j
      <4>1. i # 1 => j - 1 \in 1 .. j /\ j - 1 < j
        BY <2>1, <3>2
      <4>2. ~(j < j)
        BY <2>1
      <4> QED
        BY <3>2, <4>1, <4>2
    <3> QED
      BY <2>1, <3>1, <3>2
  <2>4. Joins(f, q, j)
    BY <2>3 DEF Joins
  <2> QED
    BY <2>4
<1> QED
  BY <1>3, <1>4

\* There is only one such function, and its values are sequences.
LEMMA JoinsOnce ==
    ASSUME NEW S, NEW q \in Seq(Seq(S)), NEW k \in Nat, k =< Len(q),
           NEW f, Joins(f, q, k), NEW g, Joins(g, q, k)
    PROVE  \A i \in 1 .. k : f[i] = g[i] /\ f[i] \in Seq(S)
<1> DEFINE T == {i \in 1 .. k : f[i] # g[i] \/ f[i] \notin Seq(S)}
<1>1. SUFFICES ASSUME T # {} PROVE FALSE
  OBVIOUS
<1>2. PICK i \in T : \A y \in T : i =< y
  <2>1. T \in SUBSET Nat
    OBVIOUS
  <2> HIDE DEF T
  <2> QED
    BY <1>1, <2>1, LeastOf
<1>3. i \in 1 .. k /\ q[i] \in Seq(S)
  <2>1. i \in 1 .. k /\ i \in 1 .. Len(q)
    BY LenProperties
  <2> QED
    BY <2>1, ElementOfSeq
<1>4. CASE i = 1
  BY <1>3, <1>4 DEF Joins
<1>5. CASE i # 1
  <2>1. i - 1 \in 1 .. k /\ ~(i =< i - 1)
    BY <1>3, <1>5
  <2>2. i - 1 \notin T
    BY <1>2, <2>1
  <2>3. f[i - 1] = g[i - 1] /\ f[i - 1] \in Seq(S)
    BY <2>1, <2>2
  <2>4. f[i] = f[i - 1] \o q[i] /\ g[i] = g[i - 1] \o q[i]
    BY <1>3, <1>5 DEF Joins
  <2> QED
    BY <1>3, <2>3, <2>4, ConcatProperties
<1> QED
  BY <1>4, <1>5

\* FlattenSeq(q) is its last value.
LEMMA FlattenIs ==
    ASSUME NEW S, NEW q \in Seq(Seq(S)), q # <<>>, NEW f, Joins(f, q, Len(q))
    PROVE  FlattenSeq(q) = f[Len(q)] /\ f[Len(q)] \in Seq(S)
<1> DEFINE n == Len(q)
           c == CHOOSE h : Joins(h, q, n)
<1>1. n \in Nat /\ n # 0 /\ n \in 1 .. n
  BY LenProperties, EmptySeq
<1>2. Joins(c, q, n)
  OBVIOUS
<1>3. FlattenSeq(q) = c[n]
  BY <1>1 DEF FlattenSeq, Joins
<1> HIDE DEF c
<1>4. c[n] = f[n] /\ c[n] \in Seq(S)
  BY <1>1, <1>2, JoinsOnce
<1> QED
  BY <1>3, <1>4

LEMMA FlattenNone == FlattenSeq(<<>>) = <<>>
BY DEF FlattenSeq

LEMMA FlattenAppend ==
    ASSUME NEW S, NEW q \in Seq(Seq(S)), NEW x \in Seq(S)
    PROVE  /\ FlattenSeq(q) \in Seq(S)
           /\ FlattenSeq(Append(q, x)) = FlattenSeq(q) \o x
<1> DEFINE a == Append(q, x)
           n == Len(q)
<1>1. /\ a \in Seq(Seq(S)) /\ a # <<>> /\ Len(a) = n + 1 /\ n \in Nat
      /\ (\A i \in 1 .. n : a[i] = q[i]) /\ a[n + 1] = x
  BY AppendProperties, LenProperties
<1>2. PICK g : Joins(g, q, n)
  BY <1>1, JoinsExists
<1> DEFINE h == [i \in 1 .. n + 1 |->
                    IF i =< n THEN g[i] ELSE IF n = 0 THEN x ELSE g[n] \o x]
<1>3. Joins(h, a, n + 1)
  <2>1. ASSUME NEW i \in 1 .. n + 1
        PROVE  h[i] = IF i = 1 THEN a[i] ELSE h[i - 1] \o a[i]
    <3>1. CASE i =< n
      <4>1. i \in 1 .. n /\ (i # 1 => i - 1 \in 1 .. n + 1 /\ i - 1 =< n)
        BY <1>1, <3>1
      <4>2. h[i] = g[i] /\ (i # 1 => h[i - 1] = g[i - 1])
        BY <3>1, <4>1
      <4>3. g[i] = IF i = 1 THEN q[i] ELSE g[i - 1] \o q[i]
        BY <1>2, <4>1 DEF Joins
      <4> QED
        BY <1>1, <4>1, <4>2, <4>3
    <3>2. CASE i = n + 1
      <4>1. ~(i =< n) /\ (i = 1 <=> n = 0) /\ i - 1 = n /\ (n # 0 => n \in 1 .. n + 1)
        BY <1>1, <3>2
      <4>2. h[i] = (IF n = 0 THEN x ELSE g[n] \o x) /\ (n # 0 => h[n] = g[n])
        BY <1>1, <4>1
      <4> QED
        BY <1>1, <3>2, <4>1, <4>2
    <3> QED
      BY <1>1, <3>1, <3>2
  <2> QED
    BY <2>1 DEF Joins
<1>4. FlattenSeq(a) = h[n + 1]
  <2> HIDE DEF a, h
  <2> QED
    BY <1>1, <1>3, FlattenIs
<1>5. h[n + 1] = IF n = 0 THEN x ELSE g[n] \o x
  BY <1>1
<1>6. CASE n = 0
  <2>1. q = <<>> /\ FlattenSeq(q) = <<>> /\ <<>> \in Seq(S) /\ <<>> \o x = x
    BY <1>6, FlattenNone, EmptySeq, ConcatEmptySeq
  <2> QED
    BY <1>4, <1>5, <1>6, <2>1
<1>7. CASE n # 0
  <2>1. q # <<>>
    BY <1>7, EmptySeq
  <2>2. FlattenSeq(q) = g[n] /\ g[n] \in Seq(S)
    BY <1>2, <2>1, FlattenIs
  <2> QED
    BY <1>4, <1>5, <1>7, <2>2, SMTT(30)
<1> QED
  BY <1>6, <1>7

Associate(a, b, c) == (a \o b) \o c = a \o (b \o c)

LEMMA ThreeAssociate ==
    ASSUME NEW S, NEW a \in Seq(S), NEW b \in Seq(S), NEW c \in Seq(S)
    PROVE  Associate(a, b, c)
BY ConcatAssociative DEF Associate

LEMMA FlattenOne ==
    ASSUME NEW S, NEW x \in Seq(S)
    PROVE  FlattenSeq(<<x>>) = x
<1>1. <<>> \in Seq(Seq(S)) /\ Append(<<>>, x) = <<x>>
  OBVIOUS
<1>2. FlattenSeq(<<x>>) = <<>> \o x
  BY <1>1, FlattenNone, FlattenAppend
<1> QED
  BY <1>2, ConcatEmptySeq

LEMMA FlattenConcatAppend ==
    ASSUME NEW S, NEW a \in Seq(Seq(S)), NEW d \in Seq(Seq(S)), NEW x \in Seq(S),
           FlattenSeq(a \o d) = FlattenSeq(a) \o FlattenSeq(d)
    PROVE  FlattenSeq(a \o Append(d, x)) = FlattenSeq(a) \o FlattenSeq(Append(d, x))
<1>1. a \o Append(d, x) = Append(a \o d, x) /\ a \o d \in Seq(Seq(S))
  <2>1. <<x>> \in Seq(Seq(S)) /\ a \o d \in Seq(Seq(S))
    BY ConcatProperties
  <2>2. Append(d, x) = d \o <<x>> /\ Append(a \o d, x) = (a \o d) \o <<x>>
    BY <2>1, AppendIsConcat
  <2>3. (a \o d) \o <<x>> = a \o (d \o <<x>>)
    BY <2>1, ConcatAssociative
  <2> QED
    BY <2>1, <2>2, <2>3
<1>2. /\ FlattenSeq(Append(a \o d, x)) = FlattenSeq(a \o d) \o x
      /\ FlattenSeq(Append(d, x)) = FlattenSeq(d) \o x
      /\ FlattenSeq(a) \in Seq(S) /\ FlattenSeq(d) \in Seq(S)
  BY <1>1, FlattenAppend
<1>3. (FlattenSeq(a) \o FlattenSeq(d)) \o x = FlattenSeq(a) \o (FlattenSeq(d) \o x)
  <2> DEFINE p == FlattenSeq(a)
             q == FlattenSeq(d)
  <2>1. p \in Seq(S) /\ q \in Seq(S)
    BY <1>2
  <2> HIDE DEF p, q
  <2>2. Associate(p, q, x)
    BY <2>1, ThreeAssociate
  <2> QED
    BY <2>2 DEF p, q, Associate
<1> QED
  BY <1>1, <1>2, <1>3

LEMMA FlattenConcat ==
    ASSUME NEW S, NEW a \in Seq(Seq(S)), NEW b \in Seq(Seq(S))
    PROVE  FlattenSeq(a \o b) = FlattenSeq(a) \o FlattenSeq(b)
<1> DEFINE Bad(c) == FlattenSeq(a \o c) # FlattenSeq(a) \o FlattenSeq(c)
           T == {n \in Nat : \E c \in Seq(Seq(S)) : Len(c) = n /\ Bad(c)}
<1>1. SUFFICES ASSUME T # {} PROVE FALSE
  BY LenProperties
<1>2. PICK n \in T : \A y \in T : n =< y
  <2>1. T \in SUBSET Nat
    OBVIOUS
  <2> HIDE DEF T
  <2> QED
    BY <1>1, <2>1, LeastOf
<1>3. PICK c \in Seq(Seq(S)) : Len(c) = n /\ Bad(c)
  OBVIOUS
<1>4. c # <<>>
  <2> SUFFICES ASSUME c = <<>> PROVE FALSE
    OBVIOUS
  <2>1. FlattenSeq(a) \in Seq(S)
    BY FlattenAppend, EmptySeq
  <2> QED
    BY <1>3, <2>1, FlattenNone, ConcatEmptySeq
<1>5. PICK d \in Seq(Seq(S)), x \in Seq(S) : c = Append(d, x)
  BY <1>4, SequenceEmptyOrAppend
<1>6. ~Bad(d)
  <2>1. Len(c) = Len(d) + 1 /\ Len(d) \in Nat
    BY <1>5, AppendProperties, LenProperties
  <2>2. ~(n =< Len(d))
    BY <1>3, <2>1
  <2> QED
    BY <1>2, <2>1, <2>2
<1> QED
  BY <1>3, <1>5, <1>6, FlattenConcatAppend

\* Elements that get shorter make the whole shorter.
LEMMA FlattenShrinks ==
    ASSUME NEW S, NEW a \in Seq(Seq(S)), NEW b \in Seq(Seq(S)), Len(a) = Len(b),
           \A i \in 1 .. Len(a) : Len(a[i]) =< Len(b[i])
    PROVE  Len(FlattenSeq(a)) =< Len(FlattenSeq(b))
<1> DEFINE Less(c, d) ==
               Len(c) = Len(d) /\ \A i \in 1 .. Len(c) : Len(c[i]) =< Len(d[i])
           Bad(c, d) == Less(c, d) /\ ~(Len(FlattenSeq(c)) =< Len(FlattenSeq(d)))
           T == {n \in Nat : \E c, d \in Seq(Seq(S)) : Len(c) = n /\ Bad(c, d)}
<1>1. SUFFICES ASSUME T # {} PROVE FALSE
  BY LenProperties
<1>2. PICK n \in T : \A y \in T : n =< y
  <2>1. T \in SUBSET Nat
    OBVIOUS
  <2> HIDE DEF T
  <2> QED
    BY <1>1, <2>1, LeastOf
<1>3. PICK c \in Seq(Seq(S)), d \in Seq(Seq(S)) : Len(c) = n /\ Bad(c, d)
  OBVIOUS
<1>4. c # <<>> /\ d # <<>>
  <2>1. Len(c) = Len(d) /\ Len(c) \in Nat
    BY <1>3, LenProperties
  <2>2. c = <<>> <=> d = <<>>
    BY <2>1, EmptySeq
  <2>3. CASE c = <<>> /\ d = <<>>
    BY <1>3, <2>3, FlattenNone, EmptySeq
  <2> QED
    BY <2>2, <2>3
<1>5. PICK e \in Seq(Seq(S)), x \in Seq(S) : c = Append(e, x)
  BY <1>4, SequenceEmptyOrAppend
<1>6. PICK f \in Seq(Seq(S)), y \in Seq(S) : d = Append(f, y)
  BY <1>4, SequenceEmptyOrAppend
<1>7. /\ Len(c) = Len(e) + 1 /\ Len(e) \in Nat /\ Len(d) = Len(f) + 1 /\ Len(f) \in Nat
      /\ (\A i \in 1 .. Len(e) : c[i] = e[i]) /\ c[Len(e) + 1] = x
      /\ (\A i \in 1 .. Len(f) : d[i] = f[i]) /\ d[Len(f) + 1] = y
      /\ Len(c) = Len(d)
  BY <1>3, <1>5, <1>6, AppendProperties, LenProperties
<1>8. Less(e, f) /\ Len(x) =< Len(y)
  <2>1. Len(e) = Len(f) /\ Len(e) + 1 \in 1 .. Len(c) /\ \A i \in 1 .. Len(e) : i \in 1 .. Len(c)
    BY <1>7
  <2>2. \A i \in 1 .. Len(c) : Len(c[i]) =< Len(d[i])
    BY <1>3
  <2> QED
    BY <1>7, <2>1, <2>2
<1>9. Len(FlattenSeq(e)) =< Len(FlattenSeq(f))
  <2>1. ~(n =< Len(e))
    BY <1>3, <1>7
  <2>2. ~Bad(e, f)
    BY <1>2, <1>7, <2>1
  <2> QED
    BY <1>8, <2>2
<1>10. /\ FlattenSeq(c) = FlattenSeq(e) \o x /\ FlattenSeq(d) = FlattenSeq(f) \o y
       /\ FlattenSeq(e) \in Seq(S) /\ FlattenSeq(f) \in Seq(S)
  BY <1>5, <1>6, FlattenAppend
<1>11. /\ Len(FlattenSeq(c)) = Len(FlattenSeq(e)) + Len(x)
       /\ Len(FlattenSeq(d)) = Len(FlattenSeq(f)) + Len(y)
       /\ Len(FlattenSeq(e)) \in Nat /\ Len(FlattenSeq(f)) \in Nat
       /\ Len(x) \in Nat /\ Len(y) \in Nat
  BY <1>10, ConcatProperties, LenProperties
<1>12. Len(FlattenSeq(c)) =< Len(FlattenSeq(d))
  BY <1>8, <1>9, <1>11
<1> QED
  BY <1>3, <1>12

\* Elements that are all empty make nothing.
LEMMA FlattenNothing ==
    ASSUME NEW S, NEW a \in Seq(Seq(S)), \A i \in 1 .. Len(a) : a[i] = <<>>
    PROVE  FlattenSeq(a) = <<>>
<1> DEFINE Bad(c) == (\A i \in 1 .. Len(c) : c[i] = <<>>) /\ FlattenSeq(c) # <<>>
           T == {n \in Nat : \E c \in Seq(Seq(S)) : Len(c) = n /\ Bad(c)}
<1>1. SUFFICES ASSUME T # {} PROVE FALSE
  BY LenProperties
<1>2. PICK n \in T : \A y \in T : n =< y
  <2>1. T \in SUBSET Nat
    OBVIOUS
  <2> HIDE DEF T
  <2> QED
    BY <1>1, <2>1, LeastOf
<1>3. PICK c \in Seq(Seq(S)) : Len(c) = n /\ Bad(c)
  OBVIOUS
<1>4. c # <<>>
  BY <1>3, FlattenNone
<1>5. PICK d \in Seq(Seq(S)), x \in Seq(S) : c = Append(d, x)
  BY <1>4, SequenceEmptyOrAppend
<1>6. /\ Len(c) = Len(d) + 1 /\ Len(d) \in Nat
      /\ (\A i \in 1 .. Len(d) : c[i] = d[i]) /\ c[Len(d) + 1] = x
  BY <1>5, AppendProperties, LenProperties
<1>7. x = <<>> /\ FlattenSeq(d) = <<>>
  <2>1. ~(n =< Len(d)) /\ Len(d) + 1 \in 1 .. Len(c) /\ \A i \in 1 .. Len(d) : i \in 1 .. Len(c)
    BY <1>3, <1>6
  <2> QED
    BY <1>2, <1>3, <1>6, <2>1
<1>8. FlattenSeq(c) = <<>> \o x
  BY <1>5, <1>7, FlattenAppend
<1>9. <<>> \o x = x
  BY ConcatEmptySeq
<1> QED
  BY <1>3, <1>7, <1>8, <1>9

LEMMA FlattenTyped ==
    ASSUME NEW S, NEW q \in Seq(Seq(S))
    PROVE  FlattenSeq(q) \in Seq(S)
BY FlattenAppend, EmptySeq

----------------------------------------------------------------------------
(* Who is in the middle of a flush *)

Busy == InFlush \union {"waiting", "relock"}

\* Only there a thread has locals of _flush_some.
IdleOutside == \A t \in Threads : pc[t] \notin Busy => flush[t].ctx = ""

LEMMA IdleKept ==
    ASSUME IdleOutside, NEW t \in Threads, Moves(t),
           pc'[t] \notin Busy => flush'[t].ctx = ""
    PROVE  IdleOutside'
BY DEF IdleOutside, Moves, Busy, InFlush

LEMMA AsideIdle ==
    ASSUME Shapes, IdleOutside, NEW t \in Threads, pc[t] \notin Busy,
           NEW p, pc' = [pc EXCEPT ![t] = p],
           flush' = flush \/ (p \in Busy /\ \E c : StartFlush(t, c))
    PROVE  IdleOutside'
<1>1. Moves(t) /\ pc'[t] = p
  BY OneMoves DEF StartFlush
<1> QED
  BY <1>1, IdleKept DEF IdleOutside

LEMMA FlushIdle ==
    ASSUME Shapes, IdleOutside, NEW t \in Threads,
           flush_some(t) \/ send_continue(t) \/ handle_close(t) \/ dispatcher_close(t)
    PROVE  IdleOutside'
<1>1. ASSUME NEW p, Leaves(t, p) PROVE IdleOutside'
  BY <1>1, IdleKept DEF Leaves
<1>2. ASSUME NEW p, Within(t, p), p \in Busy \/ pc[t] \notin Busy PROVE IdleOutside'
  BY <1>2, IdleKept DEF Within, IdleOutside
<1>3. CASE flush_top(t)
  BY <1>2, <1>3, TopMoves DEF Busy, InFlush
<1>4. CASE send_some(t) \/ send_nothing(t)
  BY <1>2, <1>4, SendMoves DEF Busy, InFlush
<1>5. CASE flush_skip(t) \/ flush_deduct(t)
  BY <1>2, <1>5, SkipMoves DEF Busy, InFlush
<1>6. CASE flush_return(t)
  BY <1>1, <1>2, <1>6, ReturnMoves DEF Busy, InFlush
<1>7. CASE flush_raise(t)
  BY <1>1, <1>2, <1>7, RaiseMoves DEF Busy, InFlush
<1>8. CASE handle_close(t)
  BY <1>2, <1>8, CloseMoves DEF Busy, InFlush
<1>9. CASE dispatcher_close(t)
  BY <1>2, <1>9, DispatcherCloseMoves DEF Busy, InFlush
<1>10. CASE send_continue(t)
  <2>1. Moves(t) /\ pc'[t] \in Busy
    BY <1>10, ContinueMoves DEF Busy, InFlush
  <2> QED
    BY <2>1, IdleKept
<1> QED
  BY <1>3, <1>4, <1>5, <1>6, <1>7, <1>8, <1>9, <1>10 DEF flush_some

LEMMA MainIdle ==
    ASSUME Shapes, IdleOutside,
           \/ server_readable \/ readable \/ writable \/ enter_select
           \/ select_returns \/ select_times_out \/ trigger_read \/ handle_read
           \/ after_flush \/ interrupt \/ shutdown
           \/ received \/ parse \/ queue_request \/ handle_write
    PROVE  IdleOutside'
<1>1. pc[Main] \notin Busy /\ Main \in Threads
  BY ThreadKinds DEF server_readable, readable, writable, enter_select, select_returns,
         select_times_out, trigger_read, handle_read, after_flush, interrupt,
         shutdown, received, parse, queue_request, handle_write, Busy, InFlush
<1>2. \E p : /\ pc' = [pc EXCEPT ![Main] = p]
             /\ flush' = flush \/ (p \in Busy /\ \E c : StartFlush(Main, c))
  <2>1. CASE handle_write
    BY <2>1 DEF handle_write, Go, Busy, InFlush
  <2>2. CASE server_readable \/ readable \/ writable \/ enter_select \/ select_returns
             \/ select_times_out \/ trigger_read
    BY <2>2 DEF server_readable, readable, writable, enter_select, select_returns,
                select_times_out, trigger_read, Go
  <2>3. CASE handle_read \/ after_flush \/ interrupt \/ shutdown \/ received \/ parse
             \/ queue_request
    BY <2>3 DEF handle_read, after_flush, interrupt, shutdown, received, parse,
                queue_request, Go
  <2> QED
    BY <2>1, <2>2, <2>3
<1> QED
  BY <1>1, <1>2, AsideIdle

LEMMA WorkerIdle ==
    ASSUME Shapes, IdleOutside, NEW w \in Workers,
           \/ take_task(w) \/ service_start(w) \/ app_writes(w) \/ app_raises(w)
           \/ write_soon(w) \/ put(w) \/ wait_returns(w) \/ finish(w)
           \/ flush_before_next(w) \/ close_soon(w) \/ drop_requests(w)
           \/ pop_request(w) \/ next_request(w) \/ service_ends(w)
    PROVE  IdleOutside'
<1> w \in Threads
  BY ThreadKinds
<1>1. CASE wait_returns(w)
  <2>1. \/ flush' = [flush EXCEPT ![w] = Idle] /\ \E p : pc' = [pc EXCEPT ![w] = p]
        \/ flush' = flush /\ pc' = [pc EXCEPT ![w] = "waiting"]
    BY <1>1 DEF wait_returns, TestHwm, BelowHwm, PauseAtHwm, Go
  <2>2. CASE flush' = [flush EXCEPT ![w] = Idle] /\ \E p : pc' = [pc EXCEPT ![w] = p]
    BY <2>2, OneMoves, IdleFlush, IdleKept
  <2>3. CASE flush' = flush /\ pc' = [pc EXCEPT ![w] = "waiting"]
    BY <2>3, OneMoves, IdleKept DEF Busy
  <2> QED
    BY <2>1, <2>2, <2>3
<1>2. CASE write_soon(w) \/ put(w) \/ flush_before_next(w)
  <2>1. pc[w] \notin Busy
    BY <1>2 DEF write_soon, put, flush_before_next, Busy, InFlush
  <2>2. \E p : /\ pc' = [pc EXCEPT ![w] = p]
               /\ flush' = flush \/ (p \in Busy /\ \E c : StartFlush(w, c))
    BY <1>2 DEF write_soon, put, flush_before_next, Go, Busy, InFlush
  <2> QED
    BY <2>1, <2>2, AsideIdle
<1>3. CASE \/ take_task(w) \/ service_start(w) \/ app_writes(w) \/ app_raises(w)
           \/ finish(w) \/ close_soon(w) \/ drop_requests(w)
           \/ pop_request(w) \/ next_request(w) \/ service_ends(w)
  <2>1. pc[w] \notin Busy /\ flush' = flush
    BY <1>3 DEF take_task, service_start, app_writes, app_raises, finish, close_soon,
       drop_requests, pop_request, next_request, service_ends, Busy, InFlush
  <2>2. pc' = pc \/ \E p : pc' = [pc EXCEPT ![w] = p]
    BY <1>3 DEF take_task, service_start, app_writes, app_raises, finish, close_soon,
       drop_requests, pop_request, next_request, service_ends, Go
  <2>3. CASE pc' = pc
    BY <2>1, <2>3 DEF IdleOutside
  <2> QED
    BY <2>1, <2>2, <2>3, AsideIdle
<1> QED
  BY <1>1, <1>2, <1>3

LEMMA IdleNext == Shapes /\ IdleOutside /\ [Next]_vars => IdleOutside'
<1> SUFFICES ASSUME Shapes, IdleOutside, [Next]_vars PROVE IdleOutside'
  OBVIOUS
<1>1. CASE UNCHANGED vars \/ ClientStep
  BY <1>1 DEF vars, ClientStep, client_sends, client_reads, client_leaves,
              time_passes, server, IdleOutside
<1>2. CASE MainStep \/ select_times_out \/ interrupt
  BY <1>2, FlushIdle, MainIdle, ThreadKinds DEF MainStep
<1>3. ASSUME NEW w \in Workers, WorkerStep(w) PROVE IdleOutside'
  BY <1>3, FlushIdle, WorkerIdle, ThreadKinds DEF WorkerStep
<1> QED
  BY <1>1, <1>2, <1>3 DEF Next

----------------------------------------------------------------------------
(* Types: the input *)

\* What the units of the input are.
UnitsOf(s) == (1 .. Len(s)) \X {"head", "body"}

InputTyped ==
    /\ script \in Scripts
    /\ sent \in Nat /\ rcvd \in Nat /\ parsed \in Nat
    /\ parsed =< rcvd /\ rcvd =< sent /\ sent =< Len(Units)
    /\ pc[Main] \in {"received", "parse"} => parsed < rcvd

\* What each request contributes to the input.
Parts(s) ==
    [i \in DOMAIN s |->
        IF s[i].body THEN << <<i, "head">>, <<i, "body">> >> ELSE << <<i, "head">> >>]

LEMMA PartsTyped ==
    ASSUME NEW s \in Scripts
    PROVE  Parts(s) \in Seq(Seq(UnitsOf(s))) /\ Len(Parts(s)) = Len(s)
<1> DEFINE U == UnitsOf(s)
           n == Len(s)
           one(i) == IF s[i].body THEN << <<i, "head">>, <<i, "body">> >>
                                  ELSE << <<i, "head">> >>
           q == [i \in DOMAIN s |-> one(i)]
<1>1. s \in Seq(Requests) /\ n \in Nat /\ DOMAIN s = 1 .. n
  BY ScriptsShape, LenProperties
<1>2. \A i \in 1 .. n : one(i) \in Seq(U)
  <2> SUFFICES ASSUME NEW i \in 1 .. n PROVE one(i) \in Seq(U)
    OBVIOUS
  <2> DEFINE h == <<i, "head">>
             b == <<i, "body">>
  <2>1. h \in U /\ b \in U
    BY DEF UnitsOf
  <2> HIDE DEF h, b, U
  <2>2. <<h>> \in Seq(U) /\ <<h, b>> \in Seq(U)
    BY <2>1
  <2> QED
    BY <2>2 DEF h, b
<1>3. q \in [1 .. n -> Seq(U)] /\ DOMAIN q = 1 .. n
  <2> HIDE DEF one, U
  <2> QED
    BY <1>1, <1>2
<1>4. q = Parts(s)
  BY DEF Parts
<1> HIDE DEF q, U
<1>5. q \in Seq(Seq(U))
  BY <1>1, <1>3, SeqDef
<1>6. Len(q) = n
  BY <1>1, <1>3, <1>5, LenProperties
<1> QED
  BY <1>4, <1>5, <1>6 DEF U

LEMMA UnitsTyped ==
    ASSUME script \in Scripts
    PROVE  Units \in Seq(UnitsOf(script)) /\ Len(Units) \in Nat
<1>1. Units = FlattenSeq(Parts(script))
  BY DEF Units, Parts
<1>2. Units \in Seq(UnitsOf(script))
  BY <1>1, PartsTyped, FlattenTyped
<1> QED
  BY <1>2, LenProperties

\* Where main comes back from a flush.
LEMMA MainComesBack ==
    ASSUME Shapes,
           flush_some(Main) \/ send_continue(Main) \/ handle_close(Main)
              \/ dispatcher_close(Main)
    PROVE  pc'[Main] \notin {"received", "parse"}
<1>1. Main \in Threads
  BY ThreadKinds
<1>2. CASE \/ flush_top(Main) \/ send_some(Main) \/ send_nothing(Main)
           \/ flush_skip(Main) \/ flush_deduct(Main)
  BY <1>1, <1>2, TopMoves, SendMoves, SkipMoves DEF Within
<1>3. CASE flush_return(Main) \/ flush_raise(Main)
  BY <1>1, <1>3, ReturnMoves, RaiseMoves DEF Within, Leaves
<1>4. CASE handle_close(Main) \/ dispatcher_close(Main)
  BY <1>1, <1>4, CloseMoves, DispatcherCloseMoves DEF Within
<1>5. CASE send_continue(Main)
  BY <1>1, <1>5, ContinueMoves
<1> QED
  BY <1>2, <1>3, <1>4, <1>5 DEF flush_some

\* Every step moves one thread, at most.
LEMMA FlushMoves ==
    ASSUME Shapes, NEW t \in Threads,
           flush_some(t) \/ send_continue(t) \/ handle_close(t) \/ dispatcher_close(t)
    PROVE  Moves(t)
<1>1. CASE \/ flush_top(t) \/ send_some(t) \/ send_nothing(t)
           \/ flush_skip(t) \/ flush_deduct(t)
  BY <1>1, TopMoves, SendMoves, SkipMoves DEF Within
<1>2. CASE flush_return(t) \/ flush_raise(t)
  BY <1>2, ReturnMoves, RaiseMoves DEF Within, Leaves
<1>3. CASE handle_close(t) \/ dispatcher_close(t)
  BY <1>3, CloseMoves, DispatcherCloseMoves DEF Within
<1> QED
  BY <1>1, <1>2, <1>3, ContinueMoves DEF flush_some

LEMMA OneMovesAside ==
    ASSUME Shapes, NEW t \in Threads,
           pc' = pc \/ \E p : pc' = [pc EXCEPT ![t] = p],
           \/ flush' = flush
           \/ \E c : flush' = [flush EXCEPT ![t].ctx = c]
           \/ flush' = [flush EXCEPT ![t] = Idle]
    PROVE  Moves(t)
<1>1. CASE \E p : pc' = [pc EXCEPT ![t] = p]
  BY <1>1, OneMoves
<1>2. CASE pc' = pc
  <2>1. \A u \in Threads : DOMAIN flush'[u] = FlushFields
    BY DEF Shapes, Idle, FlushFields
  <2>2. DOMAIN flush' = Threads /\ \A u \in Threads \ {t} : flush'[u] = flush[u]
    BY DEF Shapes
  <2> QED
    BY <1>2, <2>1, <2>2 DEF Moves, Shapes
<1> QED
  BY <1>1, <1>2

LEMMA MainMoves ==
    ASSUME Shapes, MainStep \/ select_times_out \/ interrupt
    PROVE  Moves(Main)
<1> Main \in Threads
  BY ThreadKinds
<1>1. CASE handle_write
  BY <1>1, OneMovesAside DEF handle_write, StartFlush, Go
<1>2. CASE server_readable \/ readable \/ writable \/ enter_select \/ select_returns
           \/ select_times_out \/ trigger_read
  <2>1. flush' = flush /\ \E p : pc' = [pc EXCEPT ![Main] = p]
    BY <1>2 DEF server_readable, readable, writable, enter_select, select_returns,
                select_times_out, trigger_read, Go
  <2> QED
    BY <2>1, OneMovesAside
<1>3. CASE handle_read \/ after_flush \/ interrupt \/ shutdown \/ received \/ parse
           \/ queue_request
  <2>1. flush' = flush /\ \E p : pc' = [pc EXCEPT ![Main] = p]
    BY <1>3 DEF handle_read, after_flush, interrupt, shutdown, received, parse,
                queue_request, Go
  <2> QED
    BY <2>1, OneMovesAside
<1> QED
  BY <1>1, <1>2, <1>3, FlushMoves DEF MainStep

LEMMA WorkerMovesOnly ==
    ASSUME Shapes, NEW w \in Workers, WorkerStep(w)
    PROVE  Moves(w)
<1> w \in Threads
  BY ThreadKinds
<1>1. CASE wait_returns(w)
  <2>1. /\ \E p : pc' = [pc EXCEPT ![w] = p]
        /\ flush' = flush \/ flush' = [flush EXCEPT ![w] = Idle]
    BY <1>1 DEF wait_returns, TestHwm, BelowHwm, PauseAtHwm, Go
  <2> QED
    BY <2>1, OneMovesAside
<1>2. CASE write_soon(w) \/ put(w) \/ flush_before_next(w)
  <2>1. /\ \E p : pc' = [pc EXCEPT ![w] = p]
        /\ flush' = flush \/ \E c : flush' = [flush EXCEPT ![w].ctx = c]
    BY <1>2 DEF write_soon, put, flush_before_next, Go, StartFlush
  <2> QED
    BY <2>1, OneMovesAside
<1>3. CASE \/ take_task(w) \/ service_start(w) \/ app_writes(w) \/ app_raises(w)
           \/ finish(w) \/ close_soon(w) \/ drop_requests(w)
           \/ pop_request(w) \/ next_request(w) \/ service_ends(w)
  <2>1. flush' = flush /\ (pc' = pc \/ \E p : pc' = [pc EXCEPT ![w] = p])
    BY <1>3 DEF take_task, service_start, app_writes, app_raises, finish, close_soon,
       drop_requests, pop_request, next_request, service_ends, Go
  <2> QED
    BY <2>1, OneMovesAside
<1> QED
  BY <1>1, <1>2, <1>3, FlushMoves DEF WorkerStep

\* What a flush, or a close, or a worker leaves alone.
LEMMA FlushLeavesAlone ==
    ASSUME NEW t, flush_some(t) \/ send_continue(t) \/ handle_close(t) \/ dispatcher_close(t)
    PROVE  UNCHANGED <<requests, close_when_flushed, tasks, ready, client, input, reaped>>
<1>1. CASE \/ flush_top(t) \/ send_some(t) \/ send_nothing(t)
           \/ flush_skip(t) \/ flush_deduct(t)
  BY <1>1 DEF flush_top, send_some, send_nothing, flush_skip, flush_deduct, SentOn, shared
<1>2. CASE flush_return(t) \/ flush_raise(t)
  BY <1>2 DEF flush_return, flush_raise
<1>3. CASE handle_close(t) \/ dispatcher_close(t) \/ send_continue(t)
  BY <1>3 DEF handle_close, dispatcher_close, send_continue, shared
<1> QED
  BY <1>1, <1>2, <1>3 DEF flush_some

LEMMA WorkersLeaveAlone ==
    ASSUME NEW w \in Workers, WorkerStep(w)
    PROVE  UNCHANGED <<ready, client, input, reaped>>
<1>1. CASE \/ take_task(w) \/ service_start(w) \/ app_writes(w) \/ app_raises(w)
           \/ write_soon(w) \/ put(w) \/ wait_returns(w)
  BY <1>1 DEF take_task, service_start, app_writes, app_raises, write_soon, put,
              wait_returns
<1>2. CASE \/ finish(w) \/ flush_before_next(w) \/ close_soon(w) \/ drop_requests(w)
           \/ pop_request(w) \/ next_request(w) \/ service_ends(w)
  BY <1>2 DEF finish, flush_before_next, close_soon, drop_requests, pop_request,
              next_request, service_ends
<1> QED
  BY <1>1, <1>2, FlushLeavesAlone DEF WorkerStep

LEMMA InputKept ==
    ASSUME Shapes, IdleOutside, InputTyped, [Next]_vars
    PROVE  InputTyped'
<1>1. Len(Units) \in Nat /\ (script' = script => Units' = Units)
  BY UnitsTyped DEF InputTyped, Units
<1>2. ASSUME UNCHANGED <<client, input>>, pc'[Main] \notin {"received", "parse"}
                                      \/ pc'[Main] = pc[Main]
      PROVE  InputTyped'
  BY <1>1, <1>2 DEF InputTyped, client, input
<1>3. CASE UNCHANGED vars \/ client_reads \/ client_leaves \/ time_passes
  <2>1. UNCHANGED <<script, sent, input>> /\ pc'[Main] = pc[Main]
    BY <1>3 DEF vars, client_reads, client_leaves, time_passes, server, client
  <2> QED
    BY <1>1, <2>1 DEF InputTyped, input
<1>4. CASE client_sends
  BY <1>1, <1>4 DEF client_sends, InputTyped, server, input
<1>5. ASSUME NEW w \in Workers, WorkerStep(w) PROVE InputTyped'
  <2>1. Moves(w) /\ UNCHANGED <<client, input>>
    BY <1>5, WorkerMovesOnly, WorkersLeaveAlone
  <2> QED
    BY <1>2, <2>1, ThreadKinds DEF Moves
<1>6. CASE flush_some(Main) \/ send_continue(Main) \/ handle_close(Main)
              \/ dispatcher_close(Main)
  BY <1>2, <1>6, MainComesBack, FlushLeavesAlone
<1>7. CASE server_readable \/ readable \/ writable \/ enter_select \/ select_returns
           \/ select_times_out \/ trigger_read \/ interrupt
  <2>1. UNCHANGED <<client, input>>
    BY <1>7 DEF server_readable, readable, writable, enter_select, select_returns,
                select_times_out, trigger_read, interrupt
  <2>2. pc'[Main] \notin {"received", "parse"}
    BY <1>7, ThreadKinds DEF server_readable, readable, writable, enter_select,
       select_returns, select_times_out, trigger_read, interrupt, Go, Shapes
  <2> QED
    BY <1>2, <2>1, <2>2
<1>8. CASE handle_write \/ after_flush \/ shutdown
  <2>1. UNCHANGED <<client, input>>
    BY <1>8 DEF handle_write, after_flush, shutdown
  <2>2. pc'[Main] \notin {"received", "parse"}
    BY <1>8, ThreadKinds DEF handle_write, after_flush, shutdown, Go, Shapes
  <2> QED
    BY <1>2, <2>1, <2>2
<1>9. CASE handle_read
  <2>1. UNCHANGED <<client, parsed>>
    BY <1>9 DEF handle_read
  <2>2. \/ rcvd' = rcvd /\ pc'[Main] \notin {"received", "parse"}
        \/ rcvd' \in rcvd + 1 .. sent
    BY <1>9, ThreadKinds DEF handle_read, Go, Shapes
  <2> QED
    BY <1>1, <2>1, <2>2 DEF InputTyped, client
<1>10. CASE received \/ parse \/ queue_request
  <2>1. UNCHANGED <<client, rcvd>>
    BY <1>10 DEF received, parse, queue_request, input
  <2>2. CASE received
    <3>1. \/ parsed' = rcvd /\ pc'[Main] = "write"
          \/ parsed' = parsed /\ pc[Main] = "received"
      BY <2>2, ThreadKinds DEF received, Go, Shapes
    <3> QED
      BY <1>1, <2>1, <3>1 DEF InputTyped, client
  <2>3. CASE parse
    <3>1. /\ pc[Main] = "parse" /\ parsed' = parsed + 1
          /\ pc'[Main] \notin {"received", "parse"}
      BY <2>3, ThreadKinds DEF parse, Go, Shapes
    <3> QED
      BY <1>1, <2>1, <3>1 DEF InputTyped, client
  <2>4. CASE queue_request
    <3>1. /\ parsed' = parsed
          /\ pc'[Main] = "write" \/ parsed # rcvd
      BY <2>4, ThreadKinds DEF queue_request, Go, Shapes, input
    <3> QED
      BY <1>1, <2>1, <3>1 DEF InputTyped, client
  <2> QED
    BY <1>10, <2>2, <2>3, <2>4
<1> QED
  BY <1>3, <1>4, <1>5, <1>6, <1>7, <1>8, <1>9, <1>10 DEF Next, MainStep, ClientStep

\* The request whose unit comes before unit k.
Before(u, k) == IF k = 1 THEN 0 ELSE u[k - 1][1]

\* A body follows its head, which it is the next unit of, and the heads come in
\* the order of the requests.
Grammatical(s, u) ==
    /\ u \in Seq(UnitsOf(s))
    /\ \A k \in 1 .. Len(u) : u[k][2] = "body" =>
           k - 1 \in 1 .. Len(u) /\ u[k - 1] = <<u[k][1], "head">> /\ s[u[k][1]].body
    /\ \A k \in 1 .. Len(u) : u[k][2] = "head" /\ s[u[k][1]].body =>
           k + 1 \in 1 .. Len(u) /\ u[k + 1] = <<u[k][1], "body">>
    /\ \A k \in 1 .. Len(u) : u[k] = <<1, "head">> => k = 1
    /\ \A k \in 1 .. Len(u) : u[k][2] = "head" => u[k][1] = Before(u, k) + 1

\* x is the part that comes after u, and v ends with part i.
PartFollows(s, u, x, i) ==
    /\ Grammatical(s, u) /\ s \in Scripts /\ i \in 1 .. Len(s) /\ x = Parts(s)[i]
    /\ (i = 1 <=> u = <<>>) /\ (u # <<>> => u[Len(u)][1] = i - 1)

EndsWithPart(s, v, i) == Grammatical(s, v) /\ v[Len(v)][1] = i

LEMMA GrammaticalLonger ==
    ASSUME NEW s, NEW u, NEW x, NEW i, PartFollows(s, u, x, i)
    PROVE  EndsWithPart(s, u \o x, i)
<1> SUFFICES ASSUME Grammatical(s, u), i \in 1 .. Len(s), i = 1 <=> u = <<>>,
                    x = Parts(s)[i], s \in Scripts, u # <<>> => u[Len(u)][1] = i - 1
             PROVE  Grammatical(s, u \o x) /\ (u \o x)[Len(u \o x)][1] = i
  BY DEF PartFollows, EndsWithPart
<1> DEFINE U == UnitsOf(s)
           h == <<i, "head">>
           b == <<i, "body">>
           v == u \o x
           n == Len(u)
<1>1. u \in Seq(U) /\ n \in Nat
  BY LenProperties DEF Grammatical
<1>2. h \in U /\ b \in U /\ h[1] = i /\ h[2] = "head" /\ b[1] = i /\ b[2] = "body"
  BY DEF UnitsOf
<1>3. (x = <<h>> /\ ~s[i].body) \/ (x = <<h, b>> /\ s[i].body)
  <2>1. i \in DOMAIN s
    BY ScriptsShape, LenProperties
  <2> QED
    BY <2>1 DEF Parts
<1>4. (h = <<1, "head">> <=> i = 1) /\ b # <<1, "head">>
  OBVIOUS
<1> HIDE DEF U, h, b
<1>5. x \in Seq(U) /\ Len(x) \in Nat /\ Len(x) \in {1, 2} /\ x[1] = h
      /\ (Len(x) = 2 => x[2] = b) /\ (Len(x) = 2 <=> s[i].body)
  <2>1. CASE x = <<h>> /\ ~s[i].body
    BY <1>2, <2>1
  <2>2. CASE x = <<h, b>> /\ s[i].body
    BY <1>2, <2>2
  <2> QED
    BY <1>3, <2>1, <2>2
<1>6. /\ v \in Seq(U) /\ Len(v) = n + Len(x)
      /\ \A k \in 1 .. n : v[k] = u[k]
      /\ v[n + 1] = h
      /\ Len(x) = 2 => v[n + 2] = b
  <2>1. /\ v \in Seq(U) /\ Len(v) = n + Len(x)
        /\ \A k \in 1 .. n + Len(x) : v[k] = IF k =< n THEN u[k] ELSE x[k - n]
    BY <1>1, <1>5, ConcatProperties
  <2>2. n + 1 \in 1 .. n + Len(x) /\ ~(n + 1 =< n) /\ (n + 1) - n = 1
    BY <1>1, <1>5
  <2>3. Len(x) = 2 => n + 2 \in 1 .. n + Len(x) /\ ~(n + 2 =< n) /\ (n + 2) - n = 2
    BY <1>1, <1>5
  <2>4. \A k \in 1 .. n : k \in 1 .. n + Len(x) /\ k =< n
    BY <1>1, <1>5
  <2> HIDE DEF v, n
  <2> QED
    BY <1>5, <2>1, <2>2, <2>3, <2>4
<1>7. \A k \in 1 .. Len(v) : k \in 1 .. n \/ k = n + 1 \/ (k = n + 2 /\ Len(x) = 2)
  <2> DEFINE l == Len(v)
             m == Len(x)
  <2>1. n \in Nat /\ l = n + m /\ (m = 1 \/ m = 2)
    BY <1>1, <1>5, <1>6
  <2> HIDE DEF l, m, n
  <2>2. \A k \in 1 .. l : k \in 1 .. n \/ k = n + 1 \/ (k = n + 2 /\ m = 2)
    BY <2>1
  <2> QED
    BY <2>2 DEF l, m, n
<1>8. ASSUME NEW k \in 1 .. Len(v), v[k][2] = "body"
      PROVE  k - 1 \in 1 .. Len(v) /\ v[k - 1] = <<v[k][1], "head">> /\ s[v[k][1]].body
  <2>1. CASE k \in 1 .. n
    <3>1. k - 1 \in 1 .. n /\ u[k - 1] = <<u[k][1], "head">> /\ s[u[k][1]].body
      BY <1>6, <1>8, <2>1 DEF Grammatical
    <3>2. k - 1 \in 1 .. Len(v)
      BY <1>1, <1>5, <1>6, <3>1
    <3> QED
      BY <1>6, <2>1, <3>1, <3>2
  <2>2. k # n + 1
    BY <1>2, <1>6, <1>8
  <2>3. CASE k = n + 2 /\ Len(x) = 2
    <3>1. k - 1 = n + 1 /\ n + 1 \in 1 .. Len(v)
      BY <1>1, <1>6, <2>3
    <3>2. v[k] = b /\ v[k - 1] = h
      BY <1>6, <2>3, <3>1
    <3>3. h = <<b[1], "head">>
      BY <1>2 DEF h
    <3> QED
      BY <1>2, <1>5, <2>3, <3>1, <3>2, <3>3
  <2> QED
    BY <1>7, <2>1, <2>2, <2>3
<1>9. ASSUME NEW k \in 1 .. Len(v), v[k] = <<1, "head">> PROVE k = 1
  <2>1. CASE k \in 1 .. n
    BY <1>6, <1>9, <2>1 DEF Grammatical
  <2>2. CASE k = n + 1
    <3>1. i = 1
      BY <1>4, <1>6, <1>9, <2>2
    <3>2. n = 0
      BY <3>1, EmptySeq
    <3> QED
      BY <2>2, <3>2
  <2>3. ~(k = n + 2 /\ Len(x) = 2)
    BY <1>4, <1>6, <1>9
  <2> QED
    BY <1>7, <2>1, <2>2, <2>3
<1>10. ASSUME NEW k \in 1 .. Len(v), v[k][2] = "head", s[v[k][1]].body
       PROVE  k + 1 \in 1 .. Len(v) /\ v[k + 1] = <<v[k][1], "body">>
  <2>1. CASE k \in 1 .. n
    <3>1. k + 1 \in 1 .. n /\ u[k + 1] = <<u[k][1], "body">>
      BY <1>6, <1>10, <2>1 DEF Grammatical
    <3>2. k + 1 \in 1 .. Len(v)
      BY <1>1, <1>5, <1>6, <3>1
    <3> QED
      BY <1>6, <2>1, <3>1, <3>2
  <2>2. CASE k = n + 1
    <3>1. v[k] = h /\ v[n + 2] = b /\ Len(x) = 2
      BY <1>2, <1>5, <1>6, <1>10, <2>2
    <3>2. k + 1 = n + 2 /\ n + 2 \in 1 .. Len(v)
      BY <1>1, <1>6, <2>2, <3>1
    <3>3. b = <<h[1], "body">>
      BY <1>2 DEF b
    <3> QED
      BY <3>1, <3>2, <3>3
  <2>3. ~(k = n + 2 /\ Len(x) = 2)
    BY <1>2, <1>6, <1>10
  <2> QED
    BY <1>7, <2>1, <2>2, <2>3
<1>11. ASSUME NEW k \in 1 .. Len(v), v[k][2] = "head"
       PROVE  v[k][1] = Before(v, k) + 1
  <2>1. CASE k \in 1 .. n
    <3>1. u[k][1] = Before(u, k) + 1
      BY <1>6, <1>11, <2>1 DEF Grammatical
    <3>2. k # 1 => k - 1 \in 1 .. n
      BY <1>1, <2>1
    <3>3. Before(v, k) = Before(u, k)
      BY <1>6, <3>2 DEF Before
    <3> QED
      BY <1>6, <2>1, <3>1, <3>3
  <2>2. CASE k = n + 1
    <3>1. v[k][1] = i
      BY <1>2, <1>6, <2>2
    <3>2. CASE u = <<>>
      <4>1. n = 0
        BY <3>2
      <4>2. k = 1 /\ i = 1
        BY <2>2, <3>2, <4>1
      <4> QED
        BY <3>1, <4>2 DEF Before
    <3>3. CASE u # <<>>
      <4>1. n # 0
        BY <1>1, <3>3, EmptySeq
      <4>2. k # 1 /\ k - 1 = n /\ n \in 1 .. n
        BY <1>1, <2>2, <4>1
      <4>3. Before(v, k) = u[n][1]
        BY <1>6, <4>2 DEF Before
      <4>4. u[n][1] = i - 1
        BY <3>3
      <4>5. (i - 1) + 1 = i
        OBVIOUS
      <4> QED
        BY <3>1, <4>3, <4>4, <4>5
    <3> QED
      BY <3>2, <3>3
  <2>3. ~(k = n + 2 /\ Len(x) = 2)
    BY <1>2, <1>6, <1>11
  <2> QED
    BY <1>7, <2>1, <2>2, <2>3
<1>12. v[Len(v)][1] = i
  <2>1. Len(x) = 1 \/ Len(x) = 2
    BY <1>5
  <2> HIDE DEF v, n
  <2> QED
    BY <1>2, <1>6, <2>1
<1> QED
  BY <1>6, <1>8, <1>9, <1>10, <1>11, <1>12 DEF Grammatical, U

LEMMA UnitsGrammatical ==
    ASSUME script \in Scripts
    PROVE  Grammatical(script, Units)
<1> DEFINE q == Parts(script)
           S == UnitsOf(script)
           F(j) == FlattenSeq(SubSeq(q, 1, j))
           Good(j) == /\ Grammatical(script, F(j)) /\ (F(j) = <<>> <=> j = 0)
                      /\ j # 0 => F(j)[Len(F(j))][1] = j
           T == {j \in Nat : j =< Len(q) /\ ~Good(j)}
<1>1. q \in Seq(Seq(S)) /\ Len(q) = Len(script) /\ Len(q) \in Nat
  BY PartsTyped, LenProperties
<1>2. Units = F(Len(q))
  <2>1. Units = FlattenSeq(q)
    BY DEF Units, Parts
  <2>2. SubSeq(q, 1, Len(q)) = q
    <3> HIDE DEF q, S
    <3> QED
      BY <1>1, SubSeqFull
  <2> QED
    BY <2>1, <2>2
<1>3. SUFFICES ASSUME T # {} PROVE FALSE
  BY <1>1, <1>2
<1>4. PICK j \in T : \A y \in T : j =< y
  <2>1. T \in SUBSET Nat
    OBVIOUS
  <2> HIDE DEF T
  <2> QED
    BY <1>3, <2>1, LeastOf
<1>5. j # 0
  <2>1. SubSeq(q, 1, 0) = <<>>
    BY SubSeqEmpty
  <2>2. F(0) = <<>>
    BY <2>1, FlattenNone
  <2>3. Grammatical(script, <<>>)
    BY EmptySeq DEF Grammatical
  <2> HIDE DEF F
  <2> QED
    BY <2>2, <2>3
<1>6. j \in Nat /\ j \in 1 .. Len(q) /\ j - 1 \in Nat /\ j - 1 =< Len(q) /\ ~(j =< j - 1)
  BY <1>1, <1>5
<1>7. Good(j - 1)
  <2> HIDE DEF Good
  <2> QED
    BY <1>4, <1>6
<1>8. ~Good(j)
  <2> HIDE DEF Good
  <2> QED
    BY <1>4
<1> HIDE DEF T
<1>9. F(j) = F(j - 1) \o q[j] /\ q[j] \in Seq(S) /\ F(j - 1) \in Seq(S)
  <2> DEFINE d == SubSeq(q, 1, j - 1)
  <2> HIDE DEF q, S
  <2>1. q[j] \in Seq(S)
    BY <1>1, <1>6, ElementOfSeq
  <2>2. d \in Seq(Seq(S))
    BY <1>1, <1>6, SubSeqProperties, ElementOfSeq
  <2>3. SubSeq(q, 1, j) = Append(d, q[j])
    <3>1. SubSeq(q, 1, j) = d \o <<q[j]>>
      BY <1>1, <1>6, SubSeqRecursiveSecond
    <3> QED
      BY <2>1, <2>2, <3>1, AppendIsConcat
  <2> HIDE DEF d
  <2>4. FlattenSeq(Append(d, q[j])) = FlattenSeq(d) \o q[j] /\ FlattenSeq(d) \in Seq(S)
    BY <2>1, <2>2, FlattenAppend
  <2> QED
    BY <2>1, <2>3, <2>4 DEF d
<1>10. Grammatical(script, F(j)) /\ F(j)[Len(F(j))][1] = j
  <2>1. Grammatical(script, F(j - 1)) /\ (j = 1 <=> F(j - 1) = <<>>) /\ j \in 1 .. Len(script)
        /\ (F(j - 1) # <<>> => F(j - 1)[Len(F(j - 1))][1] = j - 1)
    BY <1>1, <1>6, <1>7
  <2> DEFINE u == F(j - 1)
             x == q[j]
             v == F(j)
  <2>2. x = Parts(script)[j] /\ v = u \o x
    BY <1>9
  <2> HIDE DEF F, q, u, x, v
  <2>3. Grammatical(script, u) /\ (j = 1 <=> u = <<>>) /\ j \in 1 .. Len(script)
        /\ (u # <<>> => u[Len(u)][1] = j - 1)
    BY <2>1 DEF u
  <2>4. Grammatical(script, u \o x) /\ (u \o x)[Len(u \o x)][1] = j
    <3>1. PartFollows(script, u, x, j)
      BY <2>2, <2>3 DEF PartFollows
    <3>2. EndsWithPart(script, u \o x, j)
      BY <3>1, GrammaticalLonger
    <3> QED
      BY <3>2 DEF EndsWithPart
  <2> QED
    BY <2>2, <2>4 DEF v
<1>11. F(j) # <<>>
  <2>1. q[j] # <<>>
    <3>1. j \in DOMAIN script
      BY <1>1, <1>6, ScriptsShape, LenProperties
    <3> QED
      BY <3>1 DEF Parts
  <2> HIDE DEF F, q, S
  <2> QED
    BY <1>9, <2>1, ConcatEqualIffEmpty
<1> QED
  BY <1>5, <1>8, <1>10, <1>11

----------------------------------------------------------------------------
(* Types: the requests *)

\* received() would still parse what comes next.
ParserLive == requests_lock = Main \/ ~AboutToClose

RequestsTyped ==
    /\ requests \in Seq(1 .. Len(script))
    /\ request \in [id : 0 .. Len(script), expect : BOOLEAN, completed : BOOLEAN]
    /\ request.completed => request.id # 0
    /\ ParserLive /\ parsed < Len(Units) /\ Units[parsed + 1][2] = "body" =>
           request.id = Units[parsed + 1][1] /\ ~request.completed

LEMMA LiveBefore ==
    ASSUME IInv, [Next]_vars, ParserLive'
    PROVE  ParserLive
<1>1. CASE UNCHANGED vars \/ ClientStep
  BY <1>1 DEF vars, ClientStep, client_sends, client_reads, client_leaves,
              time_passes, server, shared, locks, ParserLive, AboutToClose
<1>2. ASSUME NEW t \in Threads,
             flush_some(t) \/ send_continue(t) \/ handle_close(t) \/ dispatcher_close(t)
      PROVE  ParserLive
  <2>1. CASE \/ flush_top(t) \/ send_some(t) \/ send_nothing(t)
             \/ flush_skip(t) \/ flush_deduct(t)
             \/ handle_close(t) \/ dispatcher_close(t) \/ send_continue(t)
    BY <2>1 DEF flush_top, send_some, send_nothing,
       flush_skip, flush_deduct, SentOn, handle_close,
       dispatcher_close, send_continue, shared, locks, ParserLive, AboutToClose
  <2>2. CASE flush_return(t)
    <3>1. UNCHANGED <<will_close, close_when_flushed>>
      BY <2>2 DEF flush_return
    <3>2. \/ flush[t].ctx = "continue" /\ requests_lock' = IF t = Main THEN Main ELSE None
          \/ requests_lock' = requests_lock
      BY <2>2 DEF flush_return, FlushReturned, locks
    <3>3. flush[t].ctx = "continue" => requests_lock = t
      BY DEF IInv, LockIsHeld, HoldsRequests, Continuing
    <3> QED
      BY <3>1, <3>2, <3>3, ThreadKinds DEF ParserLive, AboutToClose
  <2>3. CASE flush_raise(t)
    <3>1. close_when_flushed' = close_when_flushed /\ (will_close => will_close')
      BY <2>3 DEF flush_raise, FlushRaised
    <3>2. requests_lock' \in {None, requests_lock}
      BY <2>3 DEF flush_raise, FlushRaised
    <3> QED
      BY <3>1, <3>2, ThreadKinds DEF ParserLive, AboutToClose
  <2> QED
    BY <1>2, <2>1, <2>2, <2>3 DEF flush_some
<1>3. CASE \/ server_readable \/ readable \/ writable \/ enter_select \/ select_returns
           \/ select_times_out \/ trigger_read \/ interrupt \/ handle_read
           \/ handle_write \/ after_flush \/ shutdown
  BY <1>3 DEF server_readable, readable, writable, enter_select, select_returns,
              select_times_out, trigger_read, interrupt, handle_read, handle_write,
              after_flush, shutdown, shared, locks, ParserLive, AboutToClose
<1>4. CASE received \/ parse \/ queue_request
  <2>1. received => (requests_lock' = Main => ~AboutToClose)
                    /\ UNCHANGED <<will_close, close_when_flushed>>
    BY ThreadKinds DEF received, shared
  <2>2. ~(parse \/ queue_request) \/ requests_lock = Main
    BY <1>4, ThreadKinds
    DEF parse, queue_request, IInv, LockIsHeld, HoldsRequests
  <2> QED
    BY <1>4, <2>1, <2>2 DEF ParserLive, AboutToClose
<1>5. ASSUME NEW w \in Workers,
             \/ take_task(w) \/ service_start(w) \/ app_writes(w) \/ app_raises(w)
             \/ write_soon(w) \/ put(w) \/ wait_returns(w) \/ finish(w)
      PROVE  ParserLive
  BY <1>5 DEF take_task, service_start, app_writes, app_raises, write_soon, put,
              wait_returns, finish, shared, locks, ParserLive, AboutToClose
<1>6. ASSUME NEW w \in Workers,
             \/ flush_before_next(w) \/ close_soon(w) \/ drop_requests(w)
             \/ pop_request(w) \/ next_request(w) \/ service_ends(w)
      PROVE  ParserLive
  BY <1>6, ThreadKinds DEF flush_before_next, close_soon, drop_requests,
     pop_request, next_request, service_ends, shared, locks, ParserLive, AboutToClose
<1> QED
  BY <1>1, <1>2, <1>3, <1>4, <1>5, <1>6, ThreadKinds DEF Next, MainStep, WorkerStep

LEMMA NextUnit ==
    ASSUME InputTyped, parsed < Len(Units)
    PROVE  /\ parsed + 1 \in 1 .. Len(Units)
           /\ Units[parsed + 1] \in UnitsOf(script)
           /\ Units[parsed + 1][1] \in 1 .. Len(script)
<1>1. parsed + 1 \in 1 .. Len(Units) /\ Units \in Seq(UnitsOf(script))
  BY UnitsTyped DEF InputTyped
<1>2. Units[parsed + 1] \in UnitsOf(script)
  BY <1>1, ElementOfSeq
<1> QED
  BY <1>1, <1>2 DEF UnitsOf

LEMMA ParseTyped ==
    ASSUME IInv, InputTyped, RequestsTyped, parse
    PROVE  RequestsTyped'
<1> DEFINE u == Units[parsed + 1]
           v == Units[parsed + 2]
           id == u[1]
<1>1. /\ UNCHANGED <<requests, script>> /\ parsed' = parsed + 1
      /\ pc[Main] = "parse" /\ parsed < Len(Units) /\ Units' = Units
      /\ parsed \in Nat /\ Len(Units) \in Nat
  <2>1. /\ UNCHANGED <<requests, script>> /\ parsed' = parsed + 1 /\ pc[Main] = "parse"
    BY DEF parse, client
  <2>2. Units' = Units
    BY <2>1 DEF Units
  <2>3. Len(Units) \in Nat
    BY UnitsTyped DEF InputTyped
  <2> QED
    BY <2>1, <2>2, <2>3 DEF InputTyped
<1>2. ParserLive
  BY <1>1, ThreadKinds DEF IInv, LockIsHeld, HoldsRequests, ParserLive
<1>3. u \in UnitsOf(script) /\ id \in 1 .. Len(script) /\ id # 0 /\ u[2] \in {"head", "body"}
      /\ u = <<u[1], u[2]>>
  BY <1>1, NextUnit DEF UnitsOf
<1>4. id \in DOMAIN script /\ script \in Seq(Requests) /\ script \in Scripts
      /\ script[id] \in Requests /\ (script[id].body => ~script[id].error)
  <2>1. script \in Scripts /\ script \in Seq(Requests)
    BY ScriptsShape DEF InputTyped
  <2>2. id \in DOMAIN script
    BY <1>3, <2>1, LenProperties
  <2>3. script[id] \in Requests
    BY <1>3, <2>1, ElementOfSeq
  <2> QED
    BY <2>1, <2>2, <2>3, ScriptsShape
<1>5. request' = IF u[2] = "body" THEN [request EXCEPT !.completed = TRUE]
                 ELSE [id |-> id, expect |-> script[id].expect,
                       completed |-> ~script[id].body \/ script[id].error]
  BY DEF parse
<1>6. ASSUME parsed + 1 < Len(Units), v[2] = "body"
      PROVE  u = <<v[1], "head">> /\ script[v[1]].body
  <2>1. parsed + 2 \in 1 .. Len(Units) /\ (parsed + 2) - 1 = parsed + 1
    BY <1>1, <1>6
  <2>2. Grammatical(script, Units)
    BY <1>4, UnitsGrammatical
  <2> QED
    BY <1>6, <2>1, <2>2 DEF Grammatical
<1>7. Units'[parsed' + 1] = v
  BY <1>1
<1> HIDE DEF u, v
<1>8. CASE u[2] = "body"
  <2>1. request.id = id
    BY <1>1, <1>2, <1>8 DEF RequestsTyped, u
  <2>2. ~(parsed + 1 < Len(Units) /\ v[2] = "body")
    BY <1>6, <1>8
  <2>3. request' = [request EXCEPT !.completed = TRUE]
    BY <1>5, <1>8
  <2> QED
    BY <1>1, <1>3, <1>7, <2>1, <2>2, <2>3 DEF RequestsTyped
<1>9. CASE u[2] # "body"
  <2>1. request' = [id |-> id, expect |-> script[id].expect,
                    completed |-> ~script[id].body \/ script[id].error]
    BY <1>5, <1>9
  <2>2. /\ request' \in [id : 0 .. Len(script), expect : BOOLEAN, completed : BOOLEAN]
        /\ request'.id = id
        /\ request'.completed <=> ~script[id].body \/ script[id].error
    <3>1. id \in 0 .. Len(script)
      BY <1>3
    <3>2. script[id].expect \in BOOLEAN
      BY <1>4 DEF Requests
    <3> DEFINE c == ~script[id].body \/ script[id].error
    <3>3. c \in BOOLEAN
      OBVIOUS
    <3> HIDE DEF c, id
    <3> QED
      BY <2>1, <3>1, <3>2, <3>3 DEF c
  <2>3. parsed + 1 < Len(Units) /\ v[2] = "body" => v[1] = id /\ ~request'.completed
    BY <1>4, <1>6, <2>2
  <2> HIDE DEF id
  <2> QED
    BY <1>1, <1>3, <1>7, <2>2, <2>3 DEF RequestsTyped
<1> QED
  BY <1>8, <1>9

LEMMA QueueTyped ==
    ASSUME IInv, InputTyped, RequestsTyped, queue_request
    PROVE  RequestsTyped'
<1>1. /\ UNCHANGED <<script, parsed>> /\ pc[Main] = "queue" /\ Units' = Units
  BY DEF queue_request, client, input, Units
<1>2. ParserLive
  BY <1>1, ThreadKinds DEF IInv, LockIsHeld, HoldsRequests, ParserLive
<1>3. CASE request.completed
  <2>1. request.id \in 1 .. Len(script)
    BY <1>3 DEF RequestsTyped
  <2>2. requests' = requests \/ requests' = Append(requests, request.id)
    BY <1>3 DEF queue_request
  <2>3. requests' \in Seq(1 .. Len(script))
    BY <2>1, <2>2, AppendProperties DEF RequestsTyped
  <2>4. request' = NoRequest
    BY <1>3 DEF queue_request
  <2>5. /\ request' \in [id : 0 .. Len(script), expect : BOOLEAN, completed : BOOLEAN]
        /\ ~request'.completed
    <3>1. 0 \in 0 .. Len(script)
      BY ScriptsShape, LenProperties DEF InputTyped
    <3> QED
      BY <2>4, <3>1 DEF NoRequest
  <2>6. ~(parsed < Len(Units) /\ Units[parsed + 1][2] = "body")
    BY <1>2, <1>3 DEF RequestsTyped
  <2> QED
    BY <1>1, <2>3, <2>5, <2>6 DEF RequestsTyped
<1>4. CASE ~request.completed
  <2>1. UNCHANGED <<request, requests>>
    BY <1>4 DEF queue_request
  <2> QED
    BY <1>1, <1>2, <2>1 DEF RequestsTyped
<1> QED
  BY <1>3, <1>4

\* The parser's progress and the request stay, or only the request's flags do not.
LEMMA RequestStays ==
    ASSUME RequestsTyped, ParserLive' => ParserLive,
           UNCHANGED <<script, parsed>>,
           requests' \in Seq(1 .. Len(script)),
           \/ request' = request
           \/ request' = [request EXCEPT !.expect = FALSE]
           \/ request' = [request EXCEPT !.completed = FALSE]
    PROVE  RequestsTyped'
<1>1. /\ request' \in [id : 0 .. Len(script), expect : BOOLEAN, completed : BOOLEAN]
      /\ request'.id = request.id /\ (request'.completed => request.completed)
  BY DEF RequestsTyped
<1>2. Units' = Units
  BY DEF Units
<1> QED
  BY <1>1, <1>2 DEF RequestsTyped

LEMMA RequestsKept ==
    ASSUME IInv, InputTyped, RequestsTyped, [Next]_vars
    PROVE  RequestsTyped'
<1>1. /\ ParserLive' => ParserLive
      /\ requests \in Seq(1 .. Len(script))
      /\ <<>> \in Seq(1 .. Len(script))
  BY LiveBefore, EmptySeq DEF RequestsTyped
<1>2. CASE UNCHANGED vars \/ ClientStep
  <2>1. UNCHANGED <<script, parsed, requests, request>>
    BY <1>2 DEF vars, ClientStep, client_sends, client_reads, client_leaves,
                time_passes, server, shared, client, input
  <2> QED
    BY <1>1, <2>1, RequestStays
<1>3. ASSUME NEW t \in Threads,
             flush_some(t) \/ send_continue(t) \/ handle_close(t) \/ dispatcher_close(t)
      PROVE  RequestsTyped'
  <2>1. UNCHANGED <<script, parsed, requests>>
    BY <1>3, FlushLeavesAlone DEF client, input
  <2>2. CASE \/ flush_top(t) \/ send_some(t) \/ send_nothing(t)
             \/ flush_skip(t) \/ flush_deduct(t)
             \/ handle_close(t) \/ dispatcher_close(t) \/ send_continue(t) \/ flush_raise(t)
    <3>1. request' = request \/ request' = [request EXCEPT !.expect = FALSE]
      BY <2>2 DEF flush_top, send_some, send_nothing,
         flush_skip, flush_deduct, SentOn, handle_close,
         dispatcher_close, send_continue, flush_raise, shared
    <3> QED
      BY <1>1, <2>1, <3>1, RequestStays
  <2>3. CASE flush_return(t)
    <3>1. request' = request \/ request' = [request EXCEPT !.completed = FALSE]
      BY <2>3 DEF flush_return, FlushReturned
    <3> QED
      BY <1>1, <2>1, <3>1, RequestStays
  <2> QED
    BY <1>3, <2>2, <2>3 DEF flush_some
<1>4. CASE \/ server_readable \/ readable \/ writable \/ enter_select \/ select_returns
           \/ select_times_out \/ trigger_read \/ interrupt \/ handle_read
           \/ handle_write \/ after_flush \/ shutdown
  <2>1. UNCHANGED <<script, parsed, request>> /\ requests' \in {requests, <<>>}
    BY <1>4 DEF server_readable, readable, writable, enter_select, select_returns,
                select_times_out, trigger_read, interrupt, handle_read, handle_write,
                after_flush, shutdown, shared, client, input
  <2> QED
    BY <1>1, <2>1, RequestStays
<1>5. CASE received
  <2>1. UNCHANGED <<script, requests, request>>
    BY <1>5 DEF received, shared, client
  <2>2. CASE AboutToClose
    <3>1. ~ParserLive'
      <4>1. AboutToClose' /\ requests_lock' = None
        BY <1>5, <2>2, ThreadKinds DEF received, shared, AboutToClose
      <4> QED
        BY <4>1, ThreadKinds DEF ParserLive
    <3> QED
      BY <2>1, <3>1 DEF RequestsTyped
  <2>3. CASE ~AboutToClose
    <3>1. parsed' = parsed
      BY <1>5, <2>3 DEF received
    <3> QED
      BY <1>1, <2>1, <3>1, RequestStays
  <2> QED
    BY <2>2, <2>3
<1>6. CASE parse \/ queue_request
  BY <1>6, ParseTyped, QueueTyped
<1>7. ASSUME NEW w \in Workers,
             \/ take_task(w) \/ service_start(w) \/ app_writes(w) \/ app_raises(w)
             \/ write_soon(w) \/ put(w) \/ wait_returns(w) \/ finish(w)
             \/ flush_before_next(w) \/ close_soon(w) \/ drop_requests(w)
             \/ next_request(w) \/ service_ends(w)
      PROVE  RequestsTyped'
  <2>1. UNCHANGED <<script, parsed>>
    BY <1>7, WorkersLeaveAlone DEF WorkerStep, client, input
  <2>2. UNCHANGED request /\ requests' \in {requests, <<>>}
    BY <1>7 DEF take_task, service_start, app_writes, app_raises, write_soon, put,
       wait_returns, finish, flush_before_next, close_soon, drop_requests,
       next_request, service_ends, shared
  <2> QED
    BY <1>1, <2>1, <2>2, RequestStays
<1>8. ASSUME NEW w \in Workers, pop_request(w) PROVE RequestsTyped'
  <2>1. UNCHANGED <<script, parsed, request>> /\ requests' = Tail(requests) /\ pc[w] = "pop"
    BY <1>8 DEF pop_request, client, input
  <2>2. requests # <<>>
    <3>1. InService(w)
      BY <2>1, ThreadKinds DEF InService, IInv, Shapes, InFlush
    <3>2. ~NoServant
      BY <3>1 DEF NoServant
    <3> QED
      BY <3>2 DEF IInv, Service
  <2>3. requests' \in Seq(1 .. Len(script))
    BY <1>1, <2>1, <2>2, HeadTailProperties
  <2> QED
    BY <1>1, <2>1, <2>3, RequestStays
<1> QED
  BY <1>2, <1>3, <1>4, <1>5, <1>6, <1>7, <1>8, ThreadKinds DEF Next, MainStep, WorkerStep

----------------------------------------------------------------------------
(* Types: what the workers have to write *)

Jobs == [id : Nat, todo : Seq(Writes), k : Nat, close : BOOLEAN, exc : BOOLEAN]

\* write_soon has a chunk, also while it waits for the buffers to drain.
Chunked(w) == pc[w] \in {"write_soon", "put"} \/ flush[w].ctx = "hwm"

JobsTyped ==
    /\ job \in [Workers -> Jobs]
    /\ \A w \in Workers : Chunked(w) => job[w].todo # <<>>

LEMMA JobsMove ==
    ASSUME JobsTyped, NEW t \in Threads, Moves(t), job' \in [Workers -> Jobs],
           \A v \in Workers \ {t} : job'[v].todo = job[v].todo,
           t \in Workers /\ Chunked(t)' => job'[t].todo # <<>>
    PROVE  JobsTyped'
<1> SUFFICES ASSUME NEW v \in Workers \ {t}, Chunked(v)' PROVE job'[v].todo # <<>>
  BY DEF JobsTyped
<1>1. Chunked(v)
  BY ThreadKinds DEF Moves, Chunked
<1> QED
  BY <1>1 DEF JobsTyped

LEMMA FlushJobs ==
    ASSUME Shapes, JobsTyped, NEW t \in Threads,
           flush_some(t) \/ send_continue(t) \/ handle_close(t) \/ dispatcher_close(t)
    PROVE  JobsTyped'
<1>1. Moves(t)
  BY FlushMoves
<1>2. CASE \/ flush_top(t) \/ send_some(t) \/ send_nothing(t)
           \/ flush_skip(t) \/ flush_deduct(t)
           \/ handle_close(t) \/ dispatcher_close(t)
  <2>1. job' = job
    BY <1>2 DEF flush_top, send_some, send_nothing,
       flush_skip, flush_deduct, SentOn, handle_close,
                dispatcher_close
  <2>2. pc'[t] \notin {"write_soon", "put"} /\ flush'[t].ctx = flush[t].ctx
    BY <1>2, TopMoves, SendMoves, SkipMoves, CloseMoves, DispatcherCloseMoves DEF Within
  <2> QED
    BY <1>1, <2>1, <2>2, JobsMove DEF JobsTyped, Chunked
<1>3. CASE flush_return(t)
  <2>1. job' = job
    BY <1>3 DEF flush_return
  <2>2. \/ pc'[t] \notin {"write_soon", "put"}
           /\ (flush'[t].ctx = "" \/ flush'[t].ctx = flush[t].ctx)
        \/ flush[t].ctx = "hwm"
    BY <1>3, ReturnMoves DEF Within, Leaves
  <2> QED
    BY <1>1, <2>1, <2>2, JobsMove DEF JobsTyped, Chunked
<1>4. CASE flush_raise(t)
  <2>1. job' = job \/ job' = [job EXCEPT ![t].exc = TRUE]
    BY <1>4 DEF flush_raise, FlushRaised
  <2>2. job' \in [Workers -> Jobs] /\ \A w \in Workers : job'[w].todo = job[w].todo
    <3>1. CASE job' = job
      BY <3>1 DEF JobsTyped
    <3>2. CASE job' = [job EXCEPT ![t].exc = TRUE] /\ t \in Workers
      <4>1. [job[t] EXCEPT !.exc = TRUE] \in Jobs
        BY <3>2 DEF JobsTyped, Jobs
      <4>2. job' = [job EXCEPT ![t] = [job[t] EXCEPT !.exc = TRUE]]
        BY <3>2 DEF JobsTyped
      <4> QED
        BY <4>1, <4>2, <3>2 DEF JobsTyped
    <3>3. CASE job' = [job EXCEPT ![t].exc = TRUE] /\ t \notin Workers
      <4>1. job' = job
        BY <3>3 DEF JobsTyped
      <4> QED
        BY <4>1 DEF JobsTyped
    <3> QED
      BY <2>1, <3>1, <3>2, <3>3
  <2>3. /\ pc'[t] \notin {"write_soon", "put"}
        /\ flush'[t].ctx = "" \/ flush'[t].ctx = flush[t].ctx
    BY <1>4, RaiseMoves DEF Within, Leaves
  <2> QED
    BY <1>1, <2>2, <2>3, JobsMove DEF JobsTyped, Chunked
<1>5. CASE send_continue(t)
  <2>1. job' = job
    BY <1>5 DEF send_continue
  <2>2. pc'[t] \in {"top", "raised"} /\ flush'[t].ctx = "continue"
    BY <1>5, ContinueMoves
  <2> QED
    BY <1>1, <2>1, <2>2, JobsMove DEF JobsTyped, Chunked
<1> QED
  BY <1>2, <1>3, <1>4, <1>5 DEF flush_some

\* A worker that gives its chunks up, or goes on to the next one.
LEMMA JobFields ==
    ASSUME JobsTyped, NEW w \in Workers,
           \/ job' = job
           \/ GivesUp(w)
           \/ job' = [job EXCEPT ![w].exc = FALSE]
           \/ \E td \in Seq(Writes), c \in BOOLEAN :
                 job' = [job EXCEPT ![w].todo = td, ![w].close = c]
           \/ \E td \in Seq(Writes), n \in Nat :
                 job' = [job EXCEPT ![w].todo = td, ![w].k = n]
           \/ \E j \in Jobs : job' = [job EXCEPT ![w] = j]
    PROVE  job' \in [Workers -> Jobs] /\ \A v \in Workers \ {w} : job'[v].todo = job[v].todo
<1>1. <<>> \in Seq(Writes)
  BY EmptySeq
<1>2. job \in [Workers -> Jobs]
  BY DEF JobsTyped
<1>3. ASSUME NEW j \in Jobs, job' = [job EXCEPT ![w] = j]
      PROVE  job' \in [Workers -> Jobs] /\ \A v \in Workers \ {w} : job'[v].todo = job[v].todo
  BY <1>2, <1>3
<1>4. ASSUME NEW td \in Seq(Writes), NEW c \in BOOLEAN,
             job' = [job EXCEPT ![w].todo = td, ![w].close = c]
      PROVE  \E j \in Jobs : job' = [job EXCEPT ![w] = j]
  <2>1. [[job[w] EXCEPT !.todo = td] EXCEPT !.close = c] \in Jobs
    BY <1>2 DEF Jobs
  <2>2. job' = [job EXCEPT ![w] = [[job[w] EXCEPT !.todo = td] EXCEPT !.close = c]]
    BY <1>2, <1>4
  <2> QED
    BY <2>1, <2>2
<1>5. ASSUME NEW td \in Seq(Writes), NEW n \in Nat,
             job' = [job EXCEPT ![w].todo = td, ![w].k = n]
      PROVE  \E j \in Jobs : job' = [job EXCEPT ![w] = j]
  <2>1. [[job[w] EXCEPT !.todo = td] EXCEPT !.k = n] \in Jobs
    BY <1>2 DEF Jobs
  <2>2. job' = [job EXCEPT ![w] = [[job[w] EXCEPT !.todo = td] EXCEPT !.k = n]]
    BY <1>2, <1>5
  <2> QED
    BY <2>1, <2>2
<1>6. ASSUME job' = [job EXCEPT ![w].exc = FALSE]
      PROVE  \E j \in Jobs : job' = [job EXCEPT ![w] = j]
  <2>1. [job[w] EXCEPT !.exc = FALSE] \in Jobs
    BY <1>2 DEF Jobs
  <2> QED
    BY <1>2, <1>6, <2>1
<1>7. GivesUp(w) => \E td \in Seq(Writes), c \in BOOLEAN :
                        job' = [job EXCEPT ![w].todo = td, ![w].close = c]
  BY <1>1 DEF GivesUp
<1> QED
  BY <1>2, <1>3, <1>4, <1>5, <1>6, <1>7

LEMMA WorkerJobs ==
    ASSUME IInv, IdleOutside, InputTyped, RequestsTyped, JobsTyped, NEW w \in Workers,
           \/ take_task(w) \/ service_start(w) \/ app_writes(w) \/ app_raises(w)
           \/ write_soon(w) \/ put(w) \/ wait_returns(w) \/ finish(w)
           \/ flush_before_next(w) \/ close_soon(w) \/ drop_requests(w)
           \/ pop_request(w) \/ next_request(w) \/ service_ends(w)
    PROVE  JobsTyped'
<1>1. Moves(w) /\ w \in Threads
  BY WorkerMovesOnly, ThreadKinds DEF WorkerStep, IInv
<1>2. job \in [Workers -> Jobs] /\ <<>> \in Seq(Writes)
  BY EmptySeq DEF JobsTyped
<1>3. DOMAIN pc = Threads /\ DOMAIN flush = Threads /\ \A t \in Threads : "ctx" \in DOMAIN flush[t]
  BY DEF IInv, Shapes, FlushFields
<1>4. ASSUME job' \in [Workers -> Jobs] /\ \A v \in Workers \ {w} : job'[v].todo = job[v].todo,
             (pc'[w] \notin {"write_soon", "put"} /\ flush'[w].ctx # "hwm") \/ job'[w].todo # <<>>
      PROVE  JobsTyped'
  BY <1>1, <1>4, JobsMove DEF Chunked
<1>5. CASE take_task(w) \/ finish(w) \/ close_soon(w) \/ drop_requests(w)
           \/ pop_request(w) \/ next_request(w)
  <2>1. job' = job /\ pc[w] \notin Busy /\ flush' = flush
    BY <1>5 DEF take_task, finish, close_soon, drop_requests, pop_request, next_request,
                Busy, InFlush
  <2>2. pc'[w] \notin {"write_soon", "put"}
    BY <1>1, <1>3, <1>5 DEF take_task, finish, close_soon, drop_requests, pop_request,
                            next_request, Go
  <2> QED
    BY <1>1, <1>2, <1>4, <2>1, <2>2 DEF IdleOutside
<1>6. CASE service_start(w)
  <2>1. pc[w] = "service" /\ pc'[w] \in {"app", "finish"} /\ flush' = flush
    BY <1>1, <1>3, <1>6 DEF service_start, Go
  <2>2. flush'[w].ctx # "hwm"
    BY <1>1, <2>1 DEF IdleOutside, Busy, InFlush
  <2> DEFINE id == Head(requests)
  <2>3. id \in 1 .. Len(script)
    BY <1>6, HeadTailProperties DEF service_start, RequestsTyped
  <2>4. script \in Scripts /\ script \in Seq(Requests)
    BY ScriptsShape DEF InputTyped
  <2>5. script[id] \in Requests /\ id \in Nat
    BY <2>3, <2>4, ElementOfSeq
  <2> DEFINE j == [id |-> id, k |-> 1, exc |-> FALSE,
                   todo |-> IF connected THEN script[id].writes ELSE <<>>,
                   close |-> script[id].close \/ ~connected]
  <2>6. j \in Jobs
    BY <1>2, <2>5 DEF Jobs, Requests
  <2>7. job' = [job EXCEPT ![w] = j]
    BY <1>6 DEF service_start
  <2> HIDE DEF id, j
  <2>8. job' \in [Workers -> Jobs] /\ \A v \in Workers \ {w} : job'[v].todo = job[v].todo
    BY <2>6, <2>7, JobFields
  <2> QED
    BY <1>4, <2>1, <2>2, <2>8
<1>7. CASE app_writes(w)
  <2>1. pc[w] = "app" /\ flush' = flush /\ flush[w].ctx = ""
    BY <1>1, <1>7 DEF app_writes, IdleOutside, Busy, InFlush
  <2>2. job' = job \/ GivesUp(w)
    BY <1>7 DEF app_writes
  <2>3. pc'[w] = "finish" \/ (job' = job /\ job[w].todo # <<>>)
    BY <1>1, <1>3, <1>7 DEF app_writes, Go
  <2> QED
    BY <1>4, <2>1, <2>2, <2>3, JobFields
<1>8. CASE app_raises(w)
  <2>1. pc[w] = "app" /\ flush' = flush /\ flush[w].ctx = ""
    BY <1>1, <1>8 DEF app_raises, IdleOutside, Busy, InFlush
  <2>2. pc'[w] \in {"app", "finish"}
    BY <1>1, <1>3, <1>8 DEF app_raises, Go
  <2> DEFINE e == << [size |-> 1, file |-> FALSE] >>
  <2>3. e \in Seq(Writes)
    <3>1. [size |-> 1, file |-> FALSE] \in Writes
      BY DEF Writes
    <3> QED
      BY <3>1
  <2> HIDE DEF e
  <2>4. GivesUp(w) \/ job' = [job EXCEPT ![w].todo = e, ![w].close = TRUE]
    BY <1>8 DEF app_raises, e
  <2>5. GivesUp(w) \/ \E td \in Seq(Writes), c \in BOOLEAN :
                         job' = [job EXCEPT ![w].todo = td, ![w].close = c]
    BY <2>3, <2>4
  <2>6. job' \in [Workers -> Jobs] /\ \A v \in Workers \ {w} : job'[v].todo = job[v].todo
    BY <2>5, JobFields
  <2> QED
    BY <1>4, <2>1, <2>2, <2>6
<1>9. CASE write_soon(w)
  <2>1. job[w].todo # <<>> /\ job' = job
    BY <1>9 DEF write_soon, JobsTyped, Chunked
  <2> QED
    BY <1>2, <1>4, <2>1
<1>10. CASE put(w)
  <2>1. pc[w] = "put" /\ flush[w].ctx = ""
    BY <1>1, <1>10 DEF put, IdleOutside, Busy, InFlush
  <2>2. pc'[w] \in {"finish", "top", "app"} /\ flush'[w].ctx \in {"", "write"}
    BY <1>1, <1>3, <1>10, <2>1 DEF put, Go, StartFlush
  <2>3. job[w].todo # <<>> /\ job[w] \in Jobs
    BY <1>2, <2>1 DEF JobsTyped, Chunked
  <2> DEFINE td == Tail(job[w].todo)
             n == job[w].k + Head(job[w].todo).size
  <2>4. td \in Seq(Writes) /\ n \in Nat
    <3>1. job[w].todo \in Seq(Writes) /\ job[w].k \in Nat
      BY <2>3 DEF Jobs
    <3>2. td \in Seq(Writes) /\ Head(job[w].todo) \in Writes
      BY <3>1, <2>3, HeadTailProperties
    <3>3. Head(job[w].todo).size \in Nat
      BY <3>2 DEF Writes
    <3> QED
      BY <3>1, <3>2, <3>3
  <2>5. GivesUp(w) \/ job' = [job EXCEPT ![w].todo = td, ![w].k = n]
    <3>1. GivesUp(w) \/ job' = [job EXCEPT ![w].todo = Tail(@), ![w].k = @ + Head(job[w].todo).size]
      BY <1>10 DEF put
    <3>2. [job EXCEPT ![w].todo = Tail(@), ![w].k = @ + Head(job[w].todo).size]
            = [job EXCEPT ![w].todo = td, ![w].k = n]
      BY <1>2, <2>3 DEF Jobs
    <3> QED
      BY <3>1, <3>2
  <2> HIDE DEF td, n
  <2>6. job' \in [Workers -> Jobs] /\ \A v \in Workers \ {w} : job'[v].todo = job[v].todo
    BY <2>4, <2>5, JobFields
  <2> QED
    BY <1>4, <2>2, <2>6
<1>11. CASE wait_returns(w)
  <2>1. job' = [job EXCEPT ![w].exc = FALSE] /\ pc[w] = "relock"
    BY <1>11 DEF wait_returns
  <2>2. job' \in [Workers -> Jobs] /\ \A v \in Workers \ {w} : job'[v].todo = job[v].todo
    BY <2>1, JobFields
  <2>3. job'[w].todo = job[w].todo
    BY <1>2, <2>1 DEF Jobs
  <2>4. CASE flush[w].ctx = "hwm"
    <3>1. job[w].todo # <<>>
      BY <2>4 DEF JobsTyped, Chunked
    <3> QED
      BY <1>4, <2>2, <2>3, <3>1
  <2>5. CASE flush[w].ctx # "hwm"
    <3>1. pc'[w] \in {"waiting", "pop"} /\ flush'[w].ctx # "hwm"
      <4>1. \/ BelowHwm(w) /\ flush' = [flush EXCEPT ![w] = Idle]
            \/ PauseAtHwm(w) /\ flush' = flush
        BY <1>11 DEF wait_returns, TestHwm
      <4>2. BelowHwm(w) => pc'[w] = "pop"
        BY <1>1, <1>3, <2>5 DEF BelowHwm, Go
      <4>3. PauseAtHwm(w) => pc'[w] = "waiting"
        BY <1>1, <1>3 DEF PauseAtHwm, Go
      <4>4. flush' = [flush EXCEPT ![w] = Idle] => flush'[w].ctx # "hwm"
        BY <1>1, IdleFlush DEF IInv
      <4> QED
        BY <2>5, <4>1, <4>2, <4>3, <4>4
    <3> QED
      BY <1>4, <2>2, <3>1
  <2> QED
    BY <2>4, <2>5
<1>12. CASE flush_before_next(w)
  <2>1. job' = job /\ pc'[w] = "top" /\ flush'[w].ctx = "hwm_fin"
    BY <1>1, <1>3, <1>12 DEF flush_before_next, StartFlush, Go
  <2> QED
    BY <1>2, <1>4, <2>1
<1>13. CASE service_ends(w)
  <2>1. pc'[w] = "idle" /\ flush' = flush /\ flush[w].ctx = ""
    BY <1>1, <1>3, <1>13 DEF service_ends, IdleOutside, Busy, InFlush, Go
  <2> DEFINE j == [id |-> 0, todo |-> <<>>, k |-> 1, close |-> FALSE, exc |-> FALSE]
  <2>2. j \in Jobs /\ job' = [job EXCEPT ![w] = j]
    BY <1>2, <1>13 DEF service_ends, Jobs
  <2> HIDE DEF j
  <2>3. job' \in [Workers -> Jobs] /\ \A v \in Workers \ {w} : job'[v].todo = job[v].todo
    BY <2>2, JobFields
  <2> QED
    BY <1>4, <2>1, <2>3
<1> QED
  BY <1>5, <1>6, <1>7, <1>8, <1>9, <1>10, <1>11, <1>12, <1>13

LEMMA JobsKept ==
    ASSUME IInv, IdleOutside, InputTyped, RequestsTyped, JobsTyped, [Next]_vars
    PROVE  JobsTyped'
<1>1. ASSUME job' = job, UNCHANGED <<pc, flush>>
      PROVE  JobsTyped'
  BY <1>1 DEF JobsTyped, Chunked
<1>2. CASE UNCHANGED vars \/ ClientStep
  BY <1>1, <1>2 DEF vars, ClientStep, client_sends, client_reads, client_leaves,
                    time_passes, server
<1>3. ASSUME NEW t \in Threads,
             flush_some(t) \/ send_continue(t) \/ handle_close(t) \/ dispatcher_close(t)
      PROVE  JobsTyped'
  BY <1>3, FlushJobs DEF IInv
<1>4. CASE \/ server_readable \/ readable \/ writable \/ enter_select \/ select_returns
           \/ select_times_out \/ trigger_read \/ interrupt \/ handle_read
           \/ handle_write \/ after_flush \/ shutdown \/ received \/ parse \/ queue_request
  <2>1. job' = job
    BY <1>4 DEF server_readable, readable, writable, enter_select, select_returns,
       select_times_out, trigger_read, interrupt, handle_read, handle_write,
       after_flush, shutdown, received, parse, queue_request
  <2>2. Moves(Main) /\ Main \in Threads /\ Main \notin Workers
    BY <1>4, MainMoves, ThreadKinds DEF MainStep, IInv
  <2> QED
    BY <2>1, <2>2, JobsMove DEF JobsTyped
<1>5. ASSUME NEW w \in Workers,
             \/ take_task(w) \/ service_start(w) \/ app_writes(w) \/ app_raises(w)
             \/ write_soon(w) \/ put(w) \/ wait_returns(w) \/ finish(w)
             \/ flush_before_next(w) \/ close_soon(w) \/ drop_requests(w)
             \/ pop_request(w) \/ next_request(w) \/ service_ends(w)
      PROVE  JobsTyped'
  BY <1>5, WorkerJobs
<1> QED
  BY <1>2, <1>3, <1>4, <1>5, ThreadKinds DEF Next, MainStep, WorkerStep

----------------------------------------------------------------------------
(* What a sequence of buffers holds *)

Token == Nat \X Nat

Buffer == [data : Seq(Token), stage : {"str", "buf", "file", "shut"}]

Datas(bs) == [i \in DOMAIN bs |-> bs[i].data]

Held(bs) == FlattenSeq(Datas(bs))

LEMMA DatasTyped ==
    ASSUME NEW bs \in Seq(Buffer)
    PROVE  /\ Datas(bs) \in Seq(Seq(Token)) /\ Len(Datas(bs)) = Len(bs)
           /\ \A i \in 1 .. Len(bs) : Datas(bs)[i] = bs[i].data /\ bs[i] \in Buffer
<1>1. bs \in [1 .. Len(bs) -> Buffer] /\ Len(bs) \in Nat /\ DOMAIN bs = 1 .. Len(bs)
  BY LenProperties
<1>2. Datas(bs) \in [1 .. Len(bs) -> Seq(Token)]
  BY <1>1 DEF Datas, Buffer
<1>3. Datas(bs) \in Seq(Seq(Token))
  BY <1>1, <1>2, SeqDef
<1>4. Len(Datas(bs)) = Len(bs)
  BY <1>1, <1>2, <1>3, LenProperties
<1> QED
  BY <1>1, <1>3, <1>4 DEF Datas

LEMMA HeldTyped ==
    ASSUME NEW bs \in Seq(Buffer)
    PROVE  Held(bs) \in Seq(Token) /\ Len(Held(bs)) \in Nat
BY DatasTyped, FlattenTyped, LenProperties DEF Held

LEMMA HeldConcat ==
    ASSUME NEW a \in Seq(Buffer), NEW b \in Seq(Buffer)
    PROVE  Held(a \o b) = Held(a) \o Held(b)
<1>1. a \o b \in Seq(Buffer) /\ Len(a \o b) = Len(a) + Len(b)
  BY ConcatProperties
<1>2. Len(a) \in Nat /\ Len(b) \in Nat
  BY LenProperties
<1>3. /\ Datas(a) \in Seq(Seq(Token)) /\ Datas(b) \in Seq(Seq(Token))
      /\ Datas(a \o b) \in Seq(Seq(Token))
      /\ Len(Datas(a)) = Len(a) /\ Len(Datas(b)) = Len(b)
      /\ Len(Datas(a \o b)) = Len(a) + Len(b)
  BY <1>1, DatasTyped
<1> DEFINE d == Datas(a) \o Datas(b)
<1>4. d \in Seq(Seq(Token)) /\ Len(d) = Len(a) + Len(b)
  BY <1>3, ConcatProperties
<1>5. \A i \in 1 .. Len(a) + Len(b) : Datas(a \o b)[i] = d[i]
  <2> TAKE i \in 1 .. Len(a) + Len(b)
  <2>1. Datas(a \o b)[i] = (a \o b)[i].data
    BY <1>1, DatasTyped
  <2>2. (a \o b)[i] = IF i =< Len(a) THEN a[i] ELSE b[i - Len(a)]
    BY ConcatProperties
  <2>3. d[i] = IF i =< Len(a) THEN Datas(a)[i] ELSE Datas(b)[i - Len(a)]
    BY <1>3, ConcatProperties
  <2>4. CASE i =< Len(a)
    <3>1. i \in 1 .. Len(a)
      BY <1>2, <2>4
    <3> QED
      BY <2>1, <2>2, <2>3, <2>4, <3>1, DatasTyped
  <2>5. CASE ~(i =< Len(a))
    <3>1. i - Len(a) \in 1 .. Len(b)
      BY <1>2, <2>5
    <3> QED
      BY <2>1, <2>2, <2>3, <2>5, <3>1, DatasTyped
  <2> QED
    BY <2>4, <2>5
<1> HIDE DEF d
<1>6. Datas(a \o b) = d
  <2>1. /\ Datas(a \o b) \in [1 .. Len(a) + Len(b) -> Seq(Token)]
        /\ d \in [1 .. Len(a) + Len(b) -> Seq(Token)]
    BY <1>3, <1>4, LenProperties
  <2> QED
    BY <1>5, <2>1
<1> QED
  BY <1>3, <1>6, FlattenConcat DEF Held, d

LEMMA HeldOne ==
    ASSUME NEW b \in Buffer
    PROVE  <<b>> \in Seq(Buffer) /\ Held(<<b>>) = b.data
<1> DEFINE q == <<b>>
           d == <<b.data>>
<1>1. q \in Seq(Buffer) /\ Len(q) = 1 /\ q[1] = b
  OBVIOUS
<1>2. b.data \in Seq(Token)
  BY DEF Buffer
<1>3. d \in Seq(Seq(Token)) /\ Len(d) = 1 /\ d[1] = b.data
  BY <1>2
<1>4. FlattenSeq(d) = b.data
  BY <1>2, FlattenOne
<1> HIDE DEF q, d
<1>5. Datas(q) \in Seq(Seq(Token)) /\ Len(Datas(q)) = 1 /\ Datas(q)[1] = b.data
  BY <1>1, DatasTyped
<1>6. Datas(q) = d
  <2>1. Datas(q) \in [1 .. 1 -> Seq(Token)] /\ d \in [1 .. 1 -> Seq(Token)]
    BY <1>3, <1>5, LenProperties
  <2> QED
    BY <1>3, <1>5, <2>1
<1> QED
  BY <1>1, <1>4, <1>6 DEF Held, q

\* Buffers without data hold nothing.
LEMMA HeldNothing ==
    ASSUME NEW bs \in Seq(Buffer), \A i \in 1 .. Len(bs) : bs[i].data = <<>>
    PROVE  Held(bs) = <<>>
BY DatasTyped, FlattenNothing DEF Held

\* Buffers that lose data hold less.
LEMMA HeldShrinks ==
    ASSUME NEW a \in Seq(Buffer), NEW b \in Seq(Buffer), Len(a) = Len(b),
           \A i \in 1 .. Len(a) : Len(a[i].data) =< Len(b[i].data)
    PROVE  Len(Held(a)) =< Len(Held(b))
<1>1. \A i \in 1 .. Len(a) : Len(Datas(a)[i]) =< Len(Datas(b)[i])
  BY DatasTyped
<1> QED
  BY <1>1, DatasTyped, FlattenShrinks DEF Held

\* The buffers up to n, and the rest.
LEMMA HeldSplit ==
    ASSUME NEW bs \in Seq(Buffer), NEW n \in 0 .. Len(bs)
    PROVE  /\ SubSeq(bs, 1, n) \in Seq(Buffer) /\ Len(SubSeq(bs, 1, n)) = n
           /\ SubSeq(bs, n + 1, Len(bs)) \in Seq(Buffer)
           /\ Len(SubSeq(bs, n + 1, Len(bs))) = Len(bs) - n
           /\ \A i \in 1 .. n : SubSeq(bs, 1, n)[i] = bs[i]
           /\ \A i \in 1 .. Len(bs) - n : SubSeq(bs, n + 1, Len(bs))[i] = bs[n + i]
           /\ bs = SubSeq(bs, 1, n) \o SubSeq(bs, n + 1, Len(bs))
           /\ Held(bs) = Held(SubSeq(bs, 1, n)) \o Held(SubSeq(bs, n + 1, Len(bs)))
<1>1. Len(bs) \in Nat /\ \A i \in 1 .. Len(bs) : bs[i] \in Buffer
  BY LenProperties, ElementOfSeq
<1>2. /\ SubSeq(bs, 1, n) \in Seq(Buffer) /\ Len(SubSeq(bs, 1, n)) = n
      /\ \A i \in 1 .. n : SubSeq(bs, 1, n)[i] = bs[i]
  BY <1>1, SubSeqProperties
<1>3. /\ SubSeq(bs, n + 1, Len(bs)) \in Seq(Buffer)
      /\ Len(SubSeq(bs, n + 1, Len(bs))) = Len(bs) - n
  <2>1. \A i \in n + 1 .. Len(bs) : bs[i] \in Buffer
    BY <1>1
  <2> QED
    BY <1>1, <2>1, SubSeqProperties
<1>4. \A i \in 1 .. Len(bs) - n : SubSeq(bs, n + 1, Len(bs))[i] = bs[n + i]
  BY <1>1, <1>3
<1>5. bs = SubSeq(bs, 1, n) \o SubSeq(bs, n + 1, Len(bs))
  <2>1. 1 \in 1 .. Len(bs) + 1 /\ n \in 1 - 1 .. Len(bs) /\ Len(bs) \in n .. Len(bs)
    BY <1>1
  <2>2. SubSeq(bs, 1, n) \o SubSeq(bs, n + 1, Len(bs)) = SubSeq(bs, 1, Len(bs))
    BY <2>1, ConcatAdjacentSubSeq
  <2> QED
    BY <2>2, SubSeqFull
<1> QED
  BY <1>2, <1>3, <1>4, <1>5, HeldConcat

LEMMA HeldAround ==
    ASSUME NEW q \in Seq(Buffer), NEW k \in Nat, NEW i \in 1 .. Len(q), i = k + 1
    PROVE  /\ SubSeq(q, 1, k) \in Seq(Buffer) /\ Len(SubSeq(q, 1, k)) = k
           /\ SubSeq(q, i + 1, Len(q)) \in Seq(Buffer)
           /\ Len(SubSeq(q, i + 1, Len(q))) = Len(q) - i
           /\ \A j \in 1 .. k : SubSeq(q, 1, k)[j] = q[j]
           /\ \A j \in 1 .. Len(q) - i : SubSeq(q, i + 1, Len(q))[j] = q[i + j]
           /\ Held(q) = Held(SubSeq(q, 1, k))
                           \o (q[i].data \o Held(SubSeq(q, i + 1, Len(q))))
<1>1. Len(q) \in Nat /\ q[i] \in Buffer
  BY LenProperties, ElementOfSeq
<1>2. k \in 0 .. Len(q) /\ i \in 0 .. Len(q) /\ Len(q) \in i .. Len(q)
  BY <1>1
<1>3. /\ SubSeq(q, 1, k) \in Seq(Buffer) /\ Len(SubSeq(q, 1, k)) = k
      /\ \A j \in 1 .. k : SubSeq(q, 1, k)[j] = q[j]
      /\ Held(q) = Held(SubSeq(q, 1, k)) \o Held(SubSeq(q, k + 1, Len(q)))
  BY <1>2, HeldSplit
<1>4. /\ SubSeq(q, i + 1, Len(q)) \in Seq(Buffer)
      /\ Len(SubSeq(q, i + 1, Len(q))) = Len(q) - i
      /\ \A j \in 1 .. Len(q) - i : SubSeq(q, i + 1, Len(q))[j] = q[i + j]
  BY <1>2, HeldSplit
<1>5. SubSeq(q, k + 1, Len(q)) = <<q[i]>> \o SubSeq(q, i + 1, Len(q))
  BY <1>2, SubSeqRecursiveFirst
<1>6. <<q[i]>> \in Seq(Buffer) /\ Held(<<q[i]>>) = q[i].data
  BY <1>1, HeldOne
<1> DEFINE one == <<q[i]>>
           after == SubSeq(q, i + 1, Len(q))
<1> HIDE DEF one, after
<1>7. Held(one \o after) = Held(one) \o Held(after)
  BY <1>4, <1>6, HeldConcat DEF one, after
<1> QED
  BY <1>3, <1>4, <1>5, <1>6, <1>7 DEF one, after

LEMMA Replaced ==
    ASSUME NEW n \in Nat, NEW m \in Nat, NEW x \in Nat, NEW y \in Nat,
           NEW p, p = n + (x + m), NEW q, q = n + (y + m)
    PROVE  q = p - x + y
OBVIOUS

\* Two lists of buffers that differ in one buffer hold the same around it.
LEMMA HeldSame ==
    ASSUME NEW bs \in Seq(Buffer), NEW as \in Seq(Buffer), Len(as) = Len(bs),
           NEW i \in 1 .. Len(bs), i \in 1 .. Len(as),
           \A j \in 1 .. Len(bs) : j # i => as[j] = bs[j]
    PROVE  \E x \in Seq(Token), y \in Seq(Token) :
              /\ Held(bs) = x \o (bs[i].data \o y) /\ Held(as) = x \o (as[i].data \o y)
              /\ bs[i].data \in Seq(Token) /\ as[i].data \in Seq(Token)
              /\ i = 1 => x = <<>>
              /\ i = Len(bs) => y = <<>>
<1>1. Len(bs) \in Nat /\ bs[i] \in Buffer /\ as[i] \in Buffer
  BY LenProperties, ElementOfSeq
<1> DEFINE k == i - 1
<1>5. k \in Nat /\ i = k + 1
  BY <1>1
<1> HIDE DEF k
<1> DEFINE before == SubSeq(bs, 1, k)
           after == SubSeq(bs, i + 1, Len(bs))
           before2 == SubSeq(as, 1, k)
           after2 == SubSeq(as, i + 1, Len(as))
<1>6. /\ before \in Seq(Buffer) /\ Len(before) = k /\ \A j \in 1 .. k : before[j] = bs[j]
      /\ after \in Seq(Buffer) /\ Len(after) = Len(bs) - i
      /\ \A j \in 1 .. Len(bs) - i : after[j] = bs[i + j]
      /\ Held(bs) = Held(before) \o (bs[i].data \o Held(after))
  BY <1>5, HeldAround
<1>7. /\ before2 \in Seq(Buffer) /\ Len(before2) = k /\ \A j \in 1 .. k : before2[j] = as[j]
      /\ after2 \in Seq(Buffer) /\ Len(after2) = Len(as) - i
      /\ \A j \in 1 .. Len(as) - i : after2[j] = as[i + j]
      /\ Held(as) = Held(before2) \o (as[i].data \o Held(after2))
  BY <1>5, HeldAround
<1> HIDE DEF before, after, before2, after2
<1>8. before2 = before
  <2>1. before2 \in [1 .. k -> Buffer] /\ before \in [1 .. k -> Buffer]
    BY <1>6, <1>7, LenProperties
  <2>2. \A j \in 1 .. k : before2[j] = before[j]
    <3> TAKE j \in 1 .. k
    <3>1. j \in 1 .. Len(bs) /\ j # i
      BY <1>1, <1>5
    <3> QED
      BY <1>6, <1>7, <3>1
  <2> QED
    BY <1>5, <2>1, <2>2
<1>9. after2 = after
  <2>1. after2 \in [1 .. Len(bs) - i -> Buffer] /\ after \in [1 .. Len(bs) - i -> Buffer]
    BY <1>6, <1>7, LenProperties
  <2>2. \A j \in 1 .. Len(bs) - i : after2[j] = after[j]
    <3> TAKE j \in 1 .. Len(bs) - i
    <3>1. i + j \in 1 .. Len(bs) /\ i + j # i
      BY <1>1, <1>5
    <3> QED
      BY <1>6, <1>7, <3>1
  <2> QED
    BY <2>1, <2>2
<1>10. bs[i].data \in Seq(Token) /\ as[i].data \in Seq(Token)
  BY <1>1 DEF Buffer
<1>11. i = 1 => Held(before) = <<>>
  <2>1. i = 1 => k = 0
    BY <1>5
  <2>2. k = 0 => \A j \in 1 .. Len(before) : before[j].data = <<>>
    BY <1>6
  <2> QED
    BY <1>6, <2>1, <2>2, HeldNothing
<1>12. i = Len(bs) => Held(after) = <<>>
  <2>1. i = Len(bs) => Len(after) = 0
    BY <1>1, <1>6
  <2>2. Len(after) = 0 => \A j \in 1 .. Len(after) : after[j].data = <<>>
    OBVIOUS
  <2> QED
    BY <1>6, <2>1, <2>2, HeldNothing
<1>13. Held(before) \in Seq(Token) /\ Held(after) \in Seq(Token)
  BY <1>6, HeldTyped
<1> QED
  BY <1>6, <1>7, <1>8, <1>9, <1>10, <1>11, <1>12, <1>13

LEMMA HeldDiffer ==
    ASSUME NEW bs \in Seq(Buffer), NEW as \in Seq(Buffer), Len(as) = Len(bs),
           NEW i \in 1 .. Len(bs), i \in 1 .. Len(as),
           \A j \in 1 .. Len(bs) : j # i => as[j] = bs[j]
    PROVE  Len(Held(as)) = Len(Held(bs)) - Len(bs[i].data) + Len(as[i].data)
<1>1. PICK before \in Seq(Token), after \in Seq(Token) :
          /\ Held(bs) = before \o (bs[i].data \o after)
          /\ Held(as) = before \o (as[i].data \o after)
          /\ bs[i].data \in Seq(Token) /\ as[i].data \in Seq(Token)
  <2>1. \E x \in Seq(Token), y \in Seq(Token) :
              /\ Held(bs) = x \o (bs[i].data \o y) /\ Held(as) = x \o (as[i].data \o y)
              /\ bs[i].data \in Seq(Token) /\ as[i].data \in Seq(Token)
              /\ i = 1 => x = <<>>
              /\ i = Len(bs) => y = <<>>
    BY HeldSame
  <2> QED
    BY <2>1, Zenon
<1>2. ASSUME NEW x \in Seq(Token)
      PROVE  /\ Len(before \o (x \o after)) = Len(before) + (Len(x) + Len(after))
             /\ Len(x) \in Nat
  <2>1. x \o after \in Seq(Token) /\ Len(x \o after) = Len(x) + Len(after)
    BY ConcatProperties
  <2> QED
    BY <2>1, ConcatProperties, LenProperties
<1> DEFINE n == Len(before)
           m == Len(after)
           x == Len(bs[i].data)
           y == Len(as[i].data)
           p == Len(Held(bs))
           q == Len(Held(as))
<1>3. n \in Nat /\ m \in Nat /\ x \in Nat /\ y \in Nat
  BY <1>1, <1>2
<1>4. p = n + (x + m) /\ q = n + (y + m)
  BY <1>1, <1>2
<1> HIDE DEF n, m, x, y, p, q
<1>5. q = p - x + y
  BY <1>3, <1>4, Replaced
<1> QED
  BY <1>5 DEF x, y, p, q

LEMMA TokensAssociate ==
    ASSUME NEW a \in Seq(Token), NEW b \in Seq(Token), NEW c \in Seq(Token)
    PROVE  Associate(a, b, c)
BY ThreeAssociate

\* One buffer is replaced.
With(bs, i, b) == [bs EXCEPT ![i] = b]

LEMMA HeldReplace ==
    ASSUME NEW bs \in Seq(Buffer), NEW i \in 1 .. Len(bs), NEW b \in Buffer
    PROVE  /\ With(bs, i, b) \in Seq(Buffer) /\ Len(With(bs, i, b)) = Len(bs)
           /\ With(bs, i, b)[i] = b
           /\ \A j \in 1 .. Len(bs) : j # i => With(bs, i, b)[j] = bs[j]
           /\ Len(Held(With(bs, i, b))) = Len(Held(bs)) - Len(bs[i].data) + Len(b.data)
<1> DEFINE as == With(bs, i, b)
<1>1. Len(bs) \in Nat /\ bs \in [1 .. Len(bs) -> Buffer]
  BY LenProperties
<1>2. as \in [1 .. Len(bs) -> Buffer] /\ as[i] = b /\ \A j \in 1 .. Len(bs) : j # i => as[j] = bs[j]
  BY <1>1 DEF With
<1> HIDE DEF as
<1>3. as \in Seq(Buffer)
  BY <1>1, <1>2, SeqDef
<1>4. Len(as) = Len(bs)
  <2>1. DOMAIN as = 1 .. Len(bs) /\ DOMAIN as = 1 .. Len(as) /\ Len(as) \in Nat
    BY <1>2, <1>3, LenProperties
  <2> DEFINE m == Len(as)
             n == Len(bs)
  <2>2. m \in Nat /\ n \in Nat /\ 1 .. m = 1 .. n
    BY <1>1, <2>1
  <2> HIDE DEF m, n
  <2>3. m = n
    BY <2>2
  <2> QED
    BY <2>3 DEF m, n
<1>5. Len(Held(as)) = Len(Held(bs)) - Len(bs[i].data) + Len(as[i].data)
  BY <1>2, <1>3, <1>4, HeldDiffer
<1> QED
  BY <1>2, <1>3, <1>4, <1>5 DEF as

\* The last buffer gets more.
LEMMA HeldLast ==
    ASSUME NEW bs \in Seq(Buffer), NEW n \in 1 .. Len(bs), n = Len(bs), NEW b \in Buffer,
           NEW x \in Seq(Token), b.data = bs[n].data \o x
    PROVE  Held(With(bs, n, b)) = Held(bs) \o x
<1> DEFINE as == With(bs, n, b)
<1>1. /\ as \in Seq(Buffer) /\ Len(as) = Len(bs) /\ as[n] = b
      /\ \A j \in 1 .. Len(bs) : j # n => as[j] = bs[j]
  BY HeldReplace
<1> HIDE DEF as
<1>2. n \in 1 .. Len(as)
  BY <1>1
<1>3. PICK p \in Seq(Token), q \in Seq(Token) :
          /\ Held(bs) = p \o (bs[n].data \o q) /\ Held(as) = p \o (as[n].data \o q)
          /\ bs[n].data \in Seq(Token) /\ as[n].data \in Seq(Token)
          /\ n = Len(bs) => q = <<>>
  BY <1>1, <1>2, HeldSame
<1> DEFINE d == bs[n].data
<1>4. d \in Seq(Token) /\ as[n].data = d \o x
  BY <1>1, <1>3
<1> HIDE DEF d
<1>5. d \o x \in Seq(Token)
  BY <1>4, ConcatProperties
<1>6. Held(bs) = p \o d /\ Held(as) = p \o (d \o x)
  BY <1>3, <1>4, <1>5, ConcatEmptySeq DEF d
<1>7. Associate(p, d, x)
  BY <1>4, TokensAssociate
<1> QED
  BY <1>6, <1>7 DEF as, Associate

LEMMA HeldAppend ==
    ASSUME NEW bs \in Seq(Buffer), NEW b \in Buffer
    PROVE  /\ Append(bs, b) \in Seq(Buffer) /\ Len(Append(bs, b)) = Len(bs) + 1
           /\ Append(bs, b)[Len(bs) + 1] = b
           /\ \A i \in 1 .. Len(bs) : Append(bs, b)[i] = bs[i]
           /\ Held(Append(bs, b)) = Held(bs) \o b.data
           /\ Len(Held(Append(bs, b))) = Len(Held(bs)) + Len(b.data)
<1>1. /\ Append(bs, b) \in Seq(Buffer) /\ Len(Append(bs, b)) = Len(bs) + 1
      /\ Append(bs, b)[Len(bs) + 1] = b
      /\ \A i \in 1 .. Len(bs) : Append(bs, b)[i] = bs[i]
  BY AppendProperties
<1>2. Held(Append(bs, b)) = Held(bs) \o b.data
  <2>1. Append(bs, b) = bs \o <<b>>
    BY AppendIsConcat
  <2> DEFINE one == <<b>>
  <2>2. one \in Seq(Buffer) /\ Held(one) = b.data
    BY HeldOne
  <2> HIDE DEF one
  <2>3. Held(bs \o one) = Held(bs) \o Held(one)
    BY <2>2, HeldConcat
  <2> QED
    BY <2>1, <2>2, <2>3 DEF one
<1>3. b.data \in Seq(Token)
  BY DEF Buffer
<1>4. Len(Held(bs) \o b.data) = Len(Held(bs)) + Len(b.data)
  BY <1>3, HeldTyped, ConcatProperties
<1> QED
  BY <1>1, <1>2, <1>4

LEMMA FirstUnsent ==
    ASSUME NEW bs \in Seq(Buffer), NEW left, left = SelectInSeq(bs, LAMBDA b : b.data # <<>>)
    PROVE  \/ left = 0 /\ \A i \in 1 .. Len(bs) : bs[i].data = <<>>
           \/ /\ left \in 1 .. Len(bs) /\ bs[left].data # <<>>
              /\ \A i \in 1 .. left - 1 : bs[i].data = <<>>
<1> DEFINE I == {i \in 1 .. Len(bs) : bs[i].data # <<>>}
<1>1. left = IF I # {} THEN Min(I) ELSE 0
  BY DEF SelectInSeq
<1>2. Len(bs) \in Nat
  BY LenProperties
<1>3. CASE I = {}
  BY <1>1, <1>3
<1>4. CASE I # {}
  <2>1. I \in SUBSET Nat
    BY <1>2
  <2>2. PICK x \in I : \A y \in I : x =< y
    <3> HIDE DEF I
    <3> QED
      BY <1>4, <2>1, LeastOf
  <2>3. Min(I) \in I /\ \A y \in I : Min(I) =< y
    <3> HIDE DEF I
    <3> QED
      BY <2>2 DEF Min
  <2>4. left \in I /\ \A y \in I : left =< y
    BY <1>1, <1>4, <2>3
  <2>5. left \in 1 .. Len(bs) /\ bs[left].data # <<>>
    BY <2>4
  <2>6. ASSUME NEW i \in 1 .. left - 1 PROVE bs[i].data = <<>>
    <3>1. i \in 1 .. Len(bs) /\ ~(left =< i)
      BY <1>2, <2>5
    <3> QED
      BY <2>4, <3>1
  <2> QED
    BY <2>5, <2>6
<1> QED
  BY <1>3, <1>4

----------------------------------------------------------------------------
(* Types: the output buffers *)

BuffersTyped ==
    /\ outbufs \in Seq(Buffer) /\ outbufs # <<>> /\ outbufs[Len(outbufs)].stage # "file"
    /\ total \in Int /\ cur \in Nat /\ popped \in Nat
    /\ \A t \in Threads :
          /\ flush[t].ref \in Nat /\ flush[t].ref =< popped + Len(outbufs)
          /\ flush[t].num \in Nat

\* What is added to the total is what is added to the buffers.
Accounted == total' - Buffered' = total - Buffered

LEMMA BufferedIs ==
    Buffered = Len(Held(outbufs)) /\ Buffered' = Len(Held(outbufs'))
BY DEF Buffered, Pending, Held, Datas

LEMMA BufferedTyped ==
    ASSUME BuffersTyped
    PROVE  Buffered \in Nat /\ Len(outbufs) \in Nat \ {0} /\ Last1(outbufs) = outbufs[Len(outbufs)]
<1>1. outbufs \in Seq(Buffer) /\ outbufs # <<>>
  BY DEF BuffersTyped
<1>2. Len(outbufs) \in Nat \ {0}
  BY <1>1, EmptySeq
<1> QED
  BY <1>1, <1>2, HeldTyped, BufferedIs DEF Last1

LEMMA BuffersStay ==
    ASSUME BuffersTyped, NEW t \in Threads,
           \A u \in Threads \ {t} : flush'[u] = flush[u],
           flush'[t].ref \in {flush[t].ref, 0}, flush'[t].num \in Nat,
           UNCHANGED <<total, outbufs, popped>>, cur' \in Nat
    PROVE  BuffersTyped' /\ UNCHANGED Buffered
<1>1. UNCHANGED Buffered
  BY DEF Buffered, Pending
<1>2. ASSUME NEW u \in Threads
      PROVE  /\ flush'[u].ref \in Nat /\ flush'[u].ref =< popped + Len(outbufs)
             /\ flush'[u].num \in Nat
  <2>1. popped + Len(outbufs) \in Nat
    BY BufferedTyped DEF BuffersTyped
  <2> QED
    BY <2>1 DEF BuffersTyped
<1> QED
  BY <1>1, <1>2 DEF BuffersTyped

LEMMA TopBuffers ==
    ASSUME Shapes, BuffersTyped, NEW t \in Threads, flush_top(t)
    PROVE  BuffersTyped' /\ UNCHANGED <<total, Buffered>> /\ Held(outbufs') = Held(outbufs)
<1> DEFINE left == SelectInSeq(outbufs, LAMBDA b : b.data # <<>>)
           n == IF left = 0 THEN Len(outbufs) - 1 ELSE left - 1
           len == Len(outbufs[n + 1].data)
           bs == SubSeq(outbufs, n + 1, Len(outbufs))
<1>1. /\ outbufs' = bs /\ popped' = popped + n
      /\ flush' = [flush EXCEPT ![t].ref = popped + n + 1, ![t].len = len]
      /\ UNCHANGED <<total, cur>>
  BY DEF flush_top
<1>2. outbufs \in Seq(Buffer) /\ Len(outbufs) \in Nat \ {0} /\ popped \in Nat
  BY BufferedTyped DEF BuffersTyped
<1>3. \/ left = 0 /\ \A i \in 1 .. Len(outbufs) : outbufs[i].data = <<>>
      \/ left \in 1 .. Len(outbufs) /\ \A i \in 1 .. left - 1 : outbufs[i].data = <<>>
  BY <1>2, FirstUnsent
<1> HIDE DEF left
<1>4. n \in 0 .. Len(outbufs) /\ n + 1 =< Len(outbufs)
      /\ \A i \in 1 .. n : outbufs[i].data = <<>>
  BY <1>2, <1>3
<1> HIDE DEF n, len, bs
<1> DEFINE drained == SubSeq(outbufs, 1, n)
<1>5. /\ drained \in Seq(Buffer) /\ Len(drained) = n
      /\ bs \in Seq(Buffer) /\ Len(bs) = Len(outbufs) - n
      /\ \A i \in 1 .. n : drained[i] = outbufs[i]
      /\ \A i \in 1 .. Len(outbufs) - n : bs[i] = outbufs[n + i]
      /\ Held(outbufs) = Held(drained) \o Held(bs)
  BY <1>2, <1>4, HeldSplit DEF bs
<1> HIDE DEF drained
<1>6. Held(drained) = <<>>
  BY <1>4, <1>5, HeldNothing
<1>7. Held(bs) = Held(outbufs)
  BY <1>5, <1>6, HeldTyped, ConcatEmptySeq
<1>8. UNCHANGED Buffered
  BY <1>1, <1>7, BufferedIs
<1>9. Len(bs) \in Nat \ {0} /\ bs[Len(bs)] = outbufs[Len(outbufs)]
  <2>1. Len(outbufs) - n \in 1 .. Len(outbufs) - n /\ n + (Len(outbufs) - n) = Len(outbufs)
    BY <1>2, <1>4
  <2> QED
    BY <1>5, <2>1
<1>10. bs # <<>>
  BY <1>9, EmptySeq
<1>11. popped + n \in Nat /\ (popped + n) + Len(bs) = popped + Len(outbufs)
       /\ popped + n + 1 \in Nat /\ popped + n + 1 =< popped + Len(outbufs)
  BY <1>2, <1>4, <1>5
<1>12. /\ DOMAIN flush = Threads
       /\ \A u \in Threads : DOMAIN flush[u] = FlushFields
  BY DEF Shapes
<1>13. flush'[t].ref = popped + n + 1 /\ flush'[t].num = flush[t].num
       /\ \A u \in Threads \ {t} : flush'[u] = flush[u]
  BY <1>1, <1>12 DEF FlushFields
<1>14. \A u \in Threads :
          /\ flush'[u].ref \in Nat /\ flush'[u].ref =< popped' + Len(outbufs')
          /\ flush'[u].num \in Nat
  BY <1>1, <1>11, <1>13 DEF BuffersTyped
<1>15. outbufs'[Len(outbufs')].stage # "file"
  BY <1>1, <1>9 DEF BuffersTyped
<1> QED
  BY <1>1, <1>5, <1>7, <1>8, <1>10, <1>11, <1>14, <1>15 DEF BuffersTyped

\* The buffer that a flush works on, if it is still there.
LEMMA CurrentTyped ==
    ASSUME BuffersTyped, NEW t \in Threads, ~Gone(t)
    PROVE  /\ flush[t].ref - popped \in 1 .. Len(outbufs)
           /\ Current(t) = outbufs[flush[t].ref - popped]
           /\ Current(t) \in Buffer /\ Len(Current(t).data) \in Nat
<1>1. Len(outbufs) \in Nat /\ outbufs \in Seq(Buffer) /\ popped \in Nat
      /\ flush[t].ref \in Nat /\ flush[t].ref =< popped + Len(outbufs)
      /\ ~(flush[t].ref =< popped)
  BY BufferedTyped DEF BuffersTyped, Gone
<1>2. flush[t].ref - popped \in 1 .. Len(outbufs)
  BY <1>1
<1>3. outbufs[flush[t].ref - popped] \in Buffer
  BY <1>1, <1>2, ElementOfSeq
<1> QED
  BY <1>2, <1>3, LenProperties DEF Current, Buffer

\* What is left of a buffer of which n tokens were sent.
LEMMA SkippedTyped ==
    ASSUME NEW b \in Buffer, NEW n \in 0 .. Len(b.data)
    PROVE  /\ Skipped(b, n) \in Buffer /\ (Skipped(b, n).stage = "file" => b.stage = "file")
           /\ Len(Skipped(b, n).data) = Len(b.data) - n
<1> DEFINE d == b.data
           rest == SubSeq(d, n + 1, Len(d))
<1>1. d \in Seq(Token) /\ Len(d) \in Nat
  BY LenProperties DEF Buffer
<1>2. rest \in Seq(Token) /\ Len(rest) = Len(d) - n
  <2>1. \A i \in n + 1 .. Len(d) : d[i] \in Token
    BY <1>1, ElementOfSeq
  <2>2. /\ rest \in Seq(Token)
        /\ Len(rest) = IF n + 1 <= Len(d) THEN Len(d) - (n + 1) + 1 ELSE 0
    BY <1>1, <2>1, SubSeqProperties
  <2> HIDE DEF rest, d
  <2> QED
    BY <1>1, <2>2 DEF d
<1> HIDE DEF rest
<1>3. Skipped(b, n) = [data |-> rest, stage |-> IF b.stage = "str" /\ n < Len(b.data) THEN "buf" ELSE b.stage]
  BY DEF Skipped, rest
<1>4. b.stage \in {"str", "buf", "file", "shut"}
  BY DEF Buffer
<1>5. Skipped(b, n).data = rest /\ Skipped(b, n).stage \in {"buf", b.stage}
  BY <1>3
<1>6. Skipped(b, n) \in Buffer
  BY <1>2, <1>3, <1>4 DEF Buffer
<1> QED
  BY <1>2, <1>5, <1>6

LEMMA SkipBuffers ==
    ASSUME Shapes, BuffersTyped, NEW t \in Threads, flush_skip(t)
    PROVE  BuffersTyped' /\ Buffered' =< Buffered /\ (Unraced => Accounted)
<1>1. DOMAIN flush = Threads /\ \A u \in Threads : DOMAIN flush[u] = FlushFields
  BY DEF Shapes
<1>2. CASE Gone(t) \/ Len(Current(t).data) < flush[t].num
  <2>1. UNCHANGED <<flush, buffers>>
    BY <1>2 DEF flush_skip, buffers
  <2>2. BuffersTyped' /\ UNCHANGED Buffered
    BY <2>1, BuffersStay DEF buffers, BuffersTyped
  <2> QED
    BY <2>1, <2>2, BufferedTyped DEF Accounted, buffers
<1>3. CASE ~Gone(t) /\ ~(Len(Current(t).data) < flush[t].num)
  <2> DEFINE n == flush[t].num
             i == flush[t].ref - popped
             b == Skipped(outbufs[i], n)
             f == [flush EXCEPT ![t].len = @ - n, ![t].num = 0, ![t].sent = TRUE]
  <2>1. /\ outbufs' = [outbufs EXCEPT ![i] = b]
        /\ UNCHANGED <<cur, popped>>
        /\ \/ ~Racing(t) /\ flush' = f /\ total' = total - n
           \/ Racing(t) /\ UNCHANGED <<flush, total>>
    BY <1>3 DEF flush_skip, SentOn
  <2>2. i \in 1 .. Len(outbufs) /\ outbufs[i] \in Buffer /\ Len(outbufs[i].data) \in Nat
        /\ Len(outbufs) \in Nat \ {0} /\ outbufs \in Seq(Buffer)
    BY <1>3, CurrentTyped, BufferedTyped DEF BuffersTyped
  <2>3. n \in 0 .. Len(outbufs[i].data)
    <3>1. Current(t) = outbufs[i]
      BY DEF Current
    <3>2. n \in Nat
      BY DEF BuffersTyped
    <3> HIDE DEF n, i
    <3> QED
      BY <1>3, <2>2, <3>1, <3>2 DEF n
  <2>4. b \in Buffer /\ (b.stage = "file" => outbufs[i].stage = "file")
        /\ Len(b.data) = Len(outbufs[i].data) - n
    <3> DEFINE o == outbufs[i]
    <3>1. o \in Buffer /\ n \in 0 .. Len(o.data)
      BY <2>2, <2>3
    <3> HIDE DEF o, n
    <3>2. /\ Skipped(o, n) \in Buffer /\ (Skipped(o, n).stage = "file" => o.stage = "file")
          /\ Len(Skipped(o, n).data) = Len(o.data) - n
      BY <3>1, SkippedTyped
    <3> QED
      BY <3>2 DEF o
  <2>5. /\ flush'[t].ref = flush[t].ref /\ flush'[t].num \in {flush[t].num, 0}
        /\ \A u \in Threads \ {t} : flush'[u] = flush[u]
    <3>1. CASE flush' = f
      BY <1>1, <3>1 DEF FlushFields
    <3> QED
      BY <2>1, <3>1
  <2> HIDE DEF i, b, f
  <2> DEFINE as == With(outbufs, i, b)
  <2>6. outbufs' = as
    BY <2>1 DEF With
  <2> HIDE DEF as
  <2>7. /\ as \in Seq(Buffer) /\ Len(as) = Len(outbufs) /\ as[i] = b
        /\ \A j \in 1 .. Len(outbufs) : j # i => as[j] = outbufs[j]
        /\ Len(Held(as)) = Len(Held(outbufs)) - Len(outbufs[i].data) + Len(b.data)
    <3>1. /\ outbufs \in Seq(Buffer) /\ i \in 1 .. Len(outbufs) /\ b \in Buffer
      BY <2>2, <2>4
    <3>2. /\ as \in Seq(Buffer) /\ Len(as) = Len(outbufs) /\ as[i] = b
      BY <3>1, HeldReplace DEF as
    <3>3. \A j \in 1 .. Len(outbufs) : j # i => as[j] = outbufs[j]
      BY <3>1, HeldReplace DEF as
    <3>4. Len(Held(as)) = Len(Held(outbufs)) - Len(outbufs[i].data) + Len(b.data)
      BY <3>1, HeldReplace DEF as
    <3> QED
      BY <3>2, <3>3, <3>4
  <2>8. n \in Nat
    BY <2>2, <2>3
  <2>9. Buffered' = Buffered - n
    <3> DEFINE x == Len(Held(outbufs))
               y == Len(outbufs[i].data)
    <3>1. Len(Held(as)) = x - y + (y - n) /\ x \in Nat /\ y \in Nat
      BY <2>2, <2>4, <2>7, BufferedTyped, BufferedIs
    <3> HIDE DEF x, y, n
    <3>2. Len(Held(as)) = x - n
      BY <2>8, <3>1
    <3> QED
      BY <2>6, <3>2, BufferedIs DEF x
  <2> HIDE DEF n
  <2>10. Buffered' =< Buffered /\ (~Racing(t) => Accounted)
    <3> DEFINE x == Buffered
               y == Buffered'
    <3>1. x \in Nat /\ total \in Int
      BY BufferedTyped DEF BuffersTyped
    <3>2. y = x - n
      BY <2>9
    <3> HIDE DEF x, y
    <3>3. y =< x /\ (~Racing(t) => total' - y = total - x)
      BY <2>1, <2>8, <3>1, <3>2
    <3> QED
      BY <3>3 DEF x, y, Accounted
  <2>11. outbufs'[Len(outbufs')].stage # "file"
    <3>1. as[Len(outbufs)].stage # "file"
      <4>1. CASE i = Len(outbufs)
        BY <2>4, <2>7, <4>1 DEF BuffersTyped
      <4>2. CASE i # Len(outbufs)
        <5>1. Len(outbufs) \in 1 .. Len(outbufs)
          BY <2>2
        <5>2. as[Len(outbufs)] = outbufs[Len(outbufs)]
          BY <2>7, <4>2, <5>1
        <5> QED
          BY <5>2 DEF BuffersTyped
      <4> QED
        BY <4>1, <4>2
    <3> QED
      BY <2>6, <2>7, <3>1
  <2>12. as # <<>>
    BY <2>2, <2>7, EmptySeq
  <2>13. total' \in Int
    BY <2>1, <2>8 DEF BuffersTyped
  <2>14. \A u \in Threads :
            /\ flush'[u].ref \in Nat /\ flush'[u].ref =< popped' + Len(outbufs')
            /\ flush'[u].num \in Nat
    BY <2>1, <2>5, <2>6, <2>7 DEF BuffersTyped
  <2>15. Unraced => ~Racing(t)
    BY DEF Unraced, flush_skip
  <2> QED
    BY <2>1, <2>6, <2>7, <2>10, <2>11, <2>12, <2>13, <2>14, <2>15 DEF BuffersTyped
<1> QED
  BY <1>2, <1>3

LEMMA DeductBuffers ==
    ASSUME Shapes, BuffersTyped, NEW t \in Threads, flush_deduct(t)
    PROVE  BuffersTyped' /\ UNCHANGED Buffered /\ ~Unraced
<1> DEFINE f == [flush EXCEPT ![t].len = @ - flush[t].num, ![t].num = 0, ![t].sent = TRUE]
<1>1. /\ flush' = f /\ total' \in {total - flush[t].num, total}
      /\ UNCHANGED <<cur, outbufs, popped>> /\ pc[t] = "deduct"
  BY DEF flush_deduct, NewTotal, SentOn
<1>2. /\ flush'[t].ref = flush[t].ref /\ flush'[t].num = 0
      /\ \A u \in Threads \ {t} : flush'[u] = flush[u]
  BY <1>1 DEF Shapes, FlushFields
<1>3. flush[t].num \in Nat
  BY DEF BuffersTyped
<1>4. total' \in Int
  BY <1>1, <1>3 DEF BuffersTyped
<1>5. UNCHANGED Buffered /\ ~Unraced
  BY <1>1 DEF Buffered, Pending, Unraced
<1>6. \A u \in Threads :
          /\ flush'[u].ref \in Nat /\ flush'[u].ref =< popped + Len(outbufs)
          /\ flush'[u].num \in Nat
  BY <1>2 DEF BuffersTyped
<1> HIDE DEF f
<1> QED
  BY <1>1, <1>4, <1>5, <1>6 DEF BuffersTyped

LEMMA CloseBuffers ==
    ASSUME Shapes, BuffersTyped, NEW t \in Threads, handle_close(t)
    PROVE  BuffersTyped' /\ Buffered' =< Buffered
<1>1. outbufs \in Seq(Buffer) /\ Len(outbufs) \in Nat \ {0}
      /\ DOMAIN outbufs = 1 .. Len(outbufs)
  BY BufferedTyped, LenProperties DEF BuffersTyped
<1> DEFINE as == [i \in DOMAIN outbufs |-> Closed(outbufs[i])]
<1>2. outbufs' = as /\ total' \in {0, total} /\ UNCHANGED <<cur, popped, flush>>
  BY DEF handle_close, NewTotal
<1>3. \A b \in Buffer : /\ Closed(b) \in Buffer /\ Len(Closed(b).data) =< Len(b.data)
                        /\ Closed(b).stage # "file"
  <2> TAKE b \in Buffer
  <2>1. b.data \in Seq(Token) /\ Len(b.data) \in Nat
    BY LenProperties DEF Buffer
  <2>2. CASE b.stage = "str"
    BY <2>1, <2>2 DEF Closed
  <2>3. CASE b.stage # "str"
    <3> DEFINE e == <<>>
    <3>1. e \in Seq(Token) /\ Len(e) = 0
      BY EmptySeq
    <3> HIDE DEF e
    <3>2. Closed(b) = [data |-> e, stage |-> "shut"]
      BY <2>3 DEF Closed, e
    <3> QED
      BY <2>1, <3>1, <3>2 DEF Buffer
  <2> QED
    BY <2>2, <2>3
<1>4. as \in Seq(Buffer) /\ Len(as) = Len(outbufs)
  <2>1. as \in [1 .. Len(outbufs) -> Buffer]
    BY <1>1, <1>3, ElementOfSeq
  <2>2. as \in Seq(Buffer)
    BY <1>1, <2>1, SeqDef
  <2> QED
    BY <1>1, <2>1, <2>2, LenProperties
<1>5. \A i \in 1 .. Len(outbufs) : /\ Len(as[i].data) =< Len(outbufs[i].data)
                                   /\ as[i].stage # "file"
  BY <1>1, <1>3, ElementOfSeq
<1> HIDE DEF as
<1>6. Len(Held(as)) =< Len(Held(outbufs))
  BY <1>1, <1>4, <1>5, HeldShrinks
<1>7. Buffered' =< Buffered
  BY <1>2, <1>6, BufferedIs
<1>8. as # <<>> /\ outbufs'[Len(outbufs')].stage # "file"
  <2>1. Len(outbufs) \in 1 .. Len(outbufs)
    BY <1>1
  <2> QED
    BY <1>1, <1>2, <1>4, <1>5, <2>1, EmptySeq
<1>9. \A u \in Threads :
          /\ flush'[u].ref \in Nat /\ flush'[u].ref =< popped' + Len(outbufs')
          /\ flush'[u].num \in Nat
  BY <1>2, <1>4 DEF BuffersTyped
<1>10. outbufs' \in Seq(Buffer) /\ outbufs' # <<>>
  BY <1>2, <1>4, <1>8
<1>11. total' \in Int /\ cur' \in Nat /\ popped' \in Nat
  BY <1>2 DEF BuffersTyped
<1> QED
  BY <1>7, <1>8, <1>9, <1>10, <1>11 DEF BuffersTyped

LEMMA LengthsAgree ==
    ASSUME NEW m \in Nat, NEW n \in Nat, NEW x \in Int, NEW k \in Nat, m = n + k
    PROVE  (x + k) - m = x - n
OBVIOUS

\* Buffers that only get longer, at the end.
LEMMA BuffersGrow ==
    ASSUME BuffersTyped, NEW t \in Threads,
           \A u \in Threads \ {t} : flush'[u] = flush[u],
           flush'[t].ref \in {flush[t].ref, 0}, flush'[t].num \in Nat,
           NEW k \in Nat, NEW as \in Seq(Buffer), outbufs' = as,
           Len(as) \in Nat, Len(as) >= Len(outbufs), as # <<>>, as[Len(as)].stage # "file",
           Len(Held(as)) = Len(Held(outbufs)) + k,
           total' \in {total + k, total}, popped' = popped, cur' \in Nat
    PROVE  BuffersTyped' /\ (total' = total + k => Accounted)
<1>1. Buffered \in Nat /\ Buffered' \in Nat /\ Buffered' = Buffered + k
  BY BufferedTyped, BufferedIs, HeldTyped
<1>2. total \in Int /\ popped \in Nat /\ Len(outbufs) \in Nat
  BY BufferedTyped DEF BuffersTyped
<1>3. total' = total + k => Accounted
  BY <1>1, <1>2, LengthsAgree DEF Accounted
<1>4. total' \in Int
  BY <1>2
<1>5. ASSUME NEW u \in Threads
      PROVE  /\ flush'[u].ref \in Nat /\ flush'[u].ref =< popped' + Len(outbufs')
             /\ flush'[u].num \in Nat
  <2>1. /\ flush[u].ref \in Nat /\ flush[u].ref =< popped + Len(outbufs)
        /\ flush[u].num \in Nat
    BY DEF BuffersTyped
  <2> DEFINE n == Len(outbufs)
             m == Len(outbufs')
             f == flush[u].ref
             g == flush'[u].ref
  <2>2. n \in Nat /\ m \in Nat /\ m >= n /\ g \in {f, 0} /\ f \in Nat /\ f =< popped + n
    BY <1>2, <2>1
  <2> HIDE DEF n, m, f, g
  <2>3. g \in Nat /\ g =< popped + m
    BY <1>2, <2>2
  <2> QED
    BY <2>1, <2>3 DEF g, m
<1> QED
  BY <1>2, <1>3, <1>4, <1>5 DEF BuffersTyped

LEMMA AppendedTyped ==
    ASSUME NEW b \in Buffer, NEW chunk \in Seq(Token), b.stage # "file"
    PROVE  /\ Appended(b, chunk) \in Buffer /\ Appended(b, chunk).data = b.data \o chunk
           /\ Appended(b, chunk).stage # "file"
           /\ Len(b.data \o chunk) = Len(b.data) + Len(chunk)
<1> DEFINE data == b.data \o chunk
           stage == IF b.stage = "str" /\ Len(data) >= StrLimit THEN "buf" ELSE b.stage
<1>1. data \in Seq(Token) /\ Len(data) = Len(b.data) + Len(chunk)
  BY ConcatProperties DEF Buffer
<1>2. stage \in {"str", "buf", "shut"}
  BY DEF Buffer
<1>3. Appended(b, chunk) = [data |-> data, stage |-> stage]
  BY DEF Appended
<1> HIDE DEF data, stage
<1>4. Appended(b, chunk) \in Buffer /\ Appended(b, chunk).stage # "file"
      /\ Appended(b, chunk).data = data
  BY <1>1, <1>2, <1>3 DEF Buffer
<1> QED
  BY <1>1, <1>4 DEF data

LEMMA ContinueBuffers ==
    ASSUME Shapes, BuffersTyped, request.id \in Nat, NEW t \in Threads, send_continue(t)
    PROVE  /\ BuffersTyped' /\ (Unraced => Accounted)
           /\ Last1(outbufs).stage # "shut" =>
                  Held(outbufs') = Held(outbufs) \o << <<request.id, 0>> >>
<1>1. flush' = [flush EXCEPT ![t].ctx = "continue"]
  BY DEF send_continue, StartFlush
<1>2. /\ \A u \in Threads \ {t} : flush'[u] = flush[u]
      /\ flush'[t].ref = flush[t].ref /\ flush'[t].num = flush[t].num
  BY <1>1 DEF Shapes, FlushFields
<1>3. flush[t].num \in Nat /\ cur \in Nat /\ total \in Int
  BY DEF BuffersTyped
<1>4. CASE Last1(outbufs).stage = "shut"
  <2>1. UNCHANGED <<total, outbufs, popped, cur>>
    BY <1>4 DEF send_continue
  <2>2. BuffersTyped' /\ UNCHANGED Buffered
    BY <1>2, <1>3, <2>1, BuffersStay
  <2> QED
    BY <1>4, <2>1, <2>2 DEF Accounted
<1>5. CASE Last1(outbufs).stage # "shut"
  <2> DEFINE n == Len(outbufs)
             o == outbufs[n]
             a == <<request.id, 0>>
             b == Appended(o, <<a>>)
             as == With(outbufs, n, b)
  <2>1. n \in Nat \ {0} /\ outbufs \in Seq(Buffer) /\ n \in 1 .. n
    BY BufferedTyped DEF BuffersTyped
  <2>2. /\ outbufs' = [outbufs EXCEPT ![n] = Appended(@, <<a>>)]
        /\ cur' = cur + 1 /\ NewTotal(t, total + 1) /\ popped' = popped
    BY <1>5 DEF send_continue
  <2>3. outbufs' = as
    <3>1. DOMAIN outbufs = 1 .. n
      BY <2>1, LenProperties
    <3> QED
      BY <2>1, <2>2, <3>1 DEF With
  <2>13. total' \in {total + 1, total} /\ (Unraced => total' = total + 1)
    BY <2>2 DEF NewTotal, Unraced
  <2>4. a \in Token
    BY DEF Token
  <2> HIDE DEF a
  <2>5. o \in Buffer /\ o.stage # "file"
    BY <2>1, ElementOfSeq DEF BuffersTyped
  <2> HIDE DEF o
  <2>6. b \in Buffer /\ Len(b.data) = Len(o.data) + 1 /\ b.stage # "file"
        /\ Len(o.data) \in Nat /\ b.data = o.data \o <<a>> /\ <<a>> \in Seq(Token)
    <3>1. o.data \in Seq(Token) /\ <<a>> \in Seq(Token) /\ Len(<<a>>) = 1
      BY <2>4, <2>5 DEF Buffer
    <3> DEFINE c == <<a>>
    <3> HIDE DEF c
    <3>2. Appended(o, c) \in Buffer /\ Appended(o, c).data = o.data \o c
          /\ Appended(o, c).stage # "file" /\ Len(o.data \o c) = Len(o.data) + Len(c)
      BY <2>5, <3>1, AppendedTyped DEF c
    <3> QED
      BY <3>1, <3>2, LenProperties DEF c
  <2> HIDE DEF b
  <2>7. as \in Seq(Buffer) /\ Len(as) = Len(outbufs) /\ as[n] = b
    BY <2>1, <2>6, HeldReplace DEF as
  <2>8. Len(Held(as)) = Len(Held(outbufs)) - Len(outbufs[n].data) + Len(b.data)
    BY <2>1, <2>6, HeldReplace DEF as
  <2>12. Held(as) = Held(outbufs) \o <<a>>
    <3>1. b.data = outbufs[n].data \o <<a>>
      BY <2>6 DEF o
    <3> QED
      BY <2>1, <2>6, <3>1, HeldLast DEF as
  <2> HIDE DEF as
  <2>9. Len(Held(as)) = Len(Held(outbufs)) + 1
    <3> DEFINE x == Len(Held(outbufs))
               y == Len(outbufs[n].data)
               z == Len(b.data)
    <3>1. Len(Held(as)) = x - y + z /\ x \in Nat /\ y \in Nat /\ z = y + 1
      BY <2>1, <2>6, <2>8, HeldTyped DEF o
    <3> HIDE DEF x, y, z
    <3>2. Len(Held(as)) = x + 1
      BY <3>1
    <3> QED
      BY <3>2 DEF x
  <2>10. Len(as) \in Nat /\ Len(as) >= Len(outbufs) /\ as # <<>> /\ as[Len(as)].stage # "file"
    <3>1. Len(as) \in Nat \ {0} /\ Len(as) >= Len(outbufs)
      BY <2>1, <2>7
    <3>2. as # <<>>
      BY <3>1, EmptySeq
    <3>3. as[Len(as)].stage # "file"
      BY <2>6, <2>7
    <3> QED
      BY <3>1, <3>2, <3>3
  <2>11. cur' \in Nat
    BY <1>3, <2>2
  <2> QED
    <3>1. BuffersTyped' /\ (Unraced => Accounted)
      BY <1>2, <1>3, <2>2, <2>3, <2>7, <2>9, <2>10, <2>11, <2>13, BuffersGrow
    <3> QED
      BY <2>3, <2>12, <3>1 DEF a
<1> QED
  BY <1>4, <1>5

LEMMA NewBufferTyped ==
    NewBuffer \in Buffer /\ Len(NewBuffer.data) = 0 /\ NewBuffer.stage = "str"
<1> DEFINE e == <<>>
<1>1. e \in Seq(Token) /\ Len(e) = 0
  BY EmptySeq
<1> HIDE DEF e
<1>2. NewBuffer = [data |-> e, stage |-> "str"]
  BY DEF NewBuffer, e
<1> QED
  BY <1>1, <1>2 DEF Buffer

\* A chunk that is put into the buffers makes them longer, by the chunk.
LEMMA ChunkGrows ==
    ASSUME BuffersTyped, NEW chunk \in Seq(Token), NEW size \in Nat, Len(chunk) = size,
           NEW file \in BOOLEAN, AppendChunk(chunk, size, file)
    PROVE  \E as \in Seq(Buffer) :
              /\ outbufs' = as /\ cur' \in Nat
              /\ Len(as) \in Nat /\ Len(as) >= Len(outbufs)
              /\ as # <<>> /\ as[Len(as)].stage # "file"
              /\ Held(as) = Held(outbufs) \o chunk
              /\ Len(Held(as)) = Len(Held(outbufs)) + size
<1> DEFINE n == Len(outbufs)
           x == Len(Held(outbufs))
<1>1. n \in Nat \ {0} /\ outbufs \in Seq(Buffer) /\ n \in 1 .. n /\ cur \in Nat /\ x \in Nat
  BY BufferedTyped, HeldTyped DEF BuffersTyped
<1>2. CASE file
  <2> DEFINE b == [data |-> chunk, stage |-> "file"]
             one == Append(outbufs, b)
             as == Append(one, NewBuffer)
  <2>1. b \in Buffer /\ b.data = chunk
    BY DEF Buffer
  <2>2. outbufs' = as /\ cur' = 0
    <3>1. outbufs' = outbufs \o <<b, NewBuffer>> /\ cur' = 0
      BY <1>2 DEF AppendChunk
    <3> DEFINE u == <<b>>
               c == NewBuffer
               v == <<c>>
               two == <<b, c>>
    <3>2. u \in Seq(Buffer) /\ v \in Seq(Buffer) /\ c \in Buffer
      BY <2>1, NewBufferTyped
    <3> HIDE DEF b
    <3>3. two = u \o v
      <4> HIDE DEF c
      <4> QED
        BY <2>1, <3>2
    <3>4. one = outbufs \o u
      BY <1>1, <2>1, AppendIsConcat
    <3> HIDE DEF u, v, c, two
    <3>5. outbufs \o two = (outbufs \o u) \o v
      <4>1. \A p, q, r \in Seq(Buffer) : (p \o q) \o r = p \o (q \o r)
        BY ConcatAssociative
      <4>2. (outbufs \o u) \o v = outbufs \o (u \o v)
        BY <1>1, <3>2, <4>1
      <4> QED
        BY <3>3, <4>2
    <3>6. outbufs \o u \in Seq(Buffer)
      BY <1>1, <3>2, ConcatProperties
    <3>7. Append(outbufs \o u, c) = (outbufs \o u) \o v
      BY <3>2, <3>6, AppendIsConcat DEF v
    <3> HIDE DEF one
    <3>8. outbufs \o two = as
      BY <3>4, <3>5, <3>7 DEF c
    <3> QED
      BY <3>1, <3>8 DEF two, c
  <2> HIDE DEF b
  <2>3. /\ one \in Seq(Buffer) /\ Len(one) = n + 1 /\ Len(Held(one)) = x + Len(b.data)
        /\ Held(one) = Held(outbufs) \o chunk
    BY <1>1, <2>1, HeldAppend
  <2> HIDE DEF one
  <2>4. /\ as \in Seq(Buffer) /\ Len(as) = Len(one) + 1
        /\ as[Len(one) + 1] = NewBuffer
        /\ Len(Held(as)) = Len(Held(one)) + Len(NewBuffer.data)
        /\ Held(as) = Held(one) \o NewBuffer.data
    BY <2>3, NewBufferTyped, HeldAppend
  <2> HIDE DEF as
  <2>5. Len(Held(as)) = x + size
    <3>1. Len(Held(one)) = x + size
      BY <2>1, <2>3
    <3>2. Len(Held(as)) = Len(Held(one)) + 0
      BY <2>4, NewBufferTyped
    <3> HIDE DEF x
    <3> QED
      BY <1>1, <3>1, <3>2
  <2>6. Len(as) = n + 2 /\ as[Len(as)] = NewBuffer
    BY <1>1, <2>3, <2>4
  <2>7. Len(as) \in Nat \ {0} /\ Len(as) >= n
    BY <1>1, <2>6
  <2>8. as # <<>> /\ as[Len(as)].stage # "file"
    <3>1. as # <<>>
      BY <2>4, <2>7, EmptySeq
    <3>2. as[Len(as)].stage # "file"
      BY <2>6, NewBufferTyped
    <3> QED
      BY <3>1, <3>2
  <2>9. Held(as) = Held(outbufs) \o chunk
    BY <2>3, <2>4, HeldTyped, ConcatEmptySeq DEF NewBuffer
  <2> QED
    BY <2>2, <2>4, <2>5, <2>7, <2>8, <2>9
<1>3. CASE ~file
  <2> DEFINE bs == IF cur >= Hwm THEN Append(outbufs, NewBuffer) ELSE outbufs
             m == Len(bs)
             o == bs[m]
             data == o.data \o chunk
             stage == IF o.stage = "str" /\ Len(data) >= StrLimit THEN "buf" ELSE o.stage
             b == [data |-> data, stage |-> stage]
             as == With(bs, m, b)
  <2>1. bs \in Seq(Buffer) /\ Len(Held(bs)) = x /\ bs # <<>> /\ o.stage # "file" /\ m >= n
        /\ m \in Nat \ {0} /\ Held(bs) = Held(outbufs)
    <3>1. CASE cur >= Hwm
      <4> DEFINE q == Append(outbufs, NewBuffer)
      <4>1. /\ q \in Seq(Buffer) /\ Len(q) = n + 1 /\ q[n + 1] = NewBuffer
            /\ Len(Held(q)) = x + Len(NewBuffer.data)
            /\ Held(q) = Held(outbufs) \o NewBuffer.data
        BY <1>1, NewBufferTyped, HeldAppend
      <4>2. bs = q
        BY <3>1
      <4> HIDE DEF q, bs
      <4>3. Len(Held(q)) = x
        BY <1>1, <4>1, NewBufferTyped
      <4>4. m = n + 1 /\ o = NewBuffer
        BY <4>1, <4>2
      <4>5. m \in Nat \ {0} /\ m >= n
        BY <1>1, <4>4
      <4>6. q # <<>>
        BY <4>1, <4>2, <4>5, EmptySeq
      <4>7. Held(q) = Held(outbufs)
        BY <1>1, <4>1, HeldTyped, ConcatEmptySeq DEF NewBuffer
      <4> QED
        BY <4>1, <4>2, <4>3, <4>4, <4>5, <4>6, <4>7, NewBufferTyped
    <3>2. CASE ~(cur >= Hwm)
      <4>1. bs = outbufs
        BY <3>2
      <4> HIDE DEF bs
      <4> QED
        BY <1>1, <4>1 DEF BuffersTyped
    <3> QED
      BY <3>1, <3>2
  <2>2. outbufs' = as /\ cur' = (IF cur >= Hwm THEN 0 ELSE cur) + size
    BY <1>3 DEF AppendChunk, Appended, With
  <2>3. cur' \in Nat
    BY <1>1, <2>2
  <2> HIDE DEF bs
  <2>4. m \in 1 .. m /\ o \in Buffer
    <3>1. m \in 1 .. m
      BY <2>1
    <3> QED
      BY <2>1, <3>1, ElementOfSeq
  <2> HIDE DEF o
  <2>5. o.data \in Seq(Token) /\ Len(o.data) \in Nat
        /\ o.stage \in {"str", "buf", "file", "shut"}
    BY <2>4, LenProperties DEF Buffer
  <2>6. data \in Seq(Token) /\ Len(data) = Len(o.data) + size
    BY <2>5, ConcatProperties
  <2> HIDE DEF data
  <2>7. stage \in {"str", "buf", "shut"}
    BY <2>1, <2>5
  <2> HIDE DEF stage
  <2>8. b \in Buffer /\ b.data = data /\ b.stage = stage
    BY <2>6, <2>7 DEF Buffer
  <2> HIDE DEF b
  <2>9. as \in Seq(Buffer) /\ Len(as) = m /\ as[m] = b
    BY <2>1, <2>4, <2>8, HeldReplace DEF as
  <2>10. Len(Held(as)) = Len(Held(bs)) - Len(bs[m].data) + Len(b.data)
    BY <2>1, <2>4, <2>8, HeldReplace DEF as
  <2>15. Held(as) = Held(outbufs) \o chunk
    <3>1. m = Len(bs) /\ m \in 1 .. Len(bs)
      BY <2>4 DEF m
    <3>2. b.data = bs[m].data \o chunk
      BY <2>8 DEF data, o
    <3> DEFINE l == m
    <3>3. l \in 1 .. Len(bs) /\ l = Len(bs) /\ b.data = bs[l].data \o chunk /\ as = With(bs, l, b)
      BY <3>1, <3>2
    <3> HIDE DEF as, l
    <3>4. Held(With(bs, l, b)) = Held(bs) \o chunk
      BY <2>1, <2>8, <3>3, HeldLast
    <3> QED
      BY <2>1, <3>3, <3>4
  <2> HIDE DEF as
  <2>11. Len(Held(as)) = x + size
    <3> DEFINE y == Len(o.data)
               z == Len(b.data)
    <3>1. y \in Nat /\ z = y + size
      BY <2>5, <2>6, <2>8
    <3>2. Len(Held(as)) = x - y + z
      BY <2>1, <2>10 DEF o
    <3> HIDE DEF x, y, z
    <3> QED
      BY <1>1, <3>1, <3>2
  <2>12. Len(as) \in Nat \ {0} /\ Len(as) >= n
    BY <2>1, <2>9
  <2>13. as # <<>>
    BY <2>9, <2>12, EmptySeq
  <2>14. as[Len(as)].stage # "file"
    BY <2>7, <2>8, <2>9
  <2> QED
    BY <2>2, <2>3, <2>9, <2>11, <2>12, <2>13, <2>14, <2>15
<1> QED
  BY <1>2, <1>3

LEMMA TokensTyped ==
    ASSUME NEW id \in Nat, NEW k \in Nat, NEW size \in Nat
    PROVE  Tokens(id, k, size) \in Seq(Token) /\ Len(Tokens(id, k, size)) = size
<1> DEFINE q == Tokens(id, k, size)
<1>1. \A i \in 1 .. size : <<id, k + i - 1>> \in Token
  <2> TAKE i \in 1 .. size
  <2>1. k + i - 1 \in Nat
    OBVIOUS
  <2> QED
    BY <2>1 DEF Token
<1>2. q \in [1 .. size -> Token] /\ DOMAIN q = 1 .. size
  BY <1>1 DEF Tokens
<1> HIDE DEF q
<1>3. q \in Seq(Token)
  BY <1>2, SeqDef
<1>4. Len(q) = size
  <2>1. DOMAIN q = 1 .. Len(q) /\ Len(q) \in Nat
    BY <1>3, LenProperties
  <2> DEFINE m == Len(q)
  <2>2. m \in Nat /\ 1 .. m = 1 .. size
    BY <1>2, <2>1
  <2> HIDE DEF m
  <2>3. m = size
    BY <2>2
  <2> QED
    BY <2>3 DEF m
<1> QED
  BY <1>3, <1>4 DEF q

LEMMA PutBuffers ==
    ASSUME Shapes, BuffersTyped, JobsTyped, NEW w \in Workers, put(w)
    PROVE  BuffersTyped' /\ (Unraced => Accounted) /\ (~connected => UNCHANGED Buffered)
<1>1. w \in Threads /\ job[w] \in Jobs /\ job[w].todo # <<>> /\ pc[w] = "put"
  BY ThreadKinds DEF put, JobsTyped, Chunked
<1>2. flush' = flush \/ flush' = [flush EXCEPT ![w].ctx = "write"]
  BY DEF put, StartFlush
<1>3. /\ \A u \in Threads \ {w} : flush'[u] = flush[u]
      /\ flush'[w].ref = flush[w].ref /\ flush'[w].num = flush[w].num
  <2>1. CASE flush' = flush
    BY <2>1
  <2>2. CASE flush' = [flush EXCEPT ![w].ctx = "write"]
    BY <1>1, <2>2 DEF Shapes, FlushFields
  <2> QED
    BY <1>2, <2>1, <2>2
<1>4. flush[w].num \in Nat /\ cur \in Nat /\ total \in Int
  BY <1>1 DEF BuffersTyped
<1>5. CASE ~connected
  <2>1. UNCHANGED <<total, outbufs, popped, cur>>
    BY <1>5 DEF put, LeftMeanwhile
  <2>2. BuffersTyped' /\ UNCHANGED Buffered
    BY <1>1, <1>3, <1>4, <2>1, BuffersStay
  <2> QED
    BY <2>1, <2>2 DEF Accounted
<1>6. CASE connected
  <2> DEFINE c == Head(job[w].todo)
             chunk == Tokens(job[w].id, job[w].k, c.size)
  <2>1. c \in Writes /\ job[w].id \in Nat /\ job[w].k \in Nat
    <3>1. job[w].todo \in Seq(Writes) /\ job[w].id \in Nat /\ job[w].k \in Nat
      BY <1>1 DEF Jobs
    <3> QED
      BY <1>1, <3>1, HeadTailProperties
  <2>2. c.size \in Nat /\ c.file \in BOOLEAN
    BY <2>1 DEF Writes
  <2>3. AppendChunk(chunk, c.size, c.file) /\ popped' = popped
        /\ total' \in {total + c.size, total} /\ (Unraced => total' = total + c.size)
    BY <1>1, <1>6 DEF put, LeftMeanwhile, NewTotal, Unraced
  <2> HIDE DEF c
  <2>4. chunk \in Seq(Token) /\ Len(chunk) = c.size
    BY <2>1, <2>2, TokensTyped
  <2> HIDE DEF chunk
  <2>5. PICK as \in Seq(Buffer) :
              /\ outbufs' = as /\ cur' \in Nat
              /\ Len(as) \in Nat /\ Len(as) >= Len(outbufs)
              /\ as # <<>> /\ as[Len(as)].stage # "file"
              /\ Len(Held(as)) = Len(Held(outbufs)) + c.size
    BY <2>2, <2>3, <2>4, ChunkGrows
  <2>6. flush'[w].ref \in {flush[w].ref, 0} /\ flush'[w].num \in Nat
    BY <1>3, <1>4
  <2>7. BuffersTyped' /\ (Unraced => Accounted)
    BY <1>1, <1>3, <2>2, <2>3, <2>5, <2>6, BuffersGrow
  <2> QED
    BY <1>6, <2>7
<1> QED
  BY <1>5, <1>6

LEMMA SendBuffers ==
    ASSUME Shapes, BuffersTyped, NEW t \in Threads, send_some(t)
    PROVE  BuffersTyped' /\ UNCHANGED <<total, Buffered>>
<1>1. PICK n \in 1 .. Min({room, Len(Current(t).data)}) : flush' = [flush EXCEPT ![t].num = n]
  BY DEF send_some
<1>2. n \in Nat
  OBVIOUS
<1>3. /\ \A u \in Threads \ {t} : flush'[u] = flush[u]
      /\ flush'[t].ref = flush[t].ref /\ flush'[t].num = n
  BY <1>1 DEF Shapes, FlushFields
<1>4. UNCHANGED <<total, outbufs, popped, cur>> /\ cur \in Nat
  BY DEF send_some, buffers, BuffersTyped
<1>5. BuffersTyped' /\ UNCHANGED Buffered
  BY <1>2, <1>3, <1>4, BuffersStay
<1> QED
  BY <1>4, <1>5

LEMMA AsideBuffers ==
    ASSUME Shapes, BuffersTyped, NEW t \in Threads,
           UNCHANGED <<total, outbufs, popped>>, cur' \in Nat,
           \/ flush' = flush
           \/ flush' = [flush EXCEPT ![t] = Idle]
           \/ \E c : StartFlush(t, c)
    PROVE  BuffersTyped' /\ UNCHANGED Buffered
<1>1. /\ flush[t].ref \in Nat /\ flush[t].num \in Nat
      /\ DOMAIN flush = Threads /\ DOMAIN flush[t] = FlushFields
  BY DEF Shapes, BuffersTyped
<1>2. CASE flush' = flush
  BY <1>1, <1>2, BuffersStay
<1>3. CASE flush' = [flush EXCEPT ![t] = Idle]
  <2>1. \A u \in Threads \ {t} : flush'[u] = flush[u]
    BY <1>1, <1>3
  <2>2. flush'[t].ref = 0 /\ flush'[t].num = 0
    BY <1>1, <1>3 DEF Idle
  <2> QED
    BY <2>1, <2>2, BuffersStay
<1>4. ASSUME NEW c, StartFlush(t, c) PROVE BuffersTyped' /\ UNCHANGED Buffered
  <2>1. /\ \A u \in Threads \ {t} : flush'[u] = flush[u]
        /\ flush'[t].ref = flush[t].ref /\ flush'[t].num = flush[t].num
    BY <1>1, <1>4 DEF StartFlush, FlushFields
  <2> QED
    BY <1>1, <2>1, BuffersStay
<1> QED
  BY <1>2, <1>3, <1>4

LEMMA FlushBuffers ==
    ASSUME Shapes, BuffersTyped, request.id \in Nat, NEW t \in Threads,
           flush_some(t) \/ send_continue(t) \/ handle_close(t) \/ dispatcher_close(t)
    PROVE  /\ BuffersTyped'
           /\ Unraced => Accounted \/ ~connected'
           /\ Buffered' =< Buffered \/ pc[t] = "continue"
<1>1. Buffered \in Nat /\ cur \in Nat /\ total \in Int
  BY BufferedTyped DEF BuffersTyped
<1>2. ASSUME UNCHANGED <<total, Buffered>> PROVE Accounted /\ Buffered' =< Buffered
  BY <1>1, <1>2 DEF Accounted
<1>3. CASE flush_top(t) \/ send_some(t)
  BY <1>2, <1>3, TopBuffers, SendBuffers
<1>4. CASE flush_skip(t) \/ flush_deduct(t)
  BY <1>1, <1>4, SkipBuffers, DeductBuffers
<1>5. CASE handle_close(t)
  <2>1. connected' = FALSE
    BY <1>5 DEF handle_close
  <2> QED
    BY <1>5, <2>1, CloseBuffers
<1>6. CASE send_continue(t)
  <2>1. pc[t] = "continue"
    BY <1>6 DEF send_continue
  <2> QED
    BY <1>6, <2>1, ContinueBuffers
<1>7. CASE send_nothing(t) \/ dispatcher_close(t) \/ flush_return(t) \/ flush_raise(t)
  <2>1. UNCHANGED <<total, outbufs, popped, cur>>
    BY <1>7 DEF send_nothing, dispatcher_close, flush_return, flush_raise, buffers
  <2>2. flush' = flush \/ flush' = [flush EXCEPT ![t] = Idle]
    BY <1>7 DEF send_nothing, dispatcher_close, flush_return, flush_raise,
                FlushReturned, FlushRaised, TestHwm
  <2>3. BuffersTyped' /\ UNCHANGED Buffered
    BY <1>1, <2>1, <2>2, AsideBuffers
  <2> QED
    BY <1>2, <2>1, <2>3
<1> QED
  BY <1>3, <1>4, <1>5, <1>6, <1>7 DEF flush_some

LEMMA BuffersNext ==
    ASSUME IInv, InputTyped, RequestsTyped, JobsTyped, BuffersTyped, [Next]_vars
    PROVE  /\ BuffersTyped'
           /\ Unraced => Accounted \/ ~connected'
           /\ \/ Buffered' =< Buffered
              \/ connected
              \/ \E t \in Threads : pc[t] = "continue"
<1>1. Buffered \in Nat /\ cur \in Nat /\ total \in Int /\ Shapes /\ request.id \in Nat
      /\ Main \in Threads /\ Hwm \in Nat
  BY BufferedTyped, ThreadKinds, LimitsTyped DEF BuffersTyped, IInv, RequestsTyped
<1>2. ASSUME NEW t \in Threads, UNCHANGED <<total, outbufs, popped>>, cur' \in Nat,
             flush' = flush \/ flush' = [flush EXCEPT ![t] = Idle] \/ \E c : StartFlush(t, c)
      PROVE  BuffersTyped' /\ Accounted /\ Buffered' =< Buffered
  <2>1. BuffersTyped' /\ UNCHANGED Buffered
    BY <1>1, <1>2, AsideBuffers
  <2> QED
    BY <1>1, <1>2, <2>1 DEF Accounted
<1>3. CASE UNCHANGED vars \/ ClientStep
  <2>1. UNCHANGED <<total, outbufs, popped, cur, flush>>
    BY <1>3 DEF vars, ClientStep, client_sends, client_reads, client_leaves,
                time_passes, server, buffers
  <2> QED
    BY <1>1, <1>2, <2>1
<1>4. ASSUME NEW t \in Threads,
             flush_some(t) \/ send_continue(t) \/ handle_close(t) \/ dispatcher_close(t)
      PROVE  /\ BuffersTyped'
             /\ Unraced => Accounted \/ ~connected'
             /\ Buffered' =< Buffered \/ pc[t] = "continue"
  BY <1>1, <1>4, FlushBuffers
<1>5. CASE \/ server_readable \/ readable \/ writable \/ enter_select \/ select_returns
           \/ select_times_out \/ trigger_read \/ interrupt \/ handle_read
           \/ handle_write \/ after_flush \/ shutdown \/ received \/ parse \/ queue_request
  <2>1. UNCHANGED <<total, outbufs, popped, cur>>
    BY <1>5 DEF server_readable, readable, writable, enter_select, select_returns,
       select_times_out, trigger_read, interrupt, handle_read, handle_write,
       after_flush, shutdown, received, parse, queue_request, buffers
  <2>2. flush' = flush \/ \E c : StartFlush(Main, c)
    BY <1>5 DEF server_readable, readable, writable, enter_select, select_returns,
       select_times_out, trigger_read, interrupt, handle_read, handle_write,
       after_flush, shutdown, received, parse, queue_request
  <2> QED
    BY <1>1, <1>2, <2>1, <2>2
<1>6. ASSUME NEW w \in Workers,
             \/ take_task(w) \/ service_start(w) \/ app_writes(w) \/ app_raises(w)
             \/ write_soon(w) \/ wait_returns(w) \/ finish(w)
             \/ flush_before_next(w) \/ close_soon(w) \/ drop_requests(w)
             \/ pop_request(w) \/ next_request(w) \/ service_ends(w)
      PROVE  BuffersTyped' /\ Accounted /\ Buffered' =< Buffered
  <2>1. UNCHANGED <<total, outbufs, popped>> /\ cur' \in {cur, Hwm}
    BY <1>6 DEF take_task, service_start, app_writes, app_raises, write_soon,
       wait_returns, finish, flush_before_next, close_soon, drop_requests, pop_request,
       next_request, service_ends, buffers
  <2>2. flush' = flush \/ flush' = [flush EXCEPT ![w] = Idle] \/ \E c : StartFlush(w, c)
    BY <1>6 DEF take_task, service_start, app_writes, app_raises, write_soon,
       wait_returns, TestHwm, finish, flush_before_next, close_soon, drop_requests,
       pop_request, next_request, service_ends
  <2> QED
    BY <1>1, <1>2, <2>1, <2>2, ThreadKinds
<1>7. ASSUME NEW w \in Workers, put(w)
      PROVE  BuffersTyped' /\ (Unraced => Accounted) /\ (connected \/ Buffered' =< Buffered)
  BY <1>1, <1>7, PutBuffers
<1> QED
  BY <1>3, <1>4, <1>5, <1>6, <1>7, ThreadKinds DEF Next, MainStep, WorkerStep

----------------------------------------------------------------------------
(* Types: flags, locks and the kernel's buffer *)

FlagsTyped ==
    /\ will_close \in BOOLEAN /\ close_when_flushed \in BOOLEAN
    /\ connected \in BOOLEAN /\ sent_continue \in BOOLEAN
    /\ stale \in BOOLEAN /\ trigger \in BOOLEAN /\ reaped \in BOOLEAN
    /\ requests_lock \in Threads \union {None}
    /\ outbuf_lock \in Threads \union {None}
    /\ room \in 0 .. SockCap

Flag(new, old) == new = old \/ new \in BOOLEAN

\* What a step of t may do to them.
FlagsMove(t) ==
    /\ Flag(will_close', will_close) /\ Flag(close_when_flushed', close_when_flushed)
    /\ Flag(connected', connected) /\ Flag(sent_continue', sent_continue)
    /\ Flag(stale', stale) /\ Flag(trigger', trigger) /\ Flag(reaped', reaped)
    /\ requests_lock' \in {requests_lock, None, t}
    /\ outbuf_lock' \in {outbuf_lock, None, t}

LEMMA FlagsHeld ==
    ASSUME FlagsTyped, NEW t \in Threads, FlagsMove(t), room' \in 0 .. SockCap
    PROVE  FlagsTyped'
BY DEF FlagsTyped, FlagsMove, Flag

LEMMA FlushFlags ==
    ASSUME NEW t \in Threads,
           flush_some(t) \/ send_continue(t) \/ handle_close(t) \/ dispatcher_close(t)
    PROVE  FlagsMove(t)
<1>1. CASE \/ flush_top(t) \/ send_some(t) \/ send_nothing(t)
           \/ flush_skip(t) \/ flush_deduct(t)
           \/ handle_close(t) \/ dispatcher_close(t) \/ send_continue(t)
  BY <1>1 DEF flush_top, send_some, send_nothing,
     flush_skip, flush_deduct, SentOn, handle_close,
              dispatcher_close, send_continue, FlagsMove, Flag, shared, locks
<1>2. CASE flush_return(t)
  <2>1. UNCHANGED <<will_close, close_when_flushed, connected, sent_continue, reaped>>
    BY <1>2 DEF flush_return
  <2>2. Flag(stale', stale)
    BY <1>2 DEF flush_return, Flag
  <2>3. Flag(trigger', trigger)
    BY <1>2 DEF flush_return, FlushReturned, TestHwm, PauseAtHwm, Flag
  <2>4. requests_lock' \in {requests_lock, None, t} /\ outbuf_lock' \in {outbuf_lock, None, t}
    BY <1>2 DEF flush_return, FlushReturned, TestHwm, PauseAtHwm, BelowHwm, locks
  <2> QED
    BY <2>1, <2>2, <2>3, <2>4 DEF FlagsMove, Flag
<1>3. CASE flush_raise(t)
  <2>1. UNCHANGED <<close_when_flushed, connected, sent_continue, reaped, stale>>
    BY <1>3 DEF flush_raise
  <2>2. Flag(will_close', will_close) /\ Flag(trigger', trigger)
    BY <1>3 DEF flush_raise, FlushRaised, PauseAtHwm, Flag
  <2>3. requests_lock' \in {requests_lock, None, t} /\ outbuf_lock' \in {outbuf_lock, None, t}
    BY <1>3 DEF flush_raise, FlushRaised, PauseAtHwm
  <2> QED
    BY <2>1, <2>2, <2>3 DEF FlagsMove, Flag
<1> QED
  BY <1>1, <1>2, <1>3 DEF flush_some

LEMMA MainFlags ==
    ASSUME \/ server_readable \/ readable \/ writable \/ enter_select \/ select_returns
           \/ select_times_out \/ trigger_read \/ interrupt \/ handle_read
           \/ handle_write \/ after_flush \/ shutdown \/ received \/ parse \/ queue_request
    PROVE  FlagsMove(Main) /\ UNCHANGED room
<1>1. CASE \/ server_readable \/ readable \/ writable \/ enter_select \/ select_returns
           \/ select_times_out \/ trigger_read \/ interrupt \/ handle_read
           \/ handle_write
  BY <1>1 DEF server_readable, readable, writable, enter_select, select_returns,
       select_times_out, trigger_read, interrupt, handle_read,
       handle_write, FlagsMove, Flag, shared, locks
<1>2. CASE after_flush \/ shutdown \/ received \/ parse \/ queue_request
  BY <1>2 DEF after_flush, shutdown, received, parse, queue_request,
              FlagsMove, Flag, shared, locks
<1> QED
  BY <1>1, <1>2

LEMMA WorkerFlags ==
    ASSUME NEW w \in Workers,
           \/ take_task(w) \/ service_start(w) \/ app_writes(w) \/ app_raises(w)
           \/ write_soon(w) \/ put(w) \/ wait_returns(w) \/ finish(w)
           \/ flush_before_next(w) \/ close_soon(w) \/ drop_requests(w)
           \/ pop_request(w) \/ next_request(w) \/ service_ends(w)
    PROVE  FlagsMove(w) /\ UNCHANGED room
<1>1. CASE \/ take_task(w) \/ service_start(w) \/ app_writes(w) \/ app_raises(w)
           \/ write_soon(w) \/ put(w) \/ finish(w)
  BY <1>1 DEF take_task, service_start, app_writes, app_raises, write_soon, put, finish,
              FlagsMove, Flag, shared, locks
<1>2. CASE \/ flush_before_next(w) \/ close_soon(w) \/ drop_requests(w)
           \/ pop_request(w) \/ next_request(w)
  BY <1>2 DEF flush_before_next, close_soon, drop_requests, pop_request, next_request,
              FlagsMove, Flag, shared, locks
<1>3. CASE service_ends(w)
  BY <1>3 DEF service_ends, WakeMain, FlagsMove, Flag, shared, locks
<1>4. CASE wait_returns(w)
  BY <1>4 DEF wait_returns, TestHwm, PauseAtHwm, BelowHwm, FlagsMove, Flag, shared, locks
<1> QED
  BY <1>1, <1>2, <1>3, <1>4

\* A sender sends at most what there is room for.
LEMMA RoomKept ==
    ASSUME room \in 0 .. SockCap, BuffersTyped, NEW t \in Threads, send_some(t)
    PROVE  room' \in 0 .. SockCap
<1> DEFINE len == Len(Current(t).data)
           s == {room, len}
<1>1. PICK n \in 1 .. Min(s) : room' = room - n
  BY DEF send_some
<1>2. room \in Nat /\ len \in Nat /\ SockCap \in Nat /\ room =< SockCap
  BY CurrentTyped, LimitsTyped DEF send_some
<1>3. Min(s) \in s /\ Min(s) =< room
  <2>1. s \in SUBSET Nat /\ s # {}
    BY <1>2
  <2> HIDE DEF s
  <2>2. PICK x \in s : \A y \in s : x =< y
    BY <2>1, LeastOf
  <2>3. Min(s) \in s /\ \A y \in s : Min(s) =< y
    BY <2>2 DEF Min
  <2>4. room \in s
    BY DEF s
  <2> QED
    BY <2>3, <2>4
<1> HIDE DEF len
<1>4. Min(s) \in Nat
  BY <1>2, <1>3
<1> HIDE DEF s
<1>5. n \in Nat /\ n =< room
  BY <1>2, <1>3, <1>4
<1> QED
  BY <1>1, <1>2, <1>5

LEMMA FlagsNext ==
    ASSUME BuffersTyped, FlagsTyped, [Next]_vars
    PROVE  FlagsTyped'
<1>1. room \in 0 .. SockCap /\ SockCap \in Nat /\ stale \in BOOLEAN
  BY LimitsTyped DEF FlagsTyped
<1>2. CASE UNCHANGED vars \/ ClientStep
  <2>1. /\ UNCHANGED <<shared, locks, trigger, reaped>>
        /\ stale' \in {stale, TRUE} /\ room' \in {room, SockCap}
    BY <1>2 DEF vars, ClientStep, client_sends, client_reads, client_leaves,
                time_passes, server
  <2>2. FlagsMove(Main)
    BY <2>1 DEF shared, locks, FlagsMove, Flag
  <2>3. room' \in 0 .. SockCap
    BY <1>1, <2>1
  <2> QED
    BY <2>2, <2>3, FlagsHeld, ThreadKinds
<1>3. ASSUME NEW t \in Threads,
             flush_some(t) \/ send_continue(t) \/ handle_close(t) \/ dispatcher_close(t)
      PROVE  FlagsTyped'
  <2>1. room' = room \/ send_some(t)
    BY <1>3 DEF flush_some, flush_top, send_nothing,
       flush_skip, flush_deduct, SentOn, flush_return, flush_raise,
                send_continue, handle_close, dispatcher_close
  <2>2. room' \in 0 .. SockCap
    BY <1>1, <2>1, RoomKept
  <2> QED
    BY <1>3, <2>2, FlushFlags, FlagsHeld
<1>4. CASE \/ server_readable \/ readable \/ writable \/ enter_select \/ select_returns
           \/ select_times_out \/ trigger_read \/ interrupt \/ handle_read
           \/ handle_write \/ after_flush \/ shutdown \/ received \/ parse \/ queue_request
  BY <1>1, <1>4, MainFlags, FlagsHeld, ThreadKinds
<1>5. ASSUME NEW w \in Workers,
             \/ take_task(w) \/ service_start(w) \/ app_writes(w) \/ app_raises(w)
             \/ write_soon(w) \/ put(w) \/ wait_returns(w) \/ finish(w)
             \/ flush_before_next(w) \/ close_soon(w) \/ drop_requests(w)
             \/ pop_request(w) \/ next_request(w) \/ service_ends(w)
      PROVE  FlagsTyped'
  BY <1>1, <1>5, WorkerFlags, FlagsHeld, ThreadKinds
<1> QED
  BY <1>2, <1>3, <1>4, <1>5, ThreadKinds DEF Next, MainStep, WorkerStep

----------------------------------------------------------------------------
(* The types together, and what follows from them *)

Typed ==
    /\ IdleOutside /\ InputTyped /\ RequestsTyped /\ JobsTyped /\ BuffersTyped
    /\ FlagsTyped

LEMMA TypedInit == Init => Typed
<1> SUFFICES ASSUME Init PROVE Typed
  OBVIOUS
<1>1. /\ script \in Scripts /\ sent = 0 /\ rcvd = 0 /\ parsed = 0
      /\ requests = <<>> /\ request = NoRequest
      /\ total = 0 /\ cur = 0 /\ popped = 0 /\ room = SockCap
  BY DEF Init
<1>2. \A t \in Threads : /\ flush[t].ctx = "" /\ flush[t].ref = 0 /\ flush[t].num = 0
                         /\ pc[t] \in {"poll", "idle"}
  BY DEF Init
<1>3. IdleOutside
  BY <1>2 DEF IdleOutside
<1>4. Len(Units) \in Nat
  BY <1>1, UnitsTyped
<1>5. InputTyped
  <2>1. pc[Main] \in {"poll", "idle"}
    BY <1>2, ThreadKinds
  <2> QED
    BY <1>1, <1>4, <2>1 DEF InputTyped
<1>6. RequestsTyped
  <2> DEFINE r == <<>>
             n == Len(script)
  <2>1. n \in Nat
    BY <1>1, ScriptsShape, LenProperties
  <2>2. r \in Seq(1 .. n)
    BY EmptySeq
  <2> HIDE DEF r, n
  <2>3. request \in [id : 0 .. n, expect : BOOLEAN, completed : BOOLEAN]
        /\ request.completed = FALSE
    BY <1>1, <2>1 DEF NoRequest
  <2>4. parsed < Len(Units) => Units[parsed + 1][2] # "body"
    <3>1. Grammatical(script, Units)
      BY <1>1, UnitsGrammatical
    <3> DEFINE u == Units
    <3>2. parsed + 1 = 1 /\ parsed < Len(u) => 1 \in 1 .. Len(u)
      BY <1>1, <1>4
    <3>3. 1 - 1 \notin 1 .. Len(u)
      BY <1>4
    <3>4. 1 \in 1 .. Len(u) /\ u[1][2] = "body" => 1 - 1 \in 1 .. Len(u)
      BY <3>1 DEF Grammatical
    <3>5. parsed + 1 = 1
      BY <1>1
    <3> HIDE DEF u
    <3>6. parsed < Len(u) => u[1][2] # "body"
      BY <3>2, <3>3, <3>4, <3>5
    <3> QED
      BY <3>5, <3>6 DEF u
  <2>5. requests = r
    BY <1>1 DEF r
  <2> QED
    BY <2>2, <2>3, <2>4, <2>5 DEF RequestsTyped, n
<1>7. JobsTyped
  <2> DEFINE e == <<>>
             j == [id |-> 0, todo |-> e, k |-> 1, close |-> FALSE, exc |-> FALSE]
  <2>1. e \in Seq(Writes)
    BY EmptySeq
  <2>2. job = [w \in Workers |-> j]
    BY DEF Init
  <2> HIDE DEF e
  <2>3. j \in Jobs
    BY <2>1 DEF Jobs
  <2> HIDE DEF j
  <2>4. job \in [Workers -> Jobs]
    BY <2>2, <2>3
  <2>5. \A w \in Workers : ~Chunked(w)
    BY <1>2, ThreadKinds DEF Chunked
  <2> QED
    BY <2>4, <2>5 DEF JobsTyped
<1>8. BuffersTyped
  <2> DEFINE b == NewBuffer
             bs == <<b>>
  <2>1. b \in Buffer /\ b.stage = "str"
    BY NewBufferTyped
  <2>2. outbufs = bs
    BY DEF Init
  <2> HIDE DEF b
  <2>3. bs \in Seq(Buffer) /\ Len(bs) = 1 /\ bs[1] = b
    BY <2>1
  <2> HIDE DEF bs
  <2>4. bs # <<>>
    <3> DEFINE e == <<>>
    <3>1. Len(e) = 0
      BY EmptySeq
    <3> HIDE DEF e
    <3>2. bs # e
      BY <2>3, <3>1
    <3> QED
      BY <3>2 DEF e
  <2>5. bs[Len(bs)].stage # "file"
    BY <2>1, <2>3
  <2>6. \A t \in Threads : /\ flush[t].ref \in Nat /\ flush[t].ref =< popped + Len(outbufs)
                           /\ flush[t].num \in Nat
    <3>1. popped + Len(outbufs) = 1
      BY <1>1, <2>2, <2>3
    <3>2. \A t \in Threads : flush[t].ref = 0 /\ flush[t].num = 0
      BY <1>2
    <3> DEFINE n == popped + Len(outbufs)
    <3>3. n = 1
      BY <3>1
    <3> HIDE DEF n
    <3>4. \A t \in Threads : /\ flush[t].ref \in Nat /\ flush[t].ref =< n
                             /\ flush[t].num \in Nat
      BY <3>2, <3>3
    <3> QED
      BY <3>4 DEF n
  <2> QED
    BY <1>1, <2>2, <2>3, <2>4, <2>5, <2>6 DEF BuffersTyped
<1>9. FlagsTyped
  <2>1. SockCap \in Nat
    BY LimitsTyped
  <2>2. room \in 0 .. SockCap
    BY <1>1, <2>1
  <2>3. /\ will_close = FALSE /\ close_when_flushed = FALSE /\ connected = TRUE
        /\ sent_continue = FALSE /\ stale = FALSE /\ trigger = FALSE /\ reaped = FALSE
        /\ requests_lock = None /\ outbuf_lock = None
    BY DEF Init
  <2> QED
    BY <2>2, <2>3 DEF FlagsTyped
<1> QED
  BY <1>3, <1>5, <1>6, <1>7, <1>8, <1>9 DEF Typed

LEMMA TypedNext == IInv /\ Typed /\ [Next]_vars => Typed'
<1> SUFFICES ASSUME IInv, Typed, [Next]_vars PROVE Typed'
  OBVIOUS
<1> QED
  BY IdleNext, InputKept, RequestsKept, JobsKept, BuffersNext, FlagsNext DEF Typed, IInv

LEMMA TypedAlways == Spec => []Typed
BY InvAlways, TypedInit, TypedNext, PTL DEF Spec

\* A channel that is closed stays closed.
LEMMA NeverReconnected == [Next]_vars => connected' \in {connected, FALSE}
<1> SUFFICES ASSUME [Next]_vars PROVE connected' \in {connected, FALSE}
  OBVIOUS
<1>1. CASE UNCHANGED vars \/ ClientStep
  BY <1>1 DEF vars, ClientStep, client_sends, client_reads, client_leaves,
              time_passes, server, shared
<1>2. ASSUME NEW t \in Threads,
             flush_some(t) \/ send_continue(t) \/ handle_close(t) \/ dispatcher_close(t)
      PROVE  connected' \in {connected, FALSE}
  BY <1>2 DEF flush_some, flush_top, send_some, send_nothing,
     flush_skip, flush_deduct, SentOn, flush_return,
              flush_raise, send_continue, handle_close, dispatcher_close, shared
<1>3. CASE \/ server_readable \/ readable \/ writable \/ enter_select \/ select_returns
           \/ select_times_out \/ trigger_read \/ interrupt \/ handle_read
           \/ handle_write \/ after_flush \/ shutdown \/ received \/ parse \/ queue_request
  BY <1>3 DEF server_readable, readable, writable, enter_select, select_returns,
       select_times_out, trigger_read, interrupt, handle_read, handle_write,
       after_flush, shutdown, received, parse, queue_request, shared
<1>4. ASSUME NEW w \in Workers,
             \/ take_task(w) \/ service_start(w) \/ app_writes(w) \/ app_raises(w)
             \/ write_soon(w) \/ put(w) \/ wait_returns(w) \/ finish(w)
             \/ flush_before_next(w) \/ close_soon(w) \/ drop_requests(w)
             \/ pop_request(w) \/ next_request(w) \/ service_ends(w)
      PROVE  connected' \in {connected, FALSE}
  BY <1>4 DEF take_task, service_start, app_writes, app_raises, write_soon, put,
       wait_returns, finish, flush_before_next, close_soon, drop_requests,
       pop_request, next_request, service_ends, shared
<1> QED
  BY <1>1, <1>2, <1>3, <1>4, ThreadKinds DEF Next, MainStep, WorkerStep

\* The types of the channel's state, for any workers, scripts and limits.
THEOREM ChannelTyped == Spec => []TypeOK
<1>1. IInv /\ Typed => TypeOK
  <2> SUFFICES ASSUME IInv, Typed PROVE TypeOK
    OBVIOUS
  <2>1. script \in Seq(Requests) /\ Len(script) \in Nat /\ DOMAIN script = 1 .. Len(script)
    BY ScriptsShape, LenProperties DEF Typed, InputTyped
  <2>2. requests \in Seq(DOMAIN script) /\ request.id \in 0 .. Len(script)
        /\ request.expect \in BOOLEAN /\ request.completed \in BOOLEAN
    BY <2>1 DEF Typed, RequestsTyped
  <2>3. {will_close, close_when_flushed, connected, sent_continue, stale, trigger,
         reaped, request.expect, request.completed} \subseteq BOOLEAN
    BY <2>2 DEF Typed, FlagsTyped
  <2>4. total \in Int /\ cur \in Nat /\ popped \in Nat /\ outbufs # <<>>
    BY DEF Typed, BuffersTyped
  <2>5. Last1(outbufs).stage # "file"
    BY DEF Typed, BuffersTyped, Last1
  <2>6. \A i \in DOMAIN outbufs : outbufs[i].stage \in {"str", "buf", "file", "shut"}
    <3>1. outbufs \in Seq(Buffer)
      BY DEF Typed, BuffersTyped
    <3>2. DOMAIN outbufs = 1 .. Len(outbufs)
      BY <3>1, LenProperties
    <3>3. \A i \in 1 .. Len(outbufs) : outbufs[i] \in Buffer
      BY <3>1, ElementOfSeq
    <3> QED
      BY <3>2, <3>3 DEF Buffer
  <2>7. tasks \in Nat
    BY DEF IInv, Service, NoServant, Servant
  <2>8. parsed =< rcvd /\ rcvd =< sent /\ sent =< Len(Units)
    BY DEF Typed, InputTyped
  <2>9. /\ requests_lock \in Threads \union {None}
        /\ outbuf_lock \in Threads \union {None}
        /\ room \in 0 .. SockCap
    BY DEF Typed, FlagsTyped
  <2> QED
    BY <2>2, <2>3, <2>4, <2>5, <2>6, <2>7, <2>8, <2>9 DEF TypeOK
<1> QED
  BY <1>1, InvAlways, TypedAlways, PTL

=============================================================================
