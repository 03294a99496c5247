------------------------------- MODULE TaskProofs -------------------------------
(****************************************************************************)
(* Proofs about Task, for all lengths and every application.                *)
(****************************************************************************)
EXTENDS Task, TLAPS

Length == Nat \union {None}

TaskRecord ==
    [complete : BOOLEAN, has_body : BOOLEAN, header : Length, says_close : BOOLEAN,
     content_length : Length, content_bytes_written : Int, wrote_header : BOOLEAN,
     chunked_response : BOOLEAN, close_on_finish : BOOLEAN]

WireRecord ==
    [heads : Nat, cl : Length, chunked : BOOLEAN, close : BOOLEAN, keep : BOOLEAN,
     body : Int, end : BOOLEAN]

AppRecord == [given : Int, mixed : BOOLEAN, ended : BOOLEAN, released : Nat]

Types ==
    /\ task \in TaskRecord /\ wire \in WireRecord /\ app \in AppRecord
    /\ request \in Requests
    /\ connected \in BOOLEAN
    /\ pc \in {"app", "iterate", "file", "send_file", "close", "finish", "error",
               "failed", "served"}

----------------------------------------------------------------------------
(* Whose turn it is to close the iterable *)

Releases ==
    /\ pc = "app" => app.released = 0 /\ app_iter = "none"
    /\ pc \in {"iterate", "file", "send_file", "close"} =>
          app.released = 0 /\ app_iter # "none"
    /\ pc \in {"finish", "failed", "error", "served"} =>
          app.released = IF app_iter = "none" THEN 0 ELSE 1

----------------------------------------------------------------------------
(* What a task knows of the response, and what was sent *)

\* Before the head nothing was sent, and the lengths agree.
BeforeHead(t, w, a) ==
    /\ w = EmptyWire /\ a.given = 0
    /\ ~t.chunked_response /\ t.content_bytes_written = 0
    /\ t.header # None => t.complete /\ t.header = t.content_length

\* After it the task cannot start again, and a response that leaves the connection
\* open has the length that was announced.
AfterHead(t, w, a) ==
    /\ t.complete
    /\ w.heads = 1
    /\ t.chunked_response => t.has_body /\ w.body = a.given
    /\ ~t.close_on_finish =>
          /\ t.has_body /\ ~t.chunked_response
          /\ ~w.chunked /\ ~w.close /\ w.cl # None
          /\ w.keep <=> request.version = "1.0"
          /\ t.content_length # None
          /\ a.mixed \/ t.content_length = w.cl
    /\ a.given = 0 => w.body = 0

Coherent(t, w, a) ==
    /\ t.says_close => t.close_on_finish
    /\ ~t.wrote_header => BeforeHead(t, w, a)
    /\ t.wrote_header => AfterHead(t, w, a)
    /\ a.given >= 0

\* The bytes that were sent are those that were counted.
BytesCounted(t, w) ==
    t.wrote_header /\ ~t.close_on_finish => w.body = t.content_bytes_written

\* The task has sent all that it announced, or will close.
Sent(t, w) ==
    \/ t.close_on_finish
    \/ request.head
    \/ t.content_length = None
    \/ w.body = t.content_length

Progress ==
    /\ pc \in {"app", "iterate", "file", "send_file", "error"} => exc = "none"
    /\ pc \in {"app", "iterate", "file", "send_file"} => BytesCounted(task, wire)
    /\ pc = "send_file" => task.wrote_header
    /\ pc \in {"file", "send_file"} => task.content_length # None
    /\ pc \in {"file", "send_file"} /\ ~app.mixed => wire.body = 0
    /\ pc \in {"close", "finish"} /\ exc = "none" => app.ended \/ task.close_on_finish
    /\ pc \in {"close", "finish"} /\ exc = "none" => Sent(task, wire) \/ app.mixed
    /\ pc = "close" /\ exc = "none" => app.ended
    /\ pc = "finish" => exc = "none" /\ (app.ended \/ (task.wrote_header /\ ~task.chunked_response))
    /\ pc = "error" => ~task.wrote_header /\ task.has_body /\ task.complete /\ task.header = None
    /\ pc # "served" => ~wire.end

Finished ==
    pc = "served" =>
        \/ task.close_on_finish
        \/ task.wrote_header /\ (request.head \/ app.mixed \/ wire.body = wire.cl)

EndIsTrue == wire.end => app.ended /\ (app.mixed \/ wire.body = app.given)

IInv == Types /\ Releases /\ Coherent(task, wire, app) /\ Progress /\ Finished /\ EndIsTrue

----------------------------------------------------------------------------
(* Writing *)

\* The fields of a task after build_response_header().
LEMMA HeaderBuilt ==
    ASSUME NEW t \in TaskRecord, ~t.wrote_header
    PROVE  LET b == build_response_header(t)
           IN  /\ b \in TaskRecord
               /\ b.header = ContentLengthHeader(t)
               /\ b.content_length = t.content_length
               /\ b.content_bytes_written = t.content_bytes_written
               /\ b.complete <=> t.complete
               /\ b.has_body <=> t.has_body
               /\ ~b.wrote_header
               /\ b.close_on_finish <=> t.close_on_finish \/ Closing(t)
               /\ b.says_close <=> t.says_close \/ Closing(t)
               /\ b.chunked_response <=>
                     request.version = "1.1" /\ t.has_body /\ ContentLengthHeader(t) = None
<1> DEFINE c == IF Closing(t) THEN set_close_on_finish(t) ELSE t
           ch == /\ request.version = "1.1" /\ t.has_body
                 /\ ContentLengthHeader(t) = None
           b == [c EXCEPT !.header = ContentLengthHeader(t), !.chunked_response = ch]
<1>1. ContentLengthHeader(t) \in Length
  BY DEF ContentLengthHeader, TaskRecord, Length
<1>2. set_close_on_finish(t) = [t EXCEPT !.says_close = TRUE, !.close_on_finish = TRUE]
  BY DEF set_close_on_finish, TaskRecord
<1>3. /\ c \in TaskRecord
      /\ c.content_length = t.content_length
      /\ c.content_bytes_written = t.content_bytes_written
      /\ c.complete <=> t.complete
      /\ c.has_body <=> t.has_body
      /\ ~c.wrote_header
      /\ c.close_on_finish <=> t.close_on_finish \/ Closing(t)
      /\ c.says_close <=> t.says_close \/ Closing(t)
  <2>1. CASE Closing(t)
    BY <1>2, <2>1 DEF TaskRecord
  <2>2. CASE ~Closing(t)
    BY <2>2 DEF TaskRecord
  <2> QED
    BY <2>1, <2>2
<1>4. ch \in BOOLEAN /\ build_response_header(t) = b
  BY DEF build_response_header
<1> HIDE DEF c, ch
<1>5. /\ b \in TaskRecord
      /\ b.header = ContentLengthHeader(t)
      /\ b.content_length = c.content_length
      /\ b.content_bytes_written = c.content_bytes_written
      /\ b.complete <=> c.complete
      /\ b.has_body <=> c.has_body
      /\ b.wrote_header <=> c.wrote_header
      /\ b.close_on_finish <=> c.close_on_finish
      /\ b.says_close <=> c.says_close
      /\ b.chunked_response <=> ch
  BY <1>1, <1>3, <1>4 DEF TaskRecord
<1> QED
  BY <1>3, <1>4, <1>5 DEF ch

\* With the head, a coherent task stays coherent.
LEMMA HeadSent ==
    ASSUME NEW t \in TaskRecord, app \in AppRecord, wire \in WireRecord,
           t.complete, Coherent(t, wire, app)
    PROVE  LET h == WithHead(t)
           IN  /\ h.t \in TaskRecord /\ h.w \in WireRecord
               /\ h.t.wrote_header
               /\ h.t.content_length = t.content_length
               /\ h.t.content_bytes_written = t.content_bytes_written
               /\ h.t.has_body <=> t.has_body
               /\ t.close_on_finish => h.t.close_on_finish
               /\ h.t.chunked_response => t.chunked_response \/ t.content_length = None
               /\ Coherent(h.t, h.w, app)
               /\ h.w.body = wire.body
               /\ h.w.end <=> wire.end
               /\ BytesCounted(t, wire) => BytesCounted(h.t, h.w)
<1>1. CASE t.wrote_header
  <2>1. WithHead(t) = [t |-> t, w |-> wire]
    BY <1>1 DEF WithHead
  <2> QED
    BY <1>1, <2>1 DEF TaskRecord
<1>2. CASE ~t.wrote_header
  <2> DEFINE b == build_response_header(t)
             bt == [b EXCEPT !.wrote_header = TRUE]
             w == HeadOf(b)
  <2>0. WithHead(t) = [t |-> bt, w |-> w]
    BY <1>2 DEF WithHead
  <2>1. /\ b \in TaskRecord
        /\ b.header = ContentLengthHeader(t)
        /\ b.content_length = t.content_length
        /\ b.content_bytes_written = t.content_bytes_written
        /\ b.complete <=> t.complete
        /\ b.has_body <=> t.has_body
        /\ ~b.wrote_header
        /\ b.close_on_finish <=> t.close_on_finish \/ Closing(t)
        /\ b.says_close <=> t.says_close \/ Closing(t)
        /\ b.chunked_response <=>
              request.version = "1.1" /\ t.has_body /\ ContentLengthHeader(t) = None
    BY <1>2, HeaderBuilt
  <2>2. BeforeHead(t, wire, app) /\ (t.says_close => t.close_on_finish)
    BY <1>2 DEF Coherent
  <2>3. ContentLengthHeader(t) # None => t.has_body /\ ContentLengthHeader(t) = t.content_length
    BY <2>2 DEF BeforeHead, ContentLengthHeader
  <2>4. ContentLengthHeader(t) = None /\ t.has_body => t.content_length = None
    BY <2>2 DEF BeforeHead, ContentLengthHeader
  <2>5. ContentLengthHeader(t) = None => Closing(t)
    BY DEF Closing
  <2>6. Closing(b) <=> Closing(t)
    <3>1. ContentLengthHeader(b) = ContentLengthHeader(t)
      BY <2>1, <2>3, <2>4 DEF ContentLengthHeader
    <3> QED
      BY <3>1 DEF Closing
  <2> HIDE DEF b
  <2>7. /\ bt \in TaskRecord
        /\ bt.wrote_header
        /\ bt.header = b.header
        /\ bt.content_length = b.content_length
        /\ bt.content_bytes_written = b.content_bytes_written
        /\ bt.complete <=> b.complete
        /\ bt.has_body <=> b.has_body
        /\ bt.close_on_finish <=> b.close_on_finish
        /\ bt.says_close <=> b.says_close
        /\ bt.chunked_response <=> b.chunked_response
    BY <2>1 DEF TaskRecord
  <2>8. wire = EmptyWire
    BY <2>2 DEF BeforeHead
  <2>9. /\ w \in WireRecord
        /\ w.heads = 1 /\ w.body = 0 /\ ~w.end
        /\ w.cl = b.header
        /\ w.chunked <=> b.chunked_response
        /\ w.close <=> b.says_close
        /\ w.keep <=> request.version = "1.0" /\ ~Closing(t)
    <3> DEFINE keep == request.version = "1.0" /\ ~Closing(b)
               e == EmptyWire
    <3>1. w = [e EXCEPT !.heads = e.heads + 1, !.cl = b.header, !.chunked = b.chunked_response,
                        !.close = b.says_close, !.keep = keep]
      BY <2>8 DEF HeadOf
    <3>2. b.header \in Length /\ b.chunked_response \in BOOLEAN /\ b.says_close \in BOOLEAN
      BY <2>1 DEF TaskRecord
    <3>3. e \in WireRecord /\ e.heads = 0 /\ e.body = 0 /\ ~e.end
      BY DEF EmptyWire, WireRecord, Length
    <3>4. keep \in BOOLEAN /\ (keep <=> request.version = "1.0" /\ ~Closing(t))
      BY <2>6
    <3> HIDE DEF w, keep, e
    <3>5. /\ w.heads = 1 /\ w.body = 0 /\ ~w.end /\ w.cl = b.header
          /\ w.chunked <=> b.chunked_response
          /\ w.close <=> b.says_close
          /\ w.keep <=> keep
      BY <3>1, <3>2, <3>3, <3>4 DEF WireRecord
    <3>6. w \in WireRecord
      <4>1. e.heads + 1 \in Nat
        BY <3>3
      <4>2. b.header \in Nat \union {None}
        BY <3>2 DEF Length
      <4> QED
        BY <3>1, <3>2, <3>3, <3>4, <4>1, <4>2 DEF WireRecord, Length
    <3> QED
      BY <3>4, <3>5, <3>6
  <2>10. app.given = 0 /\ t.content_bytes_written = 0
    BY <2>2 DEF BeforeHead
  <2> HIDE DEF bt, w
  <2>11. AfterHead(bt, w, app)
    <3>1. bt.chunked_response => bt.has_body /\ w.body = app.given
      BY <2>1, <2>7, <2>9, <2>10
    <3>2. ASSUME ~bt.close_on_finish
          PROVE  /\ bt.has_body /\ ~bt.chunked_response
                 /\ ~w.chunked /\ ~w.close /\ w.cl # None
                 /\ w.keep <=> request.version = "1.0"
                 /\ bt.content_length # None
                 /\ bt.content_length = w.cl
      <4>1. ~Closing(t) /\ ~t.close_on_finish
        BY <2>1, <2>7, <3>2
      <4>2. ContentLengthHeader(t) # None
        BY <2>5, <4>1
      <4> QED
        BY <2>1, <2>2, <2>3, <2>7, <2>9, <4>1, <4>2
    <3> QED
      BY <2>1, <2>7, <2>9, <2>10, <3>1, <3>2 DEF AfterHead
  <2>12. Coherent(bt, w, app)
    BY <2>1, <2>2, <2>7, <2>10, <2>11 DEF Coherent
  <2>13. BytesCounted(bt, w)
    BY <2>1, <2>7, <2>9, <2>10 DEF BytesCounted
  <2>14. bt.chunked_response => t.content_length = None
    BY <2>1, <2>4, <2>7
  <2> QED
    BY <2>0, <2>1, <2>7, <2>8, <2>9, <2>12, <2>13, <2>14 DEF EmptyWire
<1> QED
  BY <1>1, <1>2

\* Raise() and nothing else.
Raised ==
    /\ exc' \in {"ClientDisconnected", "RuntimeError"}
    /\ pc' = IF CanClose THEN "close" ELSE "failed"

\* However write() ends, the task is coherent with what was sent.
LEMMA WriteStep ==
    ASSUME Types, NEW t \in TaskRecord, NEW n \in Nat, NEW next,
           Coherent(t, wire, app), BytesCounted(t, wire), ~wire.end, Write(t, n, next)
    PROVE  /\ task' \in TaskRecord /\ wire' \in WireRecord /\ app' \in AppRecord
           /\ connected' \in BOOLEAN
           /\ Coherent(task', wire', app') /\ ~wire'.end
           /\ task'.content_length = t.content_length
           /\ app'.mixed <=> app.mixed
           /\ app'.ended <=> app.ended
           /\ app'.released = app.released
           /\ \/ /\ pc' = next /\ exc' = exc
                 /\ task'.wrote_header /\ BytesCounted(task', wire')
                 /\ n = 0 => wire'.body = wire.body
                 /\ task'.chunked_response => t.chunked_response \/ t.content_length = None
                 /\ t.close_on_finish => task'.close_on_finish
              \/ Raised
<1> DEFINE h == WithHead(t)
           sent == ToWrite(h.t, n)
           counted == Counted(h.t, n)
<1>1. app \in AppRecord /\ wire \in WireRecord /\ connected \in BOOLEAN
  BY DEF Types
<1>2. CASE /\ ~t.complete \/ (~connected /\ (~t.wrote_header \/ sent > 0))
           /\ Raise(IF t.complete THEN "ClientDisconnected" ELSE "RuntimeError")
           /\ task' = t
           /\ UNCHANGED <<wire, connected, app>>
  <2>1. Raised
    BY <1>2 DEF Raise, Raised
  <2> QED
    BY <1>1, <1>2, <2>1
<1>3. CASE t.complete
  <2>1. /\ h.t \in TaskRecord /\ h.w \in WireRecord
        /\ h.t.wrote_header
        /\ h.t.content_length = t.content_length
        /\ h.t.content_bytes_written = t.content_bytes_written
        /\ t.close_on_finish => h.t.close_on_finish
        /\ h.t.chunked_response => t.chunked_response \/ t.content_length = None
        /\ Coherent(h.t, h.w, app)
        /\ h.w.body = wire.body
        /\ ~h.w.end
        /\ BytesCounted(h.t, h.w)
    BY <1>1, <1>3, HeadSent
  <2> HIDE DEF h
  <2>2. sent \in Int /\ counted \in Int /\ (n = 0 => sent = 0)
    BY <2>1 DEF ToWrite, Counted, Limited, Smaller, TaskRecord, Length
  <2>3. h.t.chunked_response /\ h.t.has_body => sent = n
    BY DEF ToWrite, Limited
  <2>4. h.t.has_body /\ ~h.t.chunked_response /\ h.t.content_length # None => counted = sent
    BY DEF Counted, Limited
  <2> HIDE DEF sent, counted
  <2>5. CASE /\ task' = [h.t EXCEPT !.content_bytes_written = @ + counted]
             /\ wire' = [h.w EXCEPT !.body = @ + sent]
             /\ app' = [app EXCEPT !.given = @ + n]
             /\ pc' = next
             /\ UNCHANGED <<exc, connected>>
    <3>1. h.t.content_bytes_written + counted \in Int /\ h.w.body + sent \in Int
          /\ app.given + n \in Int
      BY <1>1, <2>1, <2>2 DEF TaskRecord, WireRecord, AppRecord
    <3>2. /\ task' \in TaskRecord
          /\ task'.content_bytes_written = h.t.content_bytes_written + counted
          /\ task'.content_length = h.t.content_length
          /\ task'.header = h.t.header
          /\ task'.complete <=> h.t.complete
          /\ task'.has_body <=> h.t.has_body
          /\ task'.wrote_header
          /\ task'.close_on_finish <=> h.t.close_on_finish
          /\ task'.says_close <=> h.t.says_close
          /\ task'.chunked_response <=> h.t.chunked_response
      BY <2>1, <2>5, <3>1 DEF TaskRecord
    <3>3. /\ wire' \in WireRecord
          /\ wire'.body = h.w.body + sent
          /\ wire'.heads = h.w.heads /\ wire'.cl = h.w.cl
          /\ wire'.chunked <=> h.w.chunked
          /\ wire'.close <=> h.w.close
          /\ wire'.keep <=> h.w.keep
          /\ ~wire'.end
      BY <2>1, <2>5, <3>1 DEF WireRecord
    <3>4. /\ app' \in AppRecord
          /\ app'.given = app.given + n
          /\ app'.mixed <=> app.mixed
          /\ app'.ended <=> app.ended
          /\ app'.released = app.released
      BY <1>1, <2>5, <3>1 DEF AppRecord
    <3>5. AfterHead(h.t, h.w, app) /\ app.given \in Int /\ app.given >= 0
          /\ (h.t.says_close => h.t.close_on_finish)
      BY <1>1, <2>1 DEF Coherent, AppRecord
    <3>6. app'.given >= 0 /\ (app'.given = 0 => app.given = 0 /\ n = 0)
      BY <3>4, <3>5
    <3>7. task'.chunked_response => task'.has_body /\ wire'.body = app'.given
      BY <2>3, <3>2, <3>3, <3>4, <3>5 DEF AfterHead
    <3>8. h.w.body \in Int
      BY <2>1 DEF WireRecord
    <3>9. app'.given = 0 => wire'.body = 0
      BY <2>2, <3>3, <3>5, <3>6, <3>8 DEF AfterHead
    <3>10. AfterHead(task', wire', app')
      BY <3>2, <3>3, <3>4, <3>5, <3>7, <3>9 DEF AfterHead
    <3>11. Coherent(task', wire', app')
      BY <3>2, <3>5, <3>6, <3>10 DEF Coherent
    <3>12. BytesCounted(task', wire')
      <4> SUFFICES ASSUME ~task'.close_on_finish
                   PROVE  wire'.body = task'.content_bytes_written
        BY DEF BytesCounted
      <4>1. counted = sent
        BY <2>4, <3>2, <3>5 DEF AfterHead
      <4>2. h.w.body = h.t.content_bytes_written
        BY <2>1, <3>2 DEF BytesCounted
      <4> QED
        BY <3>2, <3>3, <4>1, <4>2
    <3>13. n = 0 => wire'.body = wire.body
      BY <2>1, <2>2, <3>3, <3>8
    <3> QED
      BY <1>1, <2>1, <2>5, <3>2, <3>3, <3>4, <3>11, <3>12, <3>13
  <2>6. CASE /\ task' = h.t /\ wire' = h.w /\ connected' = FALSE
             /\ Raise("ClientDisconnected")
             /\ UNCHANGED app
    <3>1. Raised
      BY <2>6 DEF Raise, Raised
    <3> QED
      BY <1>1, <2>1, <2>6, <3>1
  <2> QED
    BY <1>2, <2>5, <2>6 DEF Write, h, sent, counted
<1> QED
  BY <1>2, <1>3 DEF Write

----------------------------------------------------------------------------
(* The steps *)

\* An exception is on its way, whatever was written before it.
LEMMA AfterRaise ==
    ASSUME IInv, pc \notin {"close", "served"},
           task' \in TaskRecord, wire' \in WireRecord, app' \in AppRecord,
           connected' \in BOOLEAN,
           Coherent(task', wire', app'), ~wire'.end, app'.released = app.released,
           UNCHANGED <<request, app_iter>>,
           exc' # "none", pc' = IF CanClose THEN "close" ELSE "failed"
    PROVE  IInv'
<1>1. Types'
  BY DEF IInv, Types
<1>2. Releases'
  BY DEF IInv, Types, Releases, CanClose
<1>3. Progress' /\ Finished' /\ EndIsTrue'
  BY DEF IInv, Types, Progress, Finished, EndIsTrue
<1>4. Coherent(task, wire, app)'
  BY DEF Coherent, BeforeHead, AfterHead
<1> QED
  BY <1>1, <1>2, <1>3, <1>4 DEF IInv

\* A write of task t, which knows as much as the task: it returns to `next`, where
\* only the progress is left to show, or raises.
LEMMA WriteInv ==
    ASSUME IInv, NEW t \in TaskRecord, NEW n \in Nat, NEW next,
           pc \notin {"close", "served"},
           Coherent(t, wire, app), BytesCounted(t, wire), Write(t, n, next),
           UNCHANGED <<request, app_iter>>,
           next \in {"app", "iterate", "send_file", "finish"},
           /\ pc' = next /\ exc' = exc /\ ~wire'.end
           /\ task' \in TaskRecord /\ wire' \in WireRecord /\ app' \in AppRecord
           /\ task'.content_length = t.content_length
           /\ task'.wrote_header /\ BytesCounted(task', wire')
           /\ app'.mixed <=> app.mixed
           /\ app'.ended <=> app.ended
           /\ app'.released = app.released
           /\ Coherent(task', wire', app')
           /\ n = 0 => wire'.body = wire.body
           /\ task'.chunked_response => t.chunked_response \/ t.content_length = None
           /\ t.close_on_finish => task'.close_on_finish
           => Releases' /\ Progress'
    PROVE  IInv'
<1>1. Types /\ ~wire.end
  BY DEF IInv, Progress
<1>2. /\ task' \in TaskRecord /\ wire' \in WireRecord /\ app' \in AppRecord
      /\ connected' \in BOOLEAN
      /\ Coherent(task', wire', app') /\ ~wire'.end
      /\ task'.content_length = t.content_length
      /\ app'.mixed <=> app.mixed
      /\ app'.ended <=> app.ended
      /\ app'.released = app.released
      /\ \/ /\ pc' = next /\ exc' = exc
            /\ task'.wrote_header /\ BytesCounted(task', wire')
            /\ n = 0 => wire'.body = wire.body
            /\ task'.chunked_response => t.chunked_response \/ t.content_length = None
            /\ t.close_on_finish => task'.close_on_finish
         \/ Raised
  BY <1>1, WriteStep
<1>3. CASE Raised
  <2>1. exc' # "none" /\ pc' = IF CanClose THEN "close" ELSE "failed"
    BY <1>3 DEF Raised
  <2> QED
    BY <1>2, <2>1, AfterRaise
<1>4. CASE ~Raised
  <2>1. pc' = next /\ Releases' /\ Progress'
    BY <1>2, <1>4
  <2>2. Types'
    BY <1>1, <1>2, <2>1 DEF Types
  <2>3. Finished' /\ EndIsTrue'
    BY <1>2, <2>1 DEF Finished, EndIsTrue
  <2>4. Coherent(task, wire, app)'
    BY <1>2 DEF Coherent, BeforeHead, AfterHead
  <2> QED
    BY <2>1, <2>2, <2>3, <2>4 DEF IInv
<1> QED
  BY <1>3, <1>4

LEMMA WriteCall ==
    ASSUME IInv, NEW n \in Lengths, write(n)
    PROVE  IInv'
<1>1. /\ pc \in {"app", "iterate"} /\ n \in Nat
      /\ Write(task, n, pc) /\ UNCHANGED <<request, app_iter>>
  BY TaskConstants DEF write, Running
<1>2. task \in TaskRecord /\ Coherent(task, wire, app) /\ BytesCounted(task, wire)
  BY <1>1 DEF IInv, Types, Progress
<1>3. ASSUME pc' = pc, exc' = exc, ~wire'.end, app'.released = app.released,
             BytesCounted(task', wire')
      PROVE  Releases' /\ Progress'
  <2>1. Releases'
    BY <1>1, <1>3 DEF IInv, Releases
  <2>2. BytesCounted(task, wire)'
    BY <1>3 DEF BytesCounted
  <2>3. Progress'
    BY <1>1, <1>3, <2>2 DEF IInv, Progress
  <2> QED
    BY <2>1, <2>3
<1> QED
  BY <1>1, <1>2, <1>3, WriteInv

LEMMA ChunkStep ==
    ASSUME IInv, NEW n \in Lengths, chunk(n)
    PROVE  IInv'
<1> DEFINE t == [task EXCEPT !.content_length = KnownLength(n)]
<1>1. /\ pc = "iterate" /\ n \in Nat /\ UNCHANGED <<request, app_iter>>
      /\ IF n > 0 THEN Write(t, n, pc)
         ELSE task' = t /\ UNCHANGED <<wire, app, pc, exc, connected>>
  BY TaskConstants DEF chunk
<1>2. task \in TaskRecord /\ Coherent(task, wire, app) /\ BytesCounted(task, wire)
  BY <1>1 DEF IInv, Types, Progress
<1>3. /\ t \in TaskRecord
      /\ t.content_length = KnownLength(n)
      /\ t.header = task.header
      /\ t.content_bytes_written = task.content_bytes_written
      /\ t.complete <=> task.complete
      /\ t.has_body <=> task.has_body
      /\ t.wrote_header <=> task.wrote_header
      /\ t.close_on_finish <=> task.close_on_finish
      /\ t.says_close <=> task.says_close
      /\ t.chunked_response <=> task.chunked_response
  <2>1. KnownLength(n) \in Length
    BY <1>1, <1>2 DEF KnownLength, TaskRecord, Length
  <2> QED
    BY <1>2, <2>1 DEF TaskRecord
<1>4. task.content_length # None => t.content_length = task.content_length
  BY <1>3 DEF KnownLength
<1> HIDE DEF t
<1>5. Coherent(t, wire, app)
  <2>1. ~t.wrote_header => BeforeHead(t, wire, app)
    BY <1>2, <1>3, <1>4 DEF Coherent, BeforeHead
  <2>2. t.wrote_header => AfterHead(t, wire, app)
    BY <1>2, <1>3, <1>4 DEF Coherent, AfterHead
  <2> QED
    BY <1>2, <1>3, <2>1, <2>2 DEF Coherent
<1>6. BytesCounted(t, wire)
  BY <1>2, <1>3 DEF BytesCounted
<1>7. CASE n > 0
  <2>1. ASSUME pc' = pc, exc' = exc, ~wire'.end, app'.released = app.released,
               BytesCounted(task', wire')
        PROVE  Releases' /\ Progress'
    <3>1. Releases'
      BY <1>1, <2>1 DEF IInv, Releases
    <3>2. BytesCounted(task, wire)'
      BY <2>1 DEF BytesCounted
    <3>3. Progress'
      BY <1>1, <2>1, <3>2 DEF IInv, Progress
    <3> QED
      BY <3>1, <3>3
  <2> QED
    BY <1>1, <1>3, <1>5, <1>6, <1>7, <2>1, WriteInv
<1>8. CASE ~(n > 0)
  <2>1. task' = t /\ UNCHANGED <<wire, app, pc, exc, connected, request, app_iter>>
    BY <1>1, <1>8
  <2>2. Types' /\ Releases'
    BY <1>3, <2>1 DEF IInv, Types, Releases
  <2>3. Coherent(task, wire, app)'
    BY <1>5, <2>1 DEF Coherent, BeforeHead, AfterHead
  <2>4. BytesCounted(task, wire)'
    BY <1>6, <2>1 DEF BytesCounted
  <2>5. Progress' /\ Finished' /\ EndIsTrue'
    BY <1>1, <2>1, <2>4 DEF IInv, Progress, Finished, EndIsTrue
  <2> QED
    BY <2>2, <2>3, <2>5 DEF IInv
<1> QED
  BY <1>7, <1>8

LEMMA FileHeadStep ==
    ASSUME IInv, write_file_head
    PROVE  IInv'
<1>1. pc = "file" /\ Write(task, 0, "send_file") /\ UNCHANGED <<request, app_iter>>
  BY DEF write_file_head
<1>2. task \in TaskRecord /\ Coherent(task, wire, app) /\ BytesCounted(task, wire)
  BY <1>1 DEF IInv, Types, Progress
<1>3. ASSUME pc' = "send_file", exc' = exc, ~wire'.end, app'.released = app.released,
             app'.mixed <=> app.mixed, task'.wrote_header, wire'.body = wire.body,
             task'.content_length = task.content_length, BytesCounted(task', wire')
      PROVE  Releases' /\ Progress'
  <2>1. Releases'
    BY <1>1, <1>3 DEF IInv, Releases
  <2>2. BytesCounted(task, wire)'
    BY <1>3 DEF BytesCounted
  <2>3. Progress'
    BY <1>1, <1>3, <2>2 DEF IInv, Progress
  <2> QED
    BY <2>1, <2>3
<1> QED
  BY <1>1, <1>2, <1>3, WriteInv

LEMMA FinishHeadStep ==
    ASSUME IInv, finish_head
    PROVE  IInv'
<1>1. /\ pc = "finish" /\ ~task.wrote_header
      /\ Write(task, 0, "finish") /\ UNCHANGED <<request, app_iter>>
  BY DEF finish_head
<1>2. task \in TaskRecord /\ Coherent(task, wire, app) /\ BytesCounted(task, wire)
  BY <1>1 DEF IInv, Types, BytesCounted
<1>3. ASSUME pc' = "finish", exc' = exc, ~wire'.end, app'.released = app.released,
             app'.mixed <=> app.mixed, app'.ended <=> app.ended,
             task'.wrote_header, wire'.body = wire.body,
             task'.content_length = task.content_length,
             task.close_on_finish => task'.close_on_finish
      PROVE  Releases' /\ Progress'
  <2>1. Releases'
    BY <1>1, <1>3 DEF IInv, Releases
  <2>2. Sent(task, wire) => Sent(task, wire)'
    BY <1>1, <1>3 DEF Sent
  <2>3. Progress'
    BY <1>1, <1>3, <2>2 DEF IInv, Progress
  <2> QED
    BY <2>1, <2>3
<1> QED
  BY <1>1, <1>2, <1>3, WriteInv

LEMMA ErrorStep ==
    ASSUME IInv, execute_error
    PROVE  IInv'
<1> DEFINE t == [set_close_on_finish(task) EXCEPT !.content_length = 1]
<1>1. pc = "error" /\ Write(t, 1, "finish") /\ UNCHANGED <<request, app_iter>>
  BY DEF execute_error
<1>2. /\ task \in TaskRecord /\ Coherent(task, wire, app)
      /\ ~task.wrote_header /\ task.complete /\ task.header = None /\ exc = "none"
  BY <1>1 DEF IInv, Types, Progress
<1>3. /\ t \in TaskRecord
      /\ t.content_length = 1 /\ t.header = None
      /\ t.content_bytes_written = task.content_bytes_written
      /\ ~t.wrote_header /\ t.close_on_finish
      /\ t.chunked_response <=> task.chunked_response
  BY <1>2 DEF TaskRecord, Length, set_close_on_finish
<1> HIDE DEF t
<1>4. Coherent(t, wire, app) /\ ~t.chunked_response
  BY <1>2, <1>3 DEF Coherent, BeforeHead
<1>5. BytesCounted(t, wire) /\ 1 # None
  BY <1>3, TaskConstants DEF BytesCounted
<1>6. ASSUME pc' = "finish", exc' = exc, ~wire'.end, app'.released = app.released,
             task'.wrote_header, task'.close_on_finish,
             ~task'.chunked_response
      PROVE  Releases' /\ Progress'
  <2>1. Releases'
    BY <1>1, <1>6 DEF IInv, Releases
  <2>2. Sent(task, wire)'
    BY <1>6 DEF Sent
  <2>3. Progress'
    BY <1>1, <1>2, <1>6, <2>2 DEF Progress
  <2> QED
    BY <2>1, <2>3
<1> QED
  BY <1>1, <1>3, <1>4, <1>5, <1>6, WriteInv

LEMMA FileStep ==
    ASSUME IInv, write_file
    PROVE  IInv'
<1>1. pc = "send_file" /\ UNCHANGED <<request, task, app_iter, connected>>
  BY DEF write_file
<1>2. /\ Types /\ Releases /\ Coherent(task, wire, app)
      /\ task.wrote_header /\ task.content_length # None
      /\ ~app.mixed => wire.body = 0
      /\ exc = "none" /\ ~wire.end
      /\ app.released = 0 /\ app_iter # "none"
  BY <1>1 DEF IInv, Progress, Releases
<1>3. /\ task \in TaskRecord /\ wire \in WireRecord /\ app \in AppRecord
      /\ task.content_length \in Nat /\ wire.body \in Int /\ app.given \in Int
  BY <1>2 DEF Types, TaskRecord, WireRecord, AppRecord, Length
<1>4. CASE /\ wire' = [wire EXCEPT !.body = @ + task.content_length]
           /\ app' = [app EXCEPT !.given = @ + task.content_length,
                                 !.ended = TRUE, !.released = @ + 1]
           /\ pc' = "finish"
           /\ UNCHANGED exc
  <2>1. wire.body + task.content_length \in Int /\ app.given + task.content_length \in Int
        /\ app.released + 1 = 1 /\ app.released + 1 \in Nat
    BY <1>2, <1>3
  <2>2. /\ wire' \in WireRecord
        /\ wire'.body = wire.body + task.content_length
        /\ wire'.heads = wire.heads /\ wire'.cl = wire.cl
        /\ wire'.chunked <=> wire.chunked
        /\ wire'.close <=> wire.close
        /\ wire'.keep <=> wire.keep
        /\ ~wire'.end
    BY <1>2, <1>3, <1>4, <2>1 DEF WireRecord
  <2>3. /\ app' \in AppRecord
        /\ app'.given = app.given + task.content_length
        /\ app'.mixed <=> app.mixed
        /\ app'.ended /\ app'.released = 1
    BY <1>2, <1>3, <1>4, <2>1 DEF AppRecord
  <2>4. /\ AfterHead(task, wire, app) /\ app.given >= 0
        /\ task.says_close => task.close_on_finish
    BY <1>2 DEF Coherent
  <2>5. app'.given >= 0 /\ (app'.given = 0 => app.given = 0 /\ task.content_length = 0)
    BY <1>3, <2>3, <2>4
  <2>6. app'.given = 0 => wire'.body = 0
    BY <1>3, <2>2, <2>4, <2>5 DEF AfterHead
  <2>7. task.chunked_response => task.has_body /\ wire'.body = app'.given
    BY <2>2, <2>3, <2>4 DEF AfterHead
  <2>8. AfterHead(task, wire, app)'
    BY <1>1, <2>2, <2>3, <2>4, <2>6, <2>7 DEF AfterHead
  <2>9. Coherent(task, wire, app)'
    BY <1>1, <1>2, <2>4, <2>5, <2>8 DEF Coherent
  <2>10. Sent(task, wire)' \/ app'.mixed
    BY <1>1, <1>2, <1>3, <2>2, <2>3 DEF Sent
  <2>11. Types'
    BY <1>1, <1>2, <1>4, <2>2, <2>3 DEF Types
  <2>12. Releases'
    BY <1>1, <1>2, <1>4, <2>3 DEF Releases
  <2>13. Progress' /\ Finished' /\ EndIsTrue'
    BY <1>2, <1>4, <2>2, <2>3, <2>10 DEF Progress, Finished, EndIsTrue
  <2> QED
    BY <2>9, <2>11, <2>12, <2>13 DEF IInv
<1>5. CASE Raise("ClientDisconnected") /\ UNCHANGED <<wire, app>>
  BY <1>1, <1>2, <1>3, <1>5, AfterRaise DEF Raise, Types
<1> QED
  BY <1>4, <1>5 DEF write_file

LEMMA StartResponseStep ==
    ASSUME IInv, NEW cl \in Lengths \union {None}, NEW has_body \in BOOLEAN,
           NEW exc_info \in BOOLEAN, NEW ok \in BOOLEAN,
           start_response(cl, has_body, exc_info, ok)
    PROVE  IInv'
<1> DEFINE hd == IF ok /\ cl # None THEN cl ELSE Cleared(exc_info)
           len == IF cl # None THEN cl ELSE task.content_length
<1>1. /\ pc \in {"app", "iterate"} /\ ~Refused(exc_info)
      /\ task' = [task EXCEPT !.complete = TRUE, !.has_body = has_body,
                              !.content_length = len, !.header = hd]
      /\ UNCHANGED <<request, pc, exc, app_iter, connected, wire, app>>
  BY DEF start_response, Running
<1>2. task \in TaskRecord /\ Coherent(task, wire, app)
  BY DEF IInv, Types
<1>3. ~task.wrote_header /\ BeforeHead(task, wire, app)
  BY <1>1, <1>2 DEF Refused, Coherent, AfterHead
<1>4. hd \in Length /\ len \in Length
  BY <1>2, TaskConstants DEF TaskRecord, Cleared, Length
<1>5. hd # None => hd = len
  BY <1>1, <1>3 DEF Cleared, Refused, BeforeHead
<1> HIDE DEF hd, len
<1>6. /\ task' \in TaskRecord
      /\ task'.complete /\ ~task'.wrote_header
      /\ task'.header = hd /\ task'.content_length = len
      /\ task'.content_bytes_written = task.content_bytes_written
      /\ task'.chunked_response <=> task.chunked_response
      /\ task'.says_close <=> task.says_close
      /\ task'.close_on_finish <=> task.close_on_finish
  BY <1>1, <1>2, <1>3, <1>4 DEF TaskRecord
<1>7. BeforeHead(task', wire, app)
  BY <1>3, <1>5, <1>6 DEF BeforeHead
<1>8. Coherent(task', wire, app)
  BY <1>2, <1>6, <1>7 DEF Coherent
<1>9. Coherent(task, wire, app)'
  BY <1>1, <1>8 DEF Coherent, BeforeHead, AfterHead
<1>10. BytesCounted(task, wire)'
  BY <1>6 DEF BytesCounted
<1>11. Types' /\ Releases'
  BY <1>1, <1>6 DEF IInv, Types, Releases
<1>12. Progress' /\ Finished' /\ EndIsTrue'
  BY <1>1, <1>10 DEF IInv, Progress, Finished, EndIsTrue
<1> QED
  BY <1>9, <1>11, <1>12 DEF IInv

LEMMA ReturnFileStep ==
    ASSUME IInv, NEW size \in Lengths, app_returns_file(size)
    PROVE  IInv'
<1> DEFINE hd == HeaderFor(task.content_length, size)
<1>1. /\ pc = "app" /\ pc' = "file" /\ app_iter' = "file"
      /\ size \in Nat /\ size # None
      /\ task' = [task EXCEPT !.header = hd, !.content_length = size]
      /\ app' = [app EXCEPT !.mixed = task.wrote_header]
      /\ UNCHANGED <<request, exc, connected, wire>>
  BY TaskConstants DEF app_returns_file
<1>2. /\ task \in TaskRecord /\ app \in AppRecord /\ Coherent(task, wire, app)
      /\ BytesCounted(task, wire) /\ exc = "none" /\ app.released = 0 /\ ~wire.end
  BY <1>1 DEF IInv, Types, Progress, Releases
<1>3. hd \in Length /\ (hd # None => hd = task.header /\ size = task.content_length)
  BY <1>2 DEF HeaderFor, TaskRecord, Length
<1> HIDE DEF hd
<1>4. /\ task' \in TaskRecord
      /\ task'.header = hd /\ task'.content_length = size
      /\ task'.content_bytes_written = task.content_bytes_written
      /\ task'.complete <=> task.complete
      /\ task'.has_body <=> task.has_body
      /\ task'.wrote_header <=> task.wrote_header
      /\ task'.chunked_response <=> task.chunked_response
      /\ task'.says_close <=> task.says_close
      /\ task'.close_on_finish <=> task.close_on_finish
  BY <1>1, <1>2, <1>3 DEF TaskRecord, Length
<1>5. /\ app' \in AppRecord
      /\ app'.given = app.given /\ app'.released = app.released
      /\ app'.ended <=> app.ended
      /\ app'.mixed <=> task.wrote_header
  <2>1. task.wrote_header \in BOOLEAN
    BY <1>2 DEF TaskRecord
  <2> QED
    BY <1>1, <1>2, <2>1 DEF AppRecord
<1>6. ~task'.wrote_header => BeforeHead(task', wire, app')
  BY <1>2, <1>3, <1>4, <1>5 DEF Coherent, BeforeHead
<1>7. task'.wrote_header => AfterHead(task', wire, app')
  BY <1>1, <1>2, <1>4, <1>5 DEF Coherent, AfterHead
<1>8. Coherent(task, wire, app)'
  BY <1>1, <1>2, <1>4, <1>5, <1>6, <1>7 DEF Coherent, BeforeHead, AfterHead
<1>9. BytesCounted(task, wire)'
  BY <1>1, <1>2, <1>4 DEF BytesCounted
<1>10. ~app'.mixed => wire'.body = 0
  BY <1>1, <1>2, <1>4, <1>5 DEF Coherent, BeforeHead, EmptyWire
<1>11. Types'
  BY <1>1, <1>4, <1>5 DEF IInv, Types
<1>12. Releases'
  BY <1>1, <1>2, <1>5 DEF Releases
<1>13. Progress' /\ Finished' /\ EndIsTrue'
  BY <1>1, <1>2, <1>4, <1>9, <1>10 DEF Progress, Finished, EndIsTrue
<1> QED
  BY <1>8, <1>11, <1>12, <1>13 DEF IInv

LEMMA ExhaustedStep ==
    ASSUME IInv, exhausted
    PROVE  IInv'
<1>1. /\ pc = "iterate" /\ pc' = "close"
      /\ task' = IF TooFew THEN set_close_on_finish(task) ELSE task
      /\ app' = [app EXCEPT !.ended = TRUE]
      /\ UNCHANGED <<request, exc, app_iter, connected, wire>>
  BY DEF exhausted
<1>2. /\ task \in TaskRecord /\ app \in AppRecord /\ Coherent(task, wire, app)
      /\ BytesCounted(task, wire) /\ exc = "none" /\ ~wire.end
      /\ app.released = 0 /\ app_iter # "none"
  BY <1>1 DEF IInv, Types, Progress, Releases
<1>3. /\ app' \in AppRecord
      /\ app'.given = app.given /\ app'.released = 0
      /\ app'.mixed <=> app.mixed
      /\ app'.ended
  BY <1>1, <1>2 DEF AppRecord
<1>4. /\ task' \in TaskRecord
      /\ task'.header = task.header /\ task'.content_length = task.content_length
      /\ task'.content_bytes_written = task.content_bytes_written
      /\ task'.complete <=> task.complete
      /\ task'.has_body <=> task.has_body
      /\ task'.wrote_header <=> task.wrote_header
      /\ task'.chunked_response <=> task.chunked_response
      /\ task.close_on_finish => task'.close_on_finish
      /\ task'.says_close => task'.close_on_finish
      /\ TooFew => task'.close_on_finish
  <2>1. CASE TooFew
    <3>1. set_close_on_finish(task) = [task EXCEPT !.says_close = task.says_close \/ ~task.wrote_header,
                                                   !.close_on_finish = TRUE]
      BY DEF set_close_on_finish
    <3> QED
      BY <1>1, <1>2, <2>1, <3>1 DEF TaskRecord
  <2>2. CASE ~TooFew
    BY <1>1, <1>2, <2>2 DEF Coherent
  <2> QED
    BY <2>1, <2>2
<1>5. ~task'.wrote_header => BeforeHead(task', wire, app')
  BY <1>2, <1>3, <1>4 DEF Coherent, BeforeHead
<1>6. task'.wrote_header => AfterHead(task', wire, app')
  BY <1>2, <1>3, <1>4 DEF Coherent, AfterHead
<1>7. Coherent(task, wire, app)'
  BY <1>1, <1>2, <1>3, <1>4, <1>5, <1>6 DEF Coherent, BeforeHead, AfterHead
<1>8. Sent(task, wire)'
  <2>1. CASE TooFew
    BY <1>4, <2>1 DEF Sent
  <2>2. CASE ~TooFew /\ task.content_bytes_written = task.content_length
    <3>1. ~task.wrote_header => wire.body = task.content_bytes_written
      BY <1>2 DEF Coherent, BeforeHead, EmptyWire
    <3> QED
      BY <1>1, <1>2, <1>4, <2>2, <3>1 DEF Sent, BytesCounted
  <2>3. CASE ~TooFew /\ task.content_bytes_written # task.content_length
    BY <1>1, <1>4, <2>3 DEF Sent, TooFew
  <2> QED
    BY <2>1, <2>2, <2>3
<1>9. Types' /\ Releases'
  BY <1>1, <1>2, <1>3, <1>4 DEF IInv, Types, Releases
<1>10. Progress' /\ Finished' /\ EndIsTrue'
  BY <1>1, <1>2, <1>3, <1>8 DEF Progress, Finished, EndIsTrue
<1> QED
  BY <1>7, <1>9, <1>10 DEF IInv

LEMMA CloseStep ==
    ASSUME IInv, NEW e, close_app_iter(e)
    PROVE  IInv'
<1>1. /\ pc = "close" /\ app' = [app EXCEPT !.released = @ + 1]
      /\ exc' = IF e = "none" THEN exc ELSE e
      /\ pc' = IF exc' = "none" THEN "finish" ELSE "failed"
      /\ UNCHANGED <<request, task, app_iter, connected, wire>>
  BY DEF close_app_iter
<1>2. app \in AppRecord /\ app.released = 0 /\ app_iter # "none" /\ ~wire.end
  BY <1>1 DEF IInv, Types, Progress, Releases
<1>3. /\ app' \in AppRecord
      /\ app'.given = app.given /\ app'.released = 1
      /\ app'.mixed <=> app.mixed
      /\ app'.ended <=> app.ended
  <2>1. app.released + 1 = 1 /\ app.released + 1 \in Nat
    BY <1>2
  <2> QED
    BY <1>1, <1>2, <2>1 DEF AppRecord
<1>4. Coherent(task, wire, app)'
  BY <1>1, <1>3 DEF IInv, Coherent, BeforeHead, AfterHead
<1>5. exc' = "none" => exc = "none"
  BY <1>1
<1>6. Sent(task, wire) => Sent(task, wire)'
  BY <1>1 DEF Sent
<1>7. Types' /\ Releases'
  BY <1>1, <1>2, <1>3 DEF IInv, Types, Releases
<1>8. Progress' /\ Finished' /\ EndIsTrue'
  BY <1>1, <1>2, <1>3, <1>5, <1>6 DEF IInv, Progress, Finished, EndIsTrue
<1> QED
  BY <1>4, <1>7, <1>8 DEF IInv

LEMMA FinishStep ==
    ASSUME IInv, finish
    PROVE  IInv'
<1>1. /\ pc = "finish" /\ task.wrote_header
      /\ UNCHANGED <<request, task, app_iter, connected, app>>
  BY DEF finish
<1>2. /\ task \in TaskRecord /\ wire \in WireRecord /\ app \in AppRecord
      /\ connected \in BOOLEAN
      /\ Coherent(task, wire, app) /\ AfterHead(task, wire, app)
      /\ exc = "none" /\ ~wire.end
      /\ Sent(task, wire) \/ app.mixed
      /\ task.chunked_response => app.ended
  BY <1>1 DEF IInv, Types, Progress, Coherent
<1>3. CASE Raise("ClientDisconnected") /\ UNCHANGED wire
  BY <1>1, <1>2, <1>3, AfterRaise DEF Raise
<1>4. CASE /\ wire' = [wire EXCEPT !.end = task.chunked_response]
           /\ pc' = "served"
           /\ UNCHANGED exc
  <2>1. /\ wire' \in WireRecord
        /\ wire'.heads = wire.heads /\ wire'.cl = wire.cl /\ wire'.body = wire.body
        /\ wire'.chunked <=> wire.chunked
        /\ wire'.close <=> wire.close
        /\ wire'.keep <=> wire.keep
        /\ wire'.end <=> task.chunked_response
    <3>1. task.chunked_response \in BOOLEAN
      BY <1>2 DEF TaskRecord
    <3> QED
      BY <1>2, <1>4, <3>1 DEF WireRecord
  <2>2. AfterHead(task, wire, app)'
    BY <1>1, <1>2, <2>1 DEF AfterHead
  <2>3. Coherent(task, wire, app)'
    BY <1>1, <1>2, <2>2 DEF Coherent
  <2>4. Finished'
    BY <1>1, <1>2, <2>1 DEF Finished, AfterHead, Sent
  <2>5. EndIsTrue'
    BY <1>1, <1>2, <2>1 DEF EndIsTrue, AfterHead
  <2>6. Types' /\ Releases' /\ Progress'
    BY <1>1, <1>2, <1>4, <2>1 DEF IInv, Types, Releases, Progress
  <2> QED
    BY <2>3, <2>4, <2>5, <2>6 DEF IInv
<1> QED
  BY <1>3, <1>4 DEF finish

\* A new task, before anything was written.
LEMMA NewTaskFacts ==
    ASSUME NEW complete \in BOOLEAN
    PROVE  LET t == NewTask(complete)
           IN  /\ t \in TaskRecord
               /\ t.complete <=> complete
               /\ t.has_body /\ ~t.wrote_header /\ ~t.chunked_response
               /\ ~t.says_close /\ ~t.close_on_finish
               /\ t.header = None /\ t.content_bytes_written = 0
BY DEF NewTask, TaskRecord, Length

LEMMA HandleStep ==
    ASSUME IInv, handle_exception
    PROVE  IInv'
<1>1. /\ pc = "failed" /\ exc' = "none"
      /\ UNCHANGED <<request, app_iter, connected, wire, app>>
  BY DEF handle_exception
<1>2. /\ task \in TaskRecord /\ Coherent(task, wire, app) /\ ~wire.end
  BY <1>1 DEF IInv, Types, Progress
<1>3. CASE NeedsErrorTask /\ task' = NewTask(TRUE) /\ pc' = "error"
  <2>1. BeforeHead(task, wire, app) /\ app.given >= 0
    BY <1>2, <1>3 DEF NeedsErrorTask, Coherent
  <2>2. /\ task' \in TaskRecord
        /\ task'.complete /\ task'.has_body /\ ~task'.wrote_header /\ ~task'.chunked_response
        /\ ~task'.says_close
        /\ task'.header = None /\ task'.content_bytes_written = 0
    BY <1>3, NewTaskFacts
  <2>3. BeforeHead(task, wire, app)'
    BY <1>1, <2>1, <2>2 DEF BeforeHead
  <2>4. Coherent(task, wire, app)'
    BY <1>1, <2>1, <2>2, <2>3 DEF Coherent
  <2>5. Types' /\ Releases'
    BY <1>1, <1>3, <2>2 DEF IInv, Types, Releases
  <2>6. Progress' /\ Finished' /\ EndIsTrue'
    BY <1>1, <1>2, <1>3, <2>2 DEF Progress, Finished, EndIsTrue
  <2> QED
    BY <2>4, <2>5, <2>6 DEF IInv
<1>4. CASE task' = [task EXCEPT !.close_on_finish = TRUE] /\ pc' = "served"
  <2>1. /\ task' \in TaskRecord /\ task'.close_on_finish
        /\ task'.header = task.header /\ task'.content_length = task.content_length
        /\ task'.content_bytes_written = task.content_bytes_written
        /\ task'.complete <=> task.complete
        /\ task'.has_body <=> task.has_body
        /\ task'.wrote_header <=> task.wrote_header
        /\ task'.chunked_response <=> task.chunked_response
    BY <1>2, <1>4 DEF TaskRecord
  <2>2. Coherent(task, wire, app)'
    BY <1>1, <1>2, <2>1 DEF Coherent, BeforeHead, AfterHead
  <2>3. Types' /\ Releases'
    BY <1>1, <1>4, <2>1 DEF IInv, Types, Releases
  <2>4. Progress' /\ Finished' /\ EndIsTrue'
    BY <1>1, <1>2, <1>4, <2>1 DEF Progress, Finished, EndIsTrue
  <2> QED
    BY <2>2, <2>3, <2>4 DEF IInv
<1> QED
  BY <1>3, <1>4 DEF handle_exception

\* The state in which a task starts, or in which nothing was served.
Starting ==
    /\ request \in Requests /\ connected \in BOOLEAN /\ wire = EmptyWire
    /\ app = [given |-> 0, mixed |-> FALSE, ended |-> FALSE, released |-> 0]
    /\ exc = "none" /\ app_iter = "none"
    /\ task \in TaskRecord /\ ~task.wrote_header /\ ~task.chunked_response
    /\ task.says_close => task.close_on_finish
    /\ task.header = None /\ task.content_bytes_written = 0 /\ task.has_body
    /\ \/ pc = "app"
       \/ pc = "error" /\ task.complete
       \/ pc = "served" /\ task.close_on_finish

LEMMA Fresh == Starting => IInv
<1> SUFFICES ASSUME Starting PROVE IInv
  OBVIOUS
<1> USE DEF Starting
<1>1. /\ app \in AppRecord /\ app.given = 0 /\ app.released = 0
  BY DEF AppRecord
<1>2. wire \in WireRecord /\ ~wire.end
  BY DEF EmptyWire, WireRecord, Length
<1>3. Types /\ Releases
  BY <1>1, <1>2 DEF Types, Releases
<1>4. Coherent(task, wire, app)
  BY <1>1 DEF Coherent, BeforeHead
<1>5. Progress /\ Finished /\ EndIsTrue
  BY <1>2 DEF Progress, Finished, EndIsTrue, BytesCounted
<1> QED
  BY <1>3, <1>4, <1>5 DEF IInv

LEMMA ServiceStep ==
    ASSUME NEW req \in Requests, NEW still_connected \in BOOLEAN,
           service(req, still_connected)
    PROVE  Starting'
<1> DEFINE t == NewTask(req.error)
<1>1. /\ t \in TaskRecord
      /\ t.complete <=> req.error
      /\ t.has_body /\ ~t.wrote_header /\ ~t.chunked_response
      /\ ~t.says_close /\ ~t.close_on_finish
      /\ t.header = None /\ t.content_bytes_written = 0
  <2>1. req.error \in BOOLEAN
    BY DEF Requests
  <2> QED
    BY <2>1, NewTaskFacts
<1>2. /\ request' = req /\ connected' = still_connected /\ wire' = EmptyWire
      /\ app' = [given |-> 0, mixed |-> FALSE, ended |-> FALSE, released |-> 0]
      /\ exc' = "none" /\ app_iter' = "none"
      /\ IF still_connected THEN task' = t /\ pc' = IF req.error THEN "error" ELSE "app"
         ELSE task' = [t EXCEPT !.close_on_finish = TRUE] /\ pc' = "served"
  BY DEF service
<1> HIDE DEF t
<1>3. CASE still_connected
  BY <1>1, <1>2, <1>3 DEF Starting
<1>4. CASE ~still_connected
  <2>1. task' = [t EXCEPT !.close_on_finish = TRUE] /\ pc' = "served"
    BY <1>2, <1>4
  <2>2. /\ task' \in TaskRecord /\ task'.close_on_finish
        /\ task'.has_body /\ ~task'.wrote_header /\ ~task'.chunked_response
        /\ task'.header = None /\ task'.content_bytes_written = 0
    BY <1>1, <2>1 DEF TaskRecord
  <2> QED
    BY <1>2, <2>1, <2>2 DEF Starting
<1> QED
  BY <1>3, <1>4

\* What does not touch the task, the wire and the history.
LEMMA QuietStep ==
    ASSUME IInv, UNCHANGED <<request, task, wire, app>>, connected' \in BOOLEAN,
           \/ UNCHANGED <<pc, exc, app_iter>>
           \/ pc = "app" /\ pc' = "iterate" /\ app_iter' # "none" /\ UNCHANGED exc
    PROVE  IInv'
<1>1. Types' /\ Releases'
  BY DEF IInv, Types, Releases
<1>2. Coherent(task, wire, app)'
  BY DEF IInv, Coherent, BeforeHead, AfterHead
<1>3. (BytesCounted(task, wire) => BytesCounted(task, wire)')
      /\ (Sent(task, wire) => Sent(task, wire)')
  BY DEF BytesCounted, Sent
<1>4. Progress' /\ Finished' /\ EndIsTrue'
  BY <1>3 DEF IInv, Progress, Finished, EndIsTrue
<1> QED
  BY <1>1, <1>2, <1>4 DEF IInv

LEMMA InvInit == Init => IInv
<1> SUFFICES ASSUME Init PROVE IInv
  OBVIOUS
<1> DEFINE t == NewTask(FALSE)
<1>1. /\ t \in TaskRecord
      /\ t.has_body /\ ~t.wrote_header /\ ~t.chunked_response
      /\ t.header = None /\ t.content_bytes_written = 0
  BY NewTaskFacts
<1>2. task = [t EXCEPT !.says_close = t.says_close \/ ~t.wrote_header, !.close_on_finish = TRUE]
  BY DEF Init, set_close_on_finish
<1> HIDE DEF t
<1>3. /\ task \in TaskRecord /\ task.close_on_finish
      /\ task.has_body /\ ~task.wrote_header /\ ~task.chunked_response
      /\ task.header = None /\ task.content_bytes_written = 0
  BY <1>1, <1>2 DEF TaskRecord
<1>4. Starting
  BY <1>3 DEF Init, Starting
<1> QED
  BY <1>4, Fresh

LEMMA InvNext == IInv /\ [Next]_vars => IInv'
<1> SUFFICES ASSUME IInv, [Next]_vars PROVE IInv'
  OBVIOUS
<1>0. connected \in BOOLEAN /\ Types
  BY DEF IInv, Types
<1>1. CASE UNCHANGED vars
  BY <1>0, <1>1, QuietStep DEF vars
<1>2. CASE client_leaves
  BY <1>2, QuietStep DEF client_leaves
<1>3. ASSUME NEW req \in Requests, NEW still_connected \in BOOLEAN,
             service(req, still_connected)
      PROVE  IInv'
  <2>1. Starting'
    BY <1>3, ServiceStep
  <2> QED
    BY <2>1, Fresh, PTL
<1>4. CASE Application
  <2>1. ASSUME NEW e \in {"OSError", "Exception"}, app_raises(e) PROVE IInv'
    <3>1. /\ pc \in {"app", "iterate"}
          /\ UNCHANGED <<request, task, app_iter, connected, wire, app>>
          /\ exc' # "none" /\ pc' = IF CanClose THEN "close" ELSE "failed"
      BY <2>1 DEF app_raises, Running, Raise
    <3>2. Coherent(task', wire', app') /\ ~wire'.end /\ app'.released = app.released
      BY <3>1 DEF IInv, Progress, Coherent, BeforeHead, AfterHead
    <3> QED
      BY <1>0, <3>1, <3>2, AfterRaise DEF Types
  <2>2. ASSUME NEW kind \in {"one", "many"}, app_returns(kind) PROVE IInv'
    BY <1>0, <2>2, QuietStep DEF app_returns
  <2>3. CASE exhausted
    BY <2>3, ExhaustedStep
  <2> QED
    BY <1>4, <2>1, <2>2, <2>3, StartResponseStep, WriteCall, ReturnFileStep, ChunkStep,
       CloseStep DEF Application
<1> QED
  BY <1>1, <1>2, <1>3, <1>4, FileHeadStep, FileStep, FinishHeadStep, FinishStep, ErrorStep,
     HandleStep DEF Next

LEMMA InvAlways == Spec => []IInv
BY InvInit, InvNext, PTL DEF Spec

----------------------------------------------------------------------------
(* The theorems *)

\* A connection stays open only after a response whose end the client can find
\* (task.py:224-254, 308-346, 442-490).
THEOREM OpenConnectionsInStep == Spec => []KeptOpenInStep
<1>1. IInv => KeptOpenInStep
  <2> SUFFICES ASSUME IInv, pc = "served", ~task.close_on_finish, ~app.mixed,
                      request.head => app.given = 0
               PROVE  /\ wire.heads = 1 /\ wire.cl # None
                      /\ ~wire.chunked /\ ~wire.close
                      /\ wire.keep <=> request.version = "1.0"
                      /\ wire.body = IF request.head THEN 0 ELSE wire.cl
    BY DEF KeptOpenInStep
  <2> QED
    BY DEF IInv, Finished, Coherent, AfterHead
<1> QED
  BY <1>1, InvAlways, PTL

\* One head, and no end that is not one (task.py:301-306; channel.py:430-463).
THEOREM ResponsesAreWhole == Spec => []OneWholeResponse
<1>1. IInv => OneWholeResponse
  <2> SUFFICES ASSUME IInv PROVE OneWholeResponse
    OBVIOUS
  <2>1. CASE task.wrote_header
    BY <2>1 DEF IInv, Coherent, AfterHead, EndIsTrue, OneWholeResponse
  <2>2. CASE ~task.wrote_header
    BY <2>2 DEF IInv, Coherent, BeforeHead, EmptyWire, OneWholeResponse
  <2> QED
    BY <2>1, <2>2
<1> QED
  BY <1>1, InvAlways, PTL

\* Each iterable is closed or handed over, once (task.py:440-457, 492-494).
THEOREM IterablesReleasedOnce == Spec => []ReleasedOnce
<1>1. IInv => ReleasedOnce
  BY DEF IInv, Types, Releases, ReleasedOnce
<1> QED
  BY <1>1, InvAlways, PTL

=============================================================================
