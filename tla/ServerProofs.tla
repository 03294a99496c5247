------------------------------ MODULE ServerProofs ------------------------------
(****************************************************************************)
(* Proofs about Server, for every set of clients, finite sets of servers    *)
(* and descriptors, and every limit and timeout.                            *)
(****************************************************************************)
EXTENDS Server, FiniteSetTheorems, TLAPS

Types ==
    /\ map \in [Fds -> Clients \union {Free}]
    /\ active \in [Servers -> [Fds -> Clients \union {Free}]]
    /\ fileno \in [Clients -> Fds \union {Free}]
    /\ listening \in SUBSET Servers
    /\ limit \in Nat /\ fds \in SUBSET Fds
    /\ rs \in SUBSET listening /\ r \in SUBSET Fds /\ w \in SUBSET Fds
    /\ backlog \in [Servers -> Seq(Clients)]
    /\ conn \in [Clients -> {"new", "backlog", "open", "closed", "refused"}]
    /\ pc \in {"poll", "select", "dispatch", "down"}

\* While main runs, a client waits in one place, and nobody else does.
Waiting ==
    pc # "down" =>
        /\ \A s \in Servers : \A i \in 1 .. Len(backlog[s]) :
              conn[backlog[s][i]] = "backlog"
        /\ \A s, t \in Servers :
              \A i \in 1 .. Len(backlog[s]), j \in 1 .. Len(backlog[t]) :
                  backlog[s][i] = backlog[t][j] => s = t /\ i = j

\* Each listener that select() may still return has a place reserved.
Reserved ==
    \/ LenMap + Cardinality(rs) <= 2 * Cardinality(listening)
    \/ LenMap + Cardinality(rs) < limit + Cardinality(listening)

\* select() returned only listeners with a client to accept.
Accepting == pc = "dispatch" => \A s \in rs : backlog[s] # <<>>

IInv == Types /\ MapsAgree /\ Waiting /\ Accepting /\ Reserved

----------------------------------------------------------------------------
LEMMA Finite ==
    /\ \A S \in SUBSET Fds : IsFiniteSet(S) /\ Cardinality(S) \in Nat
    /\ \A S \in SUBSET Servers : IsFiniteSet(S) /\ Cardinality(S) \in Nat
<1>1. \A S \in SUBSET Fds : IsFiniteSet(S)
  BY ServerConstants, FS_Subset
<1>2. \A S \in SUBSET Servers : IsFiniteSet(S)
  BY ServerConstants, FS_Subset
<1> QED
  BY <1>1, <1>2, FS_CardinalityType

LEMMA Smaller ==
    ASSUME NEW S \in SUBSET Servers, NEW T \in SUBSET S
    PROVE  Cardinality(T) <= Cardinality(S)
<1>1. IsFiniteSet(S)
  BY Finite
<1> QED
  BY <1>1, FS_Subset

\* One channel more, and one less.
LEMMA UsedOneMore ==
    ASSUME Types, NEW f \in Fds \ Used, NEW c \in Clients,
           map' = [map EXCEPT ![f] = c], listening' = listening
    PROVE  LenMap' = LenMap + 1
<1>1. Used' = Used \union {f} /\ f \notin Used /\ Used \in SUBSET Fds
  BY ServerConstants DEF Types, Used
<1>2. Cardinality(Used') = Cardinality(Used) + 1
  BY <1>1, Finite, FS_AddElement
<1>3. Cardinality(Used) \in Nat /\ Cardinality(listening) \in Nat
  BY <1>1, Finite DEF Types
<1> QED
  BY <1>2, <1>3 DEF LenMap

LEMMA UsedOneLess ==
    ASSUME Types, NEW f \in Used, map' = [map EXCEPT ![f] = Free], listening' = listening
    PROVE  LenMap' = LenMap - 1
<1>1. Used' = Used \ {f} /\ Used \in SUBSET Fds
  BY DEF Types, Used
<1>2. Cardinality(Used') = Cardinality(Used) - 1
  BY <1>1, Finite, FS_RemoveElement
<1>3. Cardinality(Used) \in Nat /\ Cardinality(listening) \in Nat
  BY <1>1, Finite DEF Types
<1> QED
  BY <1>2, <1>3 DEF LenMap

LEMMA Counts ==
    ASSUME Types
    PROVE  LenMap \in Nat /\ Cardinality(rs) \in Nat /\ Cardinality(listening) \in Nat
<1>1. Used \in SUBSET Fds /\ rs \in SUBSET Servers /\ listening \in SUBSET Servers
  BY DEF Types, Used
<1> QED
  BY <1>1, Finite DEF LenMap

----------------------------------------------------------------------------
(* Steps that do not touch the maps *)

LEMMA FrameStep ==
    ASSUME IInv, UNCHANGED <<mapVars, backlog, conn>>,
           rs' \in SUBSET rs, r' \in SUBSET Fds, w' \in SUBSET Fds,
           pc' \in {"poll", "select", "dispatch", "down"}, pc = "down" => pc' = "down",
           pc' = "dispatch" => pc = "dispatch" \/ rs' = ReadyServers
    PROVE  IInv'
<1> USE DEF IInv, mapVars
<1>1. Types'
  BY DEF Types
<1>2. MapsAgree'
  BY DEF MapsAgree, Used
<1>3. Waiting'
  BY DEF Waiting
<1>4. LenMap' = LenMap /\ Cardinality(rs') <= Cardinality(rs)
  <2>1. rs \in SUBSET Servers
    BY DEF Types
  <2> QED
    BY <2>1, Smaller DEF LenMap, Used
<1>5. Cardinality(rs') \in Nat
  <2>1. rs' \in SUBSET Servers
    BY DEF Types
  <2> QED
    BY <2>1, Finite
<1>6. Reserved'
  BY <1>4, <1>5, Counts DEF Reserved, Types
<1>7. Accepting'
  BY DEF Accepting, ReadyServers
<1> QED
  BY <1>1, <1>2, <1>3, <1>6, <1>7

\* Listeners take part in a round only while there is room for one more.
LEMMA PollStep ==
    ASSUME IInv, poll_lists
    PROVE  IInv'
<1> USE DEF IInv, mapVars, clientVars, poll_lists
<1>1. Types'
  BY DEF Types, Used
<1>2. MapsAgree'
  BY DEF MapsAgree, Used
<1>3. Waiting'
  BY DEF Waiting
<1>4. LenMap' = LenMap
  BY DEF LenMap, Used
<1>0. Accepting'
  BY DEF Accepting
<1>5. CASE LenMap >= limit
  <2>1. rs' = {} /\ Cardinality(rs') = 0
    BY <1>5, FS_EmptySet DEF InOverflow
  <2> QED
    BY <1>0, <1>1, <1>2, <1>3, <1>4, <2>1, Counts DEF Reserved, Types
<1>6. CASE ~(LenMap >= limit)
  <2>1. Cardinality(rs') <= Cardinality(listening) /\ Cardinality(rs') \in Nat
    <3>1. rs' \in SUBSET listening /\ listening \in SUBSET Servers /\ rs' \in SUBSET Servers
      BY DEF Types
    <3> QED
      BY <3>1, Smaller, Finite
  <2> QED
    BY <1>0, <1>1, <1>2, <1>3, <1>4, <1>6, <2>1, Counts DEF Reserved, Types
<1> QED
  BY <1>5, <1>6

\* Whoever connects was nowhere yet.
LEMMA ConnectStep ==
    ASSUME IInv, NEW c \in Clients, NEW s \in Servers, connect(c, s)
    PROVE  IInv'
<1> USE DEF IInv, connect, mapVars, mainVars
<1>1. backlog[s] \in Seq(Clients) /\ backlog' = [backlog EXCEPT ![s] = Append(backlog[s], c)]
  BY DEF Types
<1>2. /\ Append(backlog[s], c) \in Seq(Clients)
      /\ Len(Append(backlog[s], c)) = Len(backlog[s]) + 1
      /\ \A i \in 1 .. Len(backlog[s]) : Append(backlog[s], c)[i] = backlog[s][i]
      /\ Append(backlog[s], c)[Len(backlog[s]) + 1] = c
      /\ Len(backlog[s]) \in Nat
  BY <1>1
<1>3. conn' = [conn EXCEPT ![c] = "backlog"] /\ conn[c] = "new"
  OBVIOUS
<1>4. Types'
  BY <1>1, <1>2, <1>3 DEF Types
<1>5. MapsAgree'
  BY <1>3 DEF MapsAgree, Used, Types
<1>6. Waiting'
  <2> SUFFICES ASSUME pc # "down" PROVE Waiting'
    BY DEF Waiting
  <2>1. /\ backlog'[s] = Append(backlog[s], c)
        /\ \A t \in Servers : t # s => backlog'[t] = backlog[t]
    BY <1>1 DEF Types
  <2>2. /\ conn'[c] = "backlog"
        /\ \A d \in Clients : d # c => conn'[d] = conn[d]
    BY <1>3 DEF Types
  <2>3. \A t \in Servers : \A i \in 1 .. Len(backlog[t]) :
            backlog[t][i] \in Clients /\ backlog[t][i] # c
    <3> TAKE t \in Servers
    <3> TAKE i \in 1 .. Len(backlog[t])
    <3>1. backlog[t] \in Seq(Clients)
      BY DEF Types
    <3> QED
      BY <1>3, <3>1 DEF Waiting
  <2>4. \A t \in Servers : \A i \in 1 .. Len(backlog'[t]) :
            \/ i \in 1 .. Len(backlog[t]) /\ backlog'[t][i] = backlog[t][i]
            \/ t = s /\ i = Len(backlog[s]) + 1 /\ backlog'[t][i] = c
    BY <1>2, <2>1
  <2>5. \A t \in Servers : \A i \in 1 .. Len(backlog'[t]) : conn'[backlog'[t][i]] = "backlog"
    BY <2>2, <2>3, <2>4 DEF Waiting
  <2>6. \A t, u \in Servers : \A i \in 1 .. Len(backlog'[t]), j \in 1 .. Len(backlog'[u]) :
            backlog'[t][i] = backlog'[u][j] => t = u /\ i = j
    BY <2>3, <2>4 DEF Waiting
  <2> QED
    BY <2>5, <2>6 DEF Waiting
<1>7. Reserved'
  BY DEF Reserved, LenMap, Used
<1>8. Accepting'
  <2>1. backlog'[s] = Append(backlog[s], c) /\ \A t \in Servers : t # s => backlog'[t] = backlog[t]
    BY <1>1 DEF Types
  <2>2. Append(backlog[s], c) # <<>>
    BY <1>2
  <2>3. rs' = rs /\ pc' = pc /\ rs \in SUBSET Servers
    BY DEF Types
  <2> QED
    BY <2>1, <2>2, <2>3 DEF Accepting
<1> QED
  BY <1>4, <1>5, <1>6, <1>7, <1>8

\* The client at the head of a backlog leaves it.
LEMMA HeadOfBacklog ==
    ASSUME IInv, NEW s \in Servers, handle_accept(s), LeavesBacklog(s)
    PROVE  /\ Head(backlog[s]) \in Clients
           /\ conn[Head(backlog[s])] = "backlog"
           /\ backlog' \in [Servers -> Seq(Clients)]
           /\ \A t \in Servers : \A i \in 1 .. Len(backlog'[t]) :
                 \E j \in 1 .. Len(backlog[t]) :
                    /\ backlog'[t][i] = backlog[t][j]
                    /\ j = IF t = s THEN i + 1 ELSE i
                    /\ backlog'[t][i] # Head(backlog[s])
<1> USE DEF IInv
<1>1. /\ pc = "dispatch" /\ backlog' = [backlog EXCEPT ![s] = Tail(backlog[s])]
      /\ s \in rs /\ backlog[s] # <<>> /\ backlog[s] \in Seq(Clients)
  BY DEF handle_accept, LeavesBacklog, Accepting, Types
<1>2. /\ Tail(backlog[s]) \in Seq(Clients)
      /\ Len(Tail(backlog[s])) = Len(backlog[s]) - 1
      /\ \A i \in 1 .. Len(backlog[s]) - 1 : Tail(backlog[s])[i] = backlog[s][i + 1]
      /\ Head(backlog[s]) = backlog[s][1]
      /\ Len(backlog[s]) \in Nat /\ Len(backlog[s]) >= 1
  BY <1>1
<1>3. Head(backlog[s]) \in Clients /\ conn[Head(backlog[s])] = "backlog"
  BY <1>1, <1>2 DEF Waiting
<1>4. backlog' \in [Servers -> Seq(Clients)]
  BY <1>1, <1>2 DEF Types
<1>5. /\ backlog'[s] = Tail(backlog[s])
      /\ \A t \in Servers : t # s => backlog'[t] = backlog[t]
  BY <1>1 DEF Types
<1>6. ASSUME NEW t \in Servers, NEW i \in 1 .. Len(backlog'[t])
      PROVE  \E j \in 1 .. Len(backlog[t]) :
                 /\ backlog'[t][i] = backlog[t][j]
                 /\ j = IF t = s THEN i + 1 ELSE i
                 /\ backlog'[t][i] # Head(backlog[s])
  <2>1. CASE t = s
    <3>0. Len(backlog'[t]) = Len(backlog[s]) - 1 /\ backlog'[t] = Tail(backlog[s])
      BY <1>2, <1>5, <2>1
    <3>a. i \in 1 .. Len(backlog[s]) - 1
      BY <3>0
    <3>b. backlog'[t][i] = backlog[s][i + 1]
      BY <1>2, <3>0, <3>a
    <3>1. i + 1 \in 1 .. Len(backlog[s]) /\ backlog'[t][i] = backlog[s][i + 1]
      BY <1>2, <3>a, <3>b
    <3>2. backlog[s][i + 1] # backlog[s][1]
      BY <1>1, <1>2, <3>1 DEF Waiting
    <3> QED
      BY <1>2, <2>1, <3>1, <3>2
  <2>2. CASE t # s
    <3>1. backlog'[t] = backlog[t]
      BY <1>5, <2>2
    <3>2. backlog[t][i] # backlog[s][1]
      BY <1>1, <1>2, <2>2, <3>1 DEF Waiting
    <3> QED
      BY <1>2, <2>2, <3>1, <3>2
  <2> QED
    BY <2>1, <2>2
<1> QED
  BY <1>3, <1>4, <1>6

\* Whether it is accepted or refused, the others go on waiting.
LEMMA AcceptKeepsWaiting ==
    ASSUME IInv, NEW s \in Servers, handle_accept(s), LeavesBacklog(s),
           conn' \in [Clients -> {"new", "backlog", "open", "closed", "refused"}],
           \A c \in Clients : c # Head(backlog[s]) => conn'[c] = conn[c]
    PROVE  Waiting' /\ Accepting'
<1> USE DEF IInv
<1>1. /\ \A t \in Servers : \A i \in 1 .. Len(backlog'[t]) :
            \E j \in 1 .. Len(backlog[t]) :
               /\ backlog'[t][i] = backlog[t][j]
               /\ j = IF t = s THEN i + 1 ELSE i
               /\ backlog'[t][i] # Head(backlog[s])
      /\ pc = "dispatch" /\ pc' = "dispatch" /\ s \in rs /\ rs' = rs \ {s}
      /\ backlog' = [backlog EXCEPT ![s] = Tail(backlog[s])]
  BY HeadOfBacklog DEF handle_accept, LeavesBacklog
<1>2. \A t \in Servers : \A i \in 1 .. Len(backlog[t]) : backlog[t][i] \in Clients
  BY DEF Types
<1>3. \A t \in Servers : \A i \in 1 .. Len(backlog'[t]) : conn'[backlog'[t][i]] = "backlog"
  <2> TAKE t \in Servers
  <2> TAKE i \in 1 .. Len(backlog'[t])
  <2>1. PICK j \in 1 .. Len(backlog[t]) :
            backlog'[t][i] = backlog[t][j] /\ backlog'[t][i] # Head(backlog[s])
    BY <1>1
  <2>2. backlog[t][j] \in Clients /\ conn[backlog[t][j]] = "backlog"
    BY <1>1, <1>2 DEF Waiting
  <2> QED
    BY <2>1, <2>2
<1>4. \A t \in Servers : Len(backlog'[t]) \in Nat
  BY HeadOfBacklog
<1>5. \A t, u \in Servers : \A i \in 1 .. Len(backlog'[t]), j \in 1 .. Len(backlog'[u]) :
          backlog'[t][i] = backlog'[u][j] => t = u /\ i = j
  <2> TAKE t, u \in Servers
  <2> TAKE i \in 1 .. Len(backlog'[t]), j \in 1 .. Len(backlog'[u])
  <2> HAVE backlog'[t][i] = backlog'[u][j]
  <2>1. PICK k \in 1 .. Len(backlog[t]) :
            backlog'[t][i] = backlog[t][k] /\ k = IF t = s THEN i + 1 ELSE i
    BY <1>1
  <2>2. PICK l \in 1 .. Len(backlog[u]) :
            backlog'[u][j] = backlog[u][l] /\ l = IF u = s THEN j + 1 ELSE j
    BY <1>1
  <2>3. t = u /\ k = l
    BY <1>1, <2>1, <2>2 DEF Waiting
  <2> QED
    BY <1>4, <2>1, <2>2, <2>3
<1>6. Waiting'
  BY <1>3, <1>5 DEF Waiting
<1>7. Accepting'
  BY <1>1 DEF Accepting, Types
<1> QED
  BY <1>6, <1>7

\* An accepted connection takes the place that was reserved for its listener.
LEMMA AcceptStep ==
    ASSUME IInv, NEW s \in Servers, handle_accept(s)
    PROVE  IInv'
<1> DEFINE h == Head(backlog[s])
<1>2. /\ pc = "dispatch" /\ pc' = "dispatch" /\ s \in rs /\ rs' = rs \ {s}
      /\ r' = r /\ w' = w
      /\ accept_fails \/ accept_refuses(s) \/ accept_channel(s)
  BY DEF handle_accept
<1>3. Cardinality(rs') = Cardinality(rs) - 1
  <2>1. rs \in SUBSET Servers
    BY DEF IInv, Types
  <2> QED
    BY <1>2, <2>1, Finite, FS_RemoveElement
<1>4. LenMap \in Nat /\ Cardinality(rs) \in Nat /\ Cardinality(listening) \in Nat /\ limit \in Nat
  BY Counts DEF IInv, Types
<1>5. CASE accept_fails
  <2>1. rs' \in SUBSET rs /\ r \in SUBSET Fds /\ w \in SUBSET Fds
    BY <1>2 DEF IInv, Types
  <2> QED
    BY <1>2, <1>5, <2>1, FrameStep DEF accept_fails
<1>1. ASSUME LeavesBacklog(s)
      PROVE  /\ h \in Clients /\ conn[h] = "backlog" /\ backlog' \in [Servers -> Seq(Clients)]
             /\ fileno[h] = Free
  <2>1. h \in Clients /\ conn[h] = "backlog" /\ backlog' \in [Servers -> Seq(Clients)]
    BY <1>1, HeadOfBacklog
  <2>2. fileno[h] = Free
    BY <2>1, ServerConstants DEF IInv, MapsAgree
  <2> QED
    BY <2>1, <2>2
<1>6. CASE accept_refuses(s)
  <2>0. LeavesBacklog(s) /\ conn' = [conn EXCEPT ![h] = "refused"] /\ UNCHANGED mapVars
    BY <1>6 DEF accept_refuses
  <2>1. /\ h \in Clients /\ conn[h] = "backlog" /\ backlog' \in [Servers -> Seq(Clients)]
        /\ conn' = [conn EXCEPT ![h] = "refused"] /\ UNCHANGED mapVars
    BY <1>1, <2>0
  <2>2. Types'
    BY <1>2, <2>1 DEF IInv, Types, mapVars
  <2>3. MapsAgree'
    BY <2>1 DEF IInv, MapsAgree, Types, Used, mapVars
  <2>4. Waiting' /\ Accepting'
    BY <2>0, <2>1, <2>2, AcceptKeepsWaiting DEF Types, IInv
  <2>5. LenMap' = LenMap /\ UNCHANGED <<listening, limit>>
    BY <2>1 DEF LenMap, Used, mapVars
  <2>6. Reserved'
    BY <1>3, <1>4, <2>5 DEF Reserved, IInv
  <2> QED
    BY <2>2, <2>3, <2>4, <2>6 DEF IInv
<1>7. CASE accept_channel(s)
  <2>0. LeavesBacklog(s)
    BY <1>7 DEF accept_channel
  <2>9. h \in Clients /\ conn[h] = "backlog" /\ backlog' \in [Servers -> Seq(Clients)] /\ fileno[h] = Free
    BY <1>1, <2>0
  <2>1. PICK f \in Fds \ Used : AddChannel(s, h, f)
    BY <1>7 DEF accept_channel, Descriptors, IInv, Types
  <2>2. /\ conn' = [conn EXCEPT ![h] = "open"]
        /\ map' = [map EXCEPT ![f] = h]
        /\ active' = [active EXCEPT ![s][f] = h]
        /\ fileno' = [fileno EXCEPT ![h] = f]
        /\ UNCHANGED <<listening, limit, fds>>
    BY <1>7, <2>1 DEF accept_channel, AddChannel
  <2>3. Types'
    BY <1>2, <2>2, <2>9 DEF IInv, Types
  <2>4. map[f] = Free /\ f # Free /\ h # Free
    BY <2>1, <2>9, ServerConstants DEF Used
  <2>5. MapsAgree'
    <3>1. /\ fileno'[h] = f /\ conn'[h] = "open"
          /\ \A d \in Clients : d # h => fileno'[d] = fileno[d] /\ conn'[d] = conn[d]
      BY <2>2, <2>9 DEF IInv, Types
    <3>2. map'[f] = h /\ \A g \in Fds : g # f => map'[g] = map[g]
      BY <2>2 DEF IInv, Types
    <3>3. active'[s][f] = h /\ \A t \in Servers, g \in Fds :
              t # s \/ g # f => active'[t][g] = active[t][g]
      BY <2>2 DEF IInv, Types
    <3>4. MapsAgree
      BY DEF IInv
    <3>5. \A t \in Servers : active[t][f] = Free
      BY <2>4, <3>4 DEF MapsAgree
    <3>6. \A d \in Clients : conn'[d] = "open" <=> fileno'[d] # Free
      BY <2>4, <3>1, <3>4 DEF MapsAgree
    <3>7. \A d \in Clients, g \in Fds : fileno'[d] = g <=> map'[g] = d
      <4> TAKE d \in Clients, g \in Fds
      <4>1. fileno[d] = g <=> map[g] = d
        BY <3>4 DEF MapsAgree
      <4>2. d # Free /\ fileno[h] # g
        BY <2>9, ServerConstants
      <4>3. map[g] # h
        BY <2>9, <3>4, <4>2 DEF MapsAgree
      <4> QED
        BY <2>4, <3>1, <3>2, <4>1, <4>2, <4>3
    <3>8. \A t \in Servers, g \in Fds : active'[t][g] # Free => active'[t][g] = map'[g]
      BY <3>2, <3>3, <3>4, <3>5 DEF MapsAgree
    <3>9. \A g \in Fds : map'[g] # Free => \E t \in Servers : active'[t][g] = map'[g]
      BY <3>2, <3>3, <3>4 DEF MapsAgree, Used
    <3>10. \A t, u \in Servers, g \in Fds : active'[t][g] # Free /\ active'[u][g] # Free => t = u
      BY <3>3, <3>4, <3>5 DEF MapsAgree
    <3> QED
      BY <3>6, <3>7, <3>8, <3>9, <3>10 DEF MapsAgree, Used
  <2>6. Waiting' /\ Accepting'
    BY <2>0, <2>2, <2>3, <2>9, AcceptKeepsWaiting DEF Types, IInv
  <2>7. LenMap' = LenMap + 1
    BY <2>2, <2>9, UsedOneMore DEF IInv
  <2>8. Reserved'
    BY <1>3, <1>4, <2>2, <2>7 DEF Reserved, IInv
  <2> QED
    BY <2>3, <2>5, <2>6, <2>8 DEF IInv
<1> QED
  BY <1>2, <1>5, <1>6, <1>7

\* A closed channel leaves both tables, and its place to someone else.
LEMMA CloseStep ==
    ASSUME IInv, NEW c \in Clients, fileno[c] \in Fds, handle_close(c),
           UNCHANGED <<pc, rs, backlog>>, r' \in SUBSET Fds, w' \in SUBSET Fds
    PROVE  IInv'
<1> DEFINE f == fileno[c]
<1>1. /\ conn' = [conn EXCEPT ![c] = "closed"]
      /\ map' = [map EXCEPT ![f] = Free]
      /\ active' = [s \in Servers |->
            IF active[s][f] = c THEN [active[s] EXCEPT ![f] = Free] ELSE active[s]]
      /\ fileno' = [fileno EXCEPT ![c] = Free]
      /\ UNCHANGED <<listening, limit, fds>>
  BY DEF handle_close, DelChannel
<1>2. f \in Fds /\ map[f] = c /\ conn[c] = "open" /\ f # Free /\ c # Free /\ f \in Used
  BY ServerConstants DEF IInv, MapsAgree, Used
<1>3. Types'
  BY <1>1 DEF IInv, Types
<1>4. MapsAgree'
  <2>1. /\ fileno'[c] = Free /\ conn'[c] = "closed"
        /\ \A d \in Clients : d # c => fileno'[d] = fileno[d] /\ conn'[d] = conn[d]
    BY <1>1 DEF IInv, Types
  <2>2. map'[f] = Free /\ \A g \in Fds : g # f => map'[g] = map[g]
    BY <1>1, <1>2 DEF IInv, Types
  <2>3. \A s \in Servers : active[s][f] # Free => active[s][f] = c
    BY <1>2 DEF IInv, MapsAgree
  <2>4. \A s \in Servers : active'[s][f] = Free
    BY <1>1, <1>2, <2>3 DEF IInv, Types
  <2>5. \A s \in Servers, g \in Fds : g # f => active'[s][g] = active[s][g]
    BY <1>1, <1>2 DEF IInv, Types
  <2>6. MapsAgree
    BY DEF IInv
  <2>7. \A d \in Clients : conn'[d] = "open" <=> fileno'[d] # Free
    BY <2>1, <2>6 DEF MapsAgree
  <2>8. \A d \in Clients, g \in Fds : fileno'[d] = g <=> map'[g] = d
    BY <1>2, <2>1, <2>2, <2>6, ServerConstants DEF MapsAgree
  <2>9. \A s \in Servers, g \in Fds : active'[s][g] # Free => active'[s][g] = map'[g]
    BY <2>2, <2>4, <2>5, <2>6 DEF MapsAgree
  <2>10. \A g \in Fds : map'[g] # Free => \E s \in Servers : active'[s][g] = map'[g]
    BY <2>2, <2>5, <2>6 DEF MapsAgree, Used
  <2>11. \A s, t \in Servers, g \in Fds : active'[s][g] # Free /\ active'[t][g] # Free => s = t
    BY <2>4, <2>5, <2>6 DEF MapsAgree
  <2> QED
    BY <2>7, <2>8, <2>9, <2>10, <2>11 DEF MapsAgree, Used
<1>5. \A d \in Clients : conn[d] = "backlog" => conn'[d] = "backlog"
  BY <1>1, <1>2 DEF IInv, Types
<1>6. Waiting' /\ Accepting'
  <2>1. \A s \in Servers : \A i \in 1 .. Len(backlog[s]) : backlog[s][i] \in Clients
    BY DEF IInv, Types
  <2> QED
    BY <1>5, <2>1 DEF IInv, Waiting, Accepting
<1>7. LenMap' = LenMap - 1
  BY <1>1, <1>2, UsedOneLess DEF IInv
<1>8. Reserved'
  BY <1>1, <1>7, Counts DEF IInv, Reserved, Types
<1> QED
  BY <1>3, <1>4, <1>6, <1>8 DEF IInv

\* close_all() leaves nothing.
LEMMA InterruptAllStep ==
    ASSUME IInv, interrupt_all
    PROVE  IInv'
<1> USE DEF IInv, interrupt_all
<1>1. Types'
  BY DEF Types
<1>2. MapsAgree'
  BY ServerConstants DEF MapsAgree, Types, Used
<1>3. Waiting' /\ Accepting'
  BY DEF Waiting, Accepting
<1>4. Reserved'
  <2>1. Used' = {} /\ rs' = {} /\ listening' = {}
    BY DEF Used
  <2> QED
    BY <2>1, FS_EmptySet DEF Reserved, LenMap
<1> QED
  BY <1>1, <1>2, <1>3, <1>4

----------------------------------------------------------------------------
(* The theorems *)

LEMMA InvInit == Init => IInv
<1> SUFFICES ASSUME Init PROVE IInv
  OBVIOUS
<1> USE DEF Init
<1>1. Types
  BY ServerConstants DEF Types
<1>2. MapsAgree
  BY ServerConstants DEF MapsAgree, Used
<1>3. Waiting /\ Accepting
  BY DEF Waiting, Accepting
<1>4. Reserved
  <2>1. Used = {} /\ rs = {}
    BY DEF Used
  <2> QED
    BY <1>1, <2>1, FS_EmptySet, Counts DEF Reserved, LenMap
<1> QED
  BY <1>1, <1>2, <1>3, <1>4 DEF IInv

LEMMA InvNext == IInv /\ [Next]_vars => IInv'
<1> SUFFICES ASSUME IInv, [Next]_vars PROVE IInv'
  OBVIOUS
<1>0. /\ rs \in SUBSET rs /\ {} \in SUBSET rs /\ {} \in SUBSET Fds
      /\ r \in SUBSET Fds /\ w \in SUBSET Fds
      /\ pc \in {"poll", "select", "dispatch", "down"}
  BY DEF IInv, Types
<1>1. CASE UNCHANGED vars
  BY <1>0, <1>1, FrameStep DEF vars, mapVars, mainVars, clientVars
<1>2. ASSUME NEW c \in Clients, ClientStep(c) PROVE IInv'
  <2>1. CASE \E s \in Servers : connect(c, s)
    BY <2>1, ConnectStep
  <2>2. CASE client_sends(c) \/ client_reads(c) \/ client_leaves(c)
    BY <1>0, <2>2, FrameStep DEF client_sends, client_reads, client_leaves, mainVars
  <2> QED
    BY <1>2, <2>1, <2>2 DEF ClientStep
<1>3. ASSUME NEW c \in Clients, WorkerStep(c) PROVE IInv'
  BY <1>0, <1>3, FrameStep DEF WorkerStep, service_pops, service_ends, mainVars
<1>4. CASE Round
  <2>1. CASE poll_lists
    BY <2>1, PollStep
  <2>2. CASE select_returns
    <3>1. rs' \in SUBSET rs /\ r' \in SUBSET Fds /\ w' \in SUBSET Fds
      BY <1>0, <2>2 DEF select_returns, ReadyServers, ReadyToRead, ReadyToWrite
    <3> QED
      BY <2>2, <3>1, FrameStep DEF select_returns, clientVars
  <2>3. CASE round_ends
    BY <1>0, <2>3, FrameStep DEF round_ends, clientVars
  <2> QED
    BY <1>4, <2>1, <2>2, <2>3 DEF Round
<1>5. ASSUME NEW s \in Servers, handle_accept(s) PROVE IInv'
  BY <1>5, AcceptStep
<1>6. ASSUME NEW c \in Clients, handle_read(c) PROVE IInv'
  <2>1. /\ fileno[c] \in Fds /\ UNCHANGED <<pc, rs, w, backlog>>
        /\ r' \in SUBSET Fds
        /\ data_received(c) \/ connection_lost(c)
    BY <1>0, <1>6 DEF handle_read
  <2>2. CASE data_received(c)
    BY <1>0, <2>1, <2>2, FrameStep DEF data_received
  <2>3. CASE connection_lost(c)
    BY <1>0, <2>1, <2>3, CloseStep DEF connection_lost
  <2> QED
    BY <2>1, <2>2, <2>3
<1>7. ASSUME NEW c \in Clients, handle_write(c) PROVE IInv'
  <2>1. /\ fileno[c] \in Fds /\ UNCHANGED <<pc, rs, r, backlog>>
        /\ w' \in SUBSET Fds
        /\ connection_lost(c) \/ \E n : flush(c, n)
    BY <1>0, <1>7 DEF handle_write
  <2>2. CASE connection_lost(c)
    BY <1>0, <2>1, <2>2, CloseStep DEF connection_lost
  <2>3. CASE \E n : flush(c, n)
    <3>1. CASE will_close[c]
      BY <1>0, <2>1, <2>3, <3>1, CloseStep DEF flush
    <3>2. CASE ~will_close[c]
      BY <1>0, <2>1, <2>3, <3>2, FrameStep DEF flush
    <3> QED
      BY <3>1, <3>2
  <2> QED
    BY <2>1, <2>2, <2>3
<1>8. CASE tick
  BY <1>0, <1>8, FrameStep DEF tick, clientVars
<1>9. CASE interrupt
  BY <1>0, <1>9, FrameStep DEF interrupt, clientVars
<1>10. CASE interrupt_all
  BY <1>10, InterruptAllStep
<1> QED
  BY <1>1, <1>2, <1>3, <1>4, <1>5, <1>6, <1>7, <1>8, <1>9, <1>10 DEF Next, Dispatch

LEMMA InvAlways == Spec => []IInv
BY InvInit, InvNext, PTL DEF Spec

\* However many listeners share the map, together they overshoot the limit by
\* less than their number (server.py:270-289).
THEOREM ConnectionsStayBounded == Spec => []ConnectionsBounded
<1>1. IInv => ConnectionsBounded
  BY Counts DEF IInv, Reserved, ConnectionsBounded, Types
<1> QED
  BY <1>1, InvAlways, PTL

\* The map and the servers' tables hold exactly the open channels, also when
\* descriptors are used again (wasyncore.py:310-326, channel.py:325-345).
THEOREM MapsStayInAgreement == Spec => []MapsAgree
<1>1. IInv => MapsAgree
  BY DEF IInv
<1> QED
  BY <1>1, InvAlways, PTL

----------------------------------------------------------------------------
(* Maintenance *)

\* last_activity is updated wherever data is received or sent, and once more.
Ages ==
    /\ age \in [Clients -> Nat] /\ quiet \in [Clients -> Nat]
    /\ \A c \in Clients : age[c] <= quiet[c]
    /\ will_close \in [Clients -> BOOLEAN]

LEMMA AgesInit == Init => Ages
BY DEF Init, Ages

LEMMA AgesNext ==
    ASSUME Ages, IInv, [Next]_vars
    PROVE  /\ Ages'
           /\ \A c \in Clients : ~will_close[c] /\ will_close'[c] => quiet[c] > Timeout
<1> DEFINE Goal == /\ Ages'
                   /\ \A c \in Clients : ~will_close[c] /\ will_close'[c] => quiet[c] > Timeout
<1> SUFFICES Goal
  OBVIOUS
<1>1. CASE UNCHANGED timeVars
  BY <1>1 DEF Ages, timeVars
<1>2. ASSUME NEW c \in Clients, Active(c), UNCHANGED will_close PROVE Goal
  BY <1>2 DEF Ages, Active
<1>3. ASSUME NEW c \in Clients, handle_close(c) PROVE Goal
  BY <1>3 DEF Ages, Active, handle_close
<1>4. CASE poll_lists
  <2>1. \A c \in Clients : ~will_close[c] /\ will_close'[c] => age[c] > Timeout
    BY <1>4 DEF poll_lists, IdleOf
  <2>2. UNCHANGED <<age, quiet>> /\ will_close' \in [Clients -> BOOLEAN]
    BY <1>4 DEF poll_lists, Ages
  <2> QED
    BY <2>1, <2>2, ServerConstants DEF Ages
<1>5. CASE tick
  <2>1. \A m, n \in Nat : Later(m) \in Nat /\ (m <= n => Later(m) <= Later(n))
    BY ServerConstants DEF Later, Old
  <2>2. UNCHANGED will_close
    BY <1>5 DEF tick
  <2>3. \A c \in Clients :
          \/ age'[c] = age[c] /\ quiet'[c] = quiet[c]
          \/ age'[c] = Later(age[c]) /\ quiet'[c] = Later(quiet[c])
    BY <1>5 DEF tick
  <2>4. age' \in [Clients -> Nat] /\ quiet' \in [Clients -> Nat]
    BY <1>5, <2>1 DEF tick, Ages
  <2> QED
    BY <2>1, <2>2, <2>3, <2>4 DEF Ages
<1>6. ASSUME NEW c \in Clients, service_ends(c) PROVE Goal
  <2>1. age' = [age EXCEPT ![c] = 0] /\ UNCHANGED <<will_close, quiet>>
    BY <1>6 DEF service_ends
  <2> QED
    BY <2>1 DEF Ages
<1>7. ASSUME NEW s \in Servers, handle_accept(s) PROVE Goal
  <2>1. CASE accept_fails \/ accept_refuses(s)
    BY <1>1, <2>1 DEF accept_fails, accept_refuses
  <2>2. CASE accept_channel(s)
    <3> DEFINE h == Head(backlog[s])
    <3>1. /\ age' = [age EXCEPT ![h] = 0]
          /\ quiet' = [quiet EXCEPT ![h] = 0]
          /\ UNCHANGED will_close
      BY <2>2 DEF accept_channel
    <3>2. h \in Clients
      BY <1>7, <2>2, HeadOfBacklog DEF accept_channel
    <3> HIDE DEF h
    <3>3. \A c \in Clients : c # h => age'[c] = age[c] /\ quiet'[c] = quiet[c]
      BY <3>1 DEF Ages
    <3>4. age'[h] = 0 /\ quiet'[h] = 0
      BY <3>1, <3>2 DEF Ages
    <3>5. Ages'
      <4>1. \A c \in Clients : age'[c] <= quiet'[c]
        BY <3>3, <3>4 DEF Ages
      <4>2. age' \in [Clients -> Nat] /\ quiet' \in [Clients -> Nat]
        BY <3>1 DEF Ages
      <4>3. will_close' \in [Clients -> BOOLEAN]
        BY <3>1 DEF Ages
      <4> QED
        BY <4>1, <4>2, <4>3 DEF Ages
    <3> QED
      BY <3>1, <3>5
  <2> QED
    BY <1>7, <2>1, <2>2 DEF handle_accept
<1>8. ASSUME NEW c \in Clients, handle_read(c) PROVE Goal
  BY <1>2, <1>3, <1>8 DEF handle_read, data_received, connection_lost
<1>9. ASSUME NEW c \in Clients, NEW n, flush(c, n) PROVE Goal
  BY <1>1, <1>2, <1>3, <1>9 DEF flush, timeVars
<1>10. ASSUME NEW c \in Clients, handle_write(c) PROVE Goal
  BY <1>3, <1>9, <1>10 DEF handle_write, connection_lost
<1> HIDE DEF Goal
<1>11. ASSUME NEW c \in Clients, ClientStep(c) PROVE Goal
  BY <1>1, <1>11 DEF ClientStep, connect, client_sends, client_reads, client_leaves
<1>12. ASSUME NEW c \in Clients, service_pops(c) PROVE Goal
  BY <1>1, <1>12 DEF service_pops
<1>13. CASE select_returns \/ round_ends \/ interrupt \/ interrupt_all
  BY <1>1, <1>13 DEF select_returns, round_ends, interrupt, interrupt_all
<1>14. CASE UNCHANGED vars
  BY <1>1, <1>14 DEF vars
<1> QED
  BY <1>4, <1>5, <1>6, <1>7, <1>8, <1>10, <1>11, <1>12, <1>13, <1>14
  DEF Next, WorkerStep, Round, Dispatch

\* Maintenance closes only what was quiet for longer than channel_timeout
\* (server.py:342-351; channel.py:167, 303, 516).
THEOREM OnlyTheQuietAreReaped == Spec => QuietIsReaped
<1>1. Ages /\ IInv /\ [Next]_vars => Ages'
  BY AgesNext
<1>2. Spec => []Ages
  BY <1>1, AgesInit, InvAlways, PTL DEF Spec
<1>3. Ages /\ IInv /\ [Next]_vars
      => [\A c \in Clients : ~will_close[c] /\ will_close'[c] => quiet[c] > Timeout]_vars
  BY AgesNext
<1> QED
  BY <1>2, <1>3, InvAlways, PTL DEF Spec, QuietIsReaped

=============================================================================
