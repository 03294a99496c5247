--------------------------------- MODULE Server ---------------------------------
(****************************************************************************)
(* The listening servers of waitress/server.py and the socket map they      *)
(* share: accepting, the connection limit, maintenance of idle channels,    *)
(* interrupt and close_all(), driven by the rounds of wasyncore.poll().     *)
(*                                                                          *)
(* A channel is what the map and maintenance see of it (module Channel has  *)
(* the rest): a client sends one request, a worker answers it, main sends   *)
(* the answer in pieces.  Here only main changes the maps, and one action   *)
(* of main is one callback: the close by a worker that sends a continue     *)
(* (channel.py:189; Channel has it) is left out.  Triggers are in the map   *)
(* and otherwise left out: select() may time out, which wakes main as well. *)
(* Time is relative: `age` and `quiet` are how long ago something was,      *)
(* `cleanup` how far off something is.                                      *)
(****************************************************************************)
EXTENDS Integers, Sequences, FiniteSets

CONSTANTS
    Servers,          \* the listening sockets
    Clients,          \* each connects once
    Fds,              \* file descriptors
    Free,             \* no object, no descriptor
    Setups,           \* the servers that are configured, connection_limit, and
                      \* the descriptors that are left for accept() to return
    Timeout,          \* channel_timeout
    Interval,         \* cleanup_interval
    Pieces            \* bound: the answer is sent in at most so many pieces

ASSUME ServerConstants ==
    /\ IsFiniteSet(Servers)
    /\ IsFiniteSet(Fds)
    /\ Free \notin Clients /\ Free \notin Fds
    /\ Setups \subseteq [servers : SUBSET Servers \ {{}}, limit : Nat, fds : SUBSET Fds]
    /\ Timeout \in Nat /\ Interval \in Nat
    /\ Pieces \in Nat \ {0}

VARIABLES
    map,          \* socket_map: the channel under each descriptor
    active,       \* active[s]: the active_channels of s, likewise
    limit,        \* connection_limit
    fds,          \* the descriptors that the process may use for channels
    listening,    \* the servers that are, with their triggers, in the map
    overflow,     \* in_connection_overflow
    cleanup,      \* next_channel_cleanup
    pc,           \* main: "poll", "select", "dispatch" or, after run(), "down"
    rs, r, w,     \* the lists of select(): servers and channels to read, to write
    backlog,      \* backlog[s]: the clients that s has not accepted
    conn,         \* "new", "backlog", "open", "closed", or "refused" by accept()
    fileno,       \* the descriptor of the client's channel
    work,         \* "none", "sent", "queued", "popped" or "done": its request
    out,          \* the pieces in the channel's output buffers
    blocked,      \* its send buffer is full
    gone,         \* it has closed or reset the connection
    will_close,
    age,          \* of last_activity
    quiet         \* history: of the last data received, sent, or of accept()

mapVars == <<map, active, fileno, listening, limit, fds>>
mainVars == <<pc, rs, r, w, overflow, cleanup>>
clientVars == <<backlog, conn, work, out, blocked, gone>>
timeVars == <<will_close, age, quiet>>
vars == <<mapVars, mainVars, clientVars, timeVars>>

Old == Timeout + 1        \* bound: older is not told apart

Used == {f \in Fds : map[f] # Free}

\* len(self._map): a listener and a trigger for each server, and the channels.
LenMap == 2 * Cardinality(listening) + Cardinality(Used)

Init ==
    /\ map = [f \in Fds |-> Free]
    /\ active = [s \in Servers |-> [f \in Fds |-> Free]]
    /\ \E setup \in Setups :
          listening = setup.servers /\ limit = setup.limit /\ fds = setup.fds
    /\ overflow = [s \in Servers |-> FALSE]
    /\ cleanup = [s \in Servers |-> 0]
    /\ pc = "poll"
    /\ rs = {} /\ r = {} /\ w = {}
    /\ backlog = [s \in Servers |-> <<>>]
    /\ conn = [c \in Clients |-> "new"]
    /\ fileno = [c \in Clients |-> Free]
    /\ work = [c \in Clients |-> "none"]
    /\ out = [c \in Clients |-> 0]
    /\ blocked = [c \in Clients |-> FALSE]
    /\ gone = [c \in Clients |-> FALSE]
    /\ will_close = [c \in Clients |-> FALSE]
    /\ age = [c \in Clients |-> 0]
    /\ quiet = [c \in Clients |-> 0]

----------------------------------------------------------------------------
(* Clients, their network, and the clock *)

connect(c, s) ==
    /\ conn[c] = "new"
    /\ s \in listening
    /\ conn' = [conn EXCEPT ![c] = "backlog"]
    /\ backlog' = [backlog EXCEPT ![s] = Append(@, c)]
    /\ UNCHANGED <<mapVars, mainVars, timeVars, work, out, blocked, gone>>

Reachable(c) == conn[c] \in {"backlog", "open"} /\ ~gone[c]

client_sends(c) ==
    /\ Reachable(c)
    /\ work[c] = "none"
    /\ work' = [work EXCEPT ![c] = "sent"]
    /\ UNCHANGED <<mapVars, mainVars, timeVars, backlog, conn, out, blocked, gone>>

client_reads(c) ==
    /\ Reachable(c)
    /\ blocked[c]
    /\ blocked' = [blocked EXCEPT ![c] = FALSE]
    /\ UNCHANGED <<mapVars, mainVars, timeVars, backlog, conn, work, out, gone>>

client_leaves(c) ==
    /\ Reachable(c)
    /\ gone' = [gone EXCEPT ![c] = TRUE]
    /\ UNCHANGED <<mapVars, mainVars, timeVars, backlog, conn, work, out, blocked>>

Later(n) == IF n < Old THEN n + 1 ELSE n

tick ==
    /\ age' = [c \in Clients |-> IF conn[c] = "open" THEN Later(age[c]) ELSE age[c]]
    /\ quiet' = [c \in Clients |-> IF conn[c] = "open" THEN Later(quiet[c]) ELSE quiet[c]]
    /\ cleanup' = [s \in Servers |-> IF cleanup[s] > 0 THEN cleanup[s] - 1 ELSE 0]
    /\ UNCHANGED <<mapVars, clientVars, pc, rs, r, w, overflow, will_close>>

----------------------------------------------------------------------------
(* Workers *)

\* service() up to requests.pop(): the answer is in the output buffers.
service_pops(c) ==
    /\ work[c] = "queued"
    /\ work' = [work EXCEPT ![c] = "popped"]
    /\ \E n \in 1 .. Pieces :
          out' = [out EXCEPT ![c] = IF conn[c] = "open" THEN n ELSE 0]
    /\ UNCHANGED <<mapVars, mainVars, timeVars, backlog, conn, blocked, gone>>

\* The last line of service().
service_ends(c) ==
    /\ work[c] = "popped"
    /\ work' = [work EXCEPT ![c] = "done"]
    /\ age' = [age EXCEPT ![c] = 0]
    /\ UNCHANGED <<mapVars, mainVars, will_close, quiet, backlog, conn, out, blocked, gone>>

----------------------------------------------------------------------------
(* Main: one round of poll() *)

\* The channels that maintenance() finds idle.
IdleOf(s) ==
    {c \in Clients : /\ \E f \in Fds : active[s][f] = c
                     /\ work[c] # "queued"
                     /\ age[c] > Timeout}

CleanupDue(s) == s \in listening /\ cleanup[s] = 0

\* Mutant: a server resumes only when there is room for all of its peers.
OverflowStays(s) ==
    IF overflow[s] THEN LenMap + Cardinality(listening) >= limit ELSE LenMap >= limit

\* Mutant: the limit is a number of channels.
OverflowByChannels(s) == Cardinality(Used) >= limit

\* in_connection_overflow after readable(): it follows the map both ways.
InOverflow(s) == LenMap >= limit

ChannelReadable(c) == ~will_close'[c] /\ work[c] # "queued" /\ out[c] = 0
ChannelWritable(c) == out[c] > 0 \/ will_close'[c]

\* readable() and writable() of every object in the map.
poll_lists ==
    /\ pc = "poll"
    /\ cleanup' = [s \in Servers |-> IF CleanupDue(s) THEN Interval ELSE cleanup[s]]
    /\ will_close' = [c \in Clients |->
          will_close[c] \/ \E s \in Servers : CleanupDue(s) /\ c \in IdleOf(s)]
    /\ overflow' = [s \in Servers |-> IF s \in listening THEN InOverflow(s) ELSE overflow[s]]
    /\ rs' = {s \in listening : ~InOverflow(s)}
    /\ r' = {f \in Used : ChannelReadable(map[f])}
    /\ w' = {f \in Used : ChannelWritable(map[f])}
    /\ pc' = "select"
    /\ UNCHANGED <<mapVars, clientVars, age, quiet>>

ReadyServers == {s \in rs : backlog[s] # <<>>}
ReadyToRead == {f \in r : work[map[f]] = "sent" \/ gone[map[f]]}
ReadyToWrite == {f \in w : ~blocked[map[f]] \/ gone[map[f]]}

select_returns ==
    /\ pc = "select"
    /\ rs' = ReadyServers
    /\ r' = ReadyToRead
    /\ w' = ReadyToWrite
    /\ pc' = "dispatch"
    /\ UNCHANGED <<mapVars, clientVars, timeVars, overflow, cleanup>>

\* The socket map keeps the order in which its objects were added: in every
\* list the listening sockets come before the channels.
round_ends ==
    /\ pc = "dispatch"
    /\ rs = {} /\ r = {} /\ w = {}
    /\ pc' = "poll"
    /\ UNCHANGED <<mapVars, clientVars, timeVars, rs, r, w, overflow, cleanup>>

Descriptors == fds \ Used

\* accept() returns None or raises, and the client stays where it is: nothing to
\* accept after all (EAGAIN), or no descriptor or memory for it (EMFILE, ENFILE,
\* ENOMEM).  The listening socket stays readable.
accept_fails == UNCHANGED <<mapVars, timeVars, backlog, conn>>

LeavesBacklog(s) == backlog' = [backlog EXCEPT ![s] = Tail(@)]

\* The connection was aborted in the backlog (ECONNABORTED), is a bogus socket,
\* or set_socket_options() fails: it is given up, without a channel.  Its socket
\* took a descriptor until then.
accept_refuses(s) ==
    /\ Descriptors # {}
    /\ LeavesBacklog(s)
    /\ conn' = [conn EXCEPT ![Head(backlog[s])] = "refused"]
    /\ UNCHANGED <<mapVars, timeVars>>

\* HTTPChannel(): add_channel() of both classes.
AddChannel(s, c, f) ==
    /\ map' = [map EXCEPT ![f] = c]
    /\ active' = [active EXCEPT ![s][f] = c]
    /\ fileno' = [fileno EXCEPT ![c] = f]

accept_channel(s) ==
    LET c == Head(backlog[s])
    IN  /\ \E f \in Descriptors : AddChannel(s, c, f)
        /\ LeavesBacklog(s)
        /\ conn' = [conn EXCEPT ![c] = "open"]
        /\ age' = [age EXCEPT ![c] = 0]
        /\ quiet' = [quiet EXCEPT ![c] = 0]
        /\ UNCHANGED <<listening, limit, fds, will_close>>

handle_accept(s) ==
    /\ pc = "dispatch"
    /\ s \in rs
    /\ rs' = rs \ {s}
    /\ accept_fails \/ accept_refuses(s) \/ accept_channel(s)
    /\ UNCHANGED <<pc, r, w, overflow, cleanup, work, out, blocked, gone>>

\* Mutant: the server's own table of channels is forgotten.
DelChannelFromMap(c) ==
    /\ map' = [map EXCEPT ![fileno[c]] = Free]
    /\ fileno' = [fileno EXCEPT ![c] = Free]
    /\ UNCHANGED active

\* del_channel() of both classes.
DelChannel(c) ==
    LET f == fileno[c]
    IN  /\ map' = [map EXCEPT ![f] = Free]
        /\ active' = [s \in Servers |->
              IF active[s][f] = c THEN [active[s] EXCEPT ![f] = Free] ELSE active[s]]
        /\ fileno' = [fileno EXCEPT ![c] = Free]

\* Mutant: last_activity is not updated.
SentAgeless(c) == quiet' = [quiet EXCEPT ![c] = 0] /\ UNCHANGED age

\* last_activity = time.time(), where data was received or sent.
Active(c) ==
    /\ age' = [age EXCEPT ![c] = 0]
    /\ quiet' = [quiet EXCEPT ![c] = 0]

\* The attributes of the channel are forgotten with it.
handle_close(c) ==
    /\ DelChannel(c)
    /\ conn' = [conn EXCEPT ![c] = "closed"]
    /\ out' = [out EXCEPT ![c] = 0]
    /\ blocked' = [blocked EXCEPT ![c] = FALSE]
    /\ will_close' = [will_close EXCEPT ![c] = FALSE]
    /\ Active(c)
    /\ UNCHANGED <<listening, limit, fds>>

\* The answer to recv() is data, nothing, or an error after a reset.
data_received(c) ==
    /\ work[c] = "sent"
    /\ work' = [work EXCEPT ![c] = "queued"]
    /\ Active(c)
    /\ UNCHANGED <<mapVars, conn, out, blocked, will_close>>

connection_lost(c) ==
    /\ gone[c]
    /\ handle_close(c)
    /\ UNCHANGED work

handle_read(c) ==
    /\ pc = "dispatch"
    /\ rs = {}
    /\ fileno[c] \in r
    /\ r' = r \ {fileno[c]}
    /\ data_received(c) \/ connection_lost(c)
    /\ UNCHANGED <<pc, rs, w, overflow, cleanup, backlog, gone>>

\* _flush_some() sends n pieces; when there are more, the send buffer is full.
flush(c, n) ==
    /\ IF will_close[c] THEN handle_close(c)
       ELSE /\ out' = [out EXCEPT ![c] = @ - n]
            /\ blocked' = [blocked EXCEPT ![c] = n < out[c]]
            /\ IF n > 0 THEN Active(c) ELSE UNCHANGED <<age, quiet>>
            /\ UNCHANGED <<mapVars, conn, will_close>>
    /\ UNCHANGED work

handle_write(c) ==
    /\ pc = "dispatch"
    /\ rs = {} /\ r = {}
    /\ fileno[c] \in w
    /\ w' = w \ {fileno[c]}
    /\ \/ out[c] > 0 /\ connection_lost(c)
       \/ \E n \in (IF out[c] = 0 THEN {0} ELSE 1 .. out[c]) : flush(c, n)
    /\ UNCHANGED <<pc, rs, r, overflow, cleanup, backlog, gone>>

----------------------------------------------------------------------------
(* SystemExit or KeyboardInterrupt ends the loop. *)

\* BaseWSGIServer.run(), the only one to run: its sockets stay as they are.
interrupt ==
    /\ pc # "down"
    /\ Cardinality(listening) = 1
    /\ pc' = "down"
    /\ rs' = {} /\ r' = {} /\ w' = {}
    /\ UNCHANGED <<mapVars, clientVars, timeVars, overflow, cleanup>>

\* MultiSocketServer.close(): close_all() closes everything in the map.
interrupt_all ==
    /\ pc # "down"
    /\ Cardinality(listening) > 1
    /\ pc' = "down"
    /\ rs' = {} /\ r' = {} /\ w' = {}
    /\ map' = [f \in Fds |-> Free]
    /\ active' = [s \in Servers |-> [f \in Fds |-> Free]]
    /\ fileno' = [c \in Clients |-> Free]
    /\ listening' = {}
    /\ conn' = [c \in Clients |-> IF conn[c] = "new" THEN "new" ELSE "closed"]
    /\ UNCHANGED <<timeVars, limit, fds, overflow, cleanup, backlog, work, out, blocked, gone>>

----------------------------------------------------------------------------
ClientStep(c) ==
    \/ \E s \in Servers : connect(c, s)
    \/ client_sends(c) \/ client_reads(c) \/ client_leaves(c)

WorkerStep(c) == service_pops(c) \/ service_ends(c)

Round == poll_lists \/ select_returns \/ round_ends

Dispatch ==
    \/ \E s \in Servers : handle_accept(s)
    \/ \E c \in Clients : handle_read(c) \/ handle_write(c)

Next ==
    \/ \E c \in Clients : ClientStep(c) \/ WorkerStep(c)
    \/ Round \/ Dispatch
    \/ tick
    \/ interrupt \/ interrupt_all

Spec == Init /\ [][Next]_vars

AcceptTakes(s) == handle_accept(s) /\ backlog' # backlog

\* Main goes on, workers end, time passes, and clients read what is sent to
\* them.  accept() may fail any number of times, but if a server tries again
\* and again with a descriptor left for it, not always.  Whether a client sends
\* or leaves is open.
Fairness ==
    /\ WF_vars(Round \/ Dispatch)
    /\ WF_vars(tick)
    /\ \A c \in Clients : WF_vars(WorkerStep(c)) /\ WF_vars(client_reads(c))
    /\ \A s \in Servers : SF_vars(AcceptTakes(s))

FairSpec == Spec /\ Fairness

----------------------------------------------------------------------------
\* Each listener looks at the limit once per round and then accepts one
\* connection: together they overshoot by less than their number
\* (server.py:270-289).
ConnectionsBounded ==
    LenMap <= 2 * Cardinality(listening) \/ LenMap < limit + Cardinality(listening)

\* The map and the servers' tables hold exactly the open channels, each under
\* its descriptor and in one table, also when a descriptor is used again in a
\* later round (wasyncore.py:310-326, channel.py:325-345).
MapsAgree ==
    /\ \A c \in Clients : conn[c] = "open" <=> fileno[c] # Free
    /\ \A c \in Clients, f \in Fds : fileno[c] = f <=> map[f] = c
    /\ \A s \in Servers, f \in Fds : active[s][f] # Free => active[s][f] = map[f]
    /\ \A f \in Used : \E s \in Servers : active[s][f] = map[f]
    /\ \A s, t \in Servers, f \in Fds :
          active[s][f] # Free /\ active[t][f] # Free => s = t

\* Maintenance closes a channel only after nothing was received from it or sent
\* to it for longer than channel_timeout, however its answer was produced
\* and sent in between (server.py:342-351; channel.py:167, 303, 516).
QuietIsReaped ==
    [][\A c \in Clients : ~will_close[c] /\ will_close'[c] => quiet[c] > Timeout]_vars

\* At the limit the server stops accepting, and without a descriptor it cannot,
\* but clients that read cannot keep it there: idle channels are closed, and
\* whoever waits gets a channel, or is refused by accept() (server.py:270-319,
\* 342-351).
WaitingIsAccepted ==
    \A c \in Clients :
        conn[c] = "backlog" /\ limit > 2 * Cardinality(listening) /\ fds # {}
            ~> conn[c] \in {"open", "refused"} \/ pc = "down"

=============================================================================
