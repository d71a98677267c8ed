-------------------------- MODULE HttpConnections --------------------------
(***************************************************************************)
(* The event loop that both web servers of the sentiment analysis run      *)
(* (net_skeleton in http-service/mongoose.c, the select loop of            *)
(* server/mongoose.c) and the clients at the other ends of the             *)
(* connections.  A manager is one thread that polls; every manager selects *)
(* on the one listening socket, and owns the connections it accepted.      *)
(*                                                                         *)
(* Bytes come in units: a request is the two halves of its head and at     *)
(* most one unit of body, an answer is a few parts.  TCP delivers the      *)
(* units of a connection in order and in pieces of any size.               *)
(***************************************************************************)
EXTENDS Integers, Sequences, FiniteSets, SequencesExt

CONSTANTS
  Connections,  \* how many connections there are, numbered as they come
  Managers,     \* the threads that poll
  NoManager,    \* the owner of a connection that is not accepted
  Crowds        \* the clients of a run: manners, the kinds of requests they
                \* send, and a bound for the number of requests

ASSUME ManagersAssumption == Managers # {} /\ NoManager \notin Managers

VARIABLES
  program,    \* which of the two servers is running
  clients,    \* the crowd that is there
  asked,      \* the requests a client has sent
  wire,       \* what it has sent and the server has not read
  got,        \* the parts of answers it has received
  state,      \* "none", "backlog", "open" or "closed"
  backlog,    \* connections nobody has accepted
  owner,      \* the manager of a connection
  conn,       \* what the server keeps for a connection
  old,        \* last_io_time is longer ago than the timeout for idle connections
  ready,      \* the read set after select: "no", "read" or "more" to read
  writable,   \* the write set
  accepting   \* select found the listening socket readable

vars == <<program, clients, asked, wire, got, state, backlog, owner, conn, old,
          ready, writable, accepting>>
client == <<program, clients, asked>>

\* A request: the server it is for, its head, the units of its body, how their
\* number is known (Content-Length, not at all, or chunks that give their size),
\* whether the connection is to stay, the page it asks for (the service has one,
\* and gets good heads only), and its number on the connection.  Of a long head
\* the first half alone has as many bytes as the RESTful server takes; a bad one
\* has a control character, or a request line without method, URI or protocol.
Kinds == {kind \in [server: {"service", "rest"}, head: {"good", "long", "control", "line"},
                    body: 0 .. 2, length: {"given", "none", "chunked"}, keep: BOOLEAN,
                    page: {"rating", "print", "file", "listing"}] :
            kind.server = "service" => kind.page = "rating" /\ kind.head = "good"}
Request(kind, n) == [kind |-> kind, n |-> n]
NoRequest == [n |-> 0]

ASSUME CrowdsAssumption ==
  /\ Connections \in Nat
  /\ \A crowd \in Crowds : \A c \in 1 .. Connections :
       crowd[c].polite \in BOOLEAN /\ crowd[c].requests \in Nat /\ crowd[c].kinds \subseteq Kinds

\* The service knows nothing of chunks: a polite client sends it none.
ASSUME MannersAssumption ==
  \A crowd \in Crowds : \A c \in 1 .. Connections : \A kind \in crowd[c].kinds :
    crowd[c].polite /\ kind.server = "service" => kind.length # "chunked"

FIN == [part |-> "fin"]
Unit(r, part) == [r |-> r, part |-> part]
Body(r) == SubSeq(<<Unit(r, "body"), Unit(r, "more")>>, 1, r.kind.body)
Chunks(r) ==
  SubSeq(<<Unit(r, "size"), Unit(r, "body"), Unit(r, "size"), Unit(r, "more")>>,
         1, 2 * r.kind.body)
Bytes(r) ==
  <<Unit(r, "head"), Unit(r, "blank")>> \o
  IF r.kind.length = "chunked" THEN Append(Chunks(r), Unit(r, "zero")) ELSE Body(r)

\* The text a request is about: its body, or what the service finds in the
\* query string.
Text(r) == IF r.kind.body = 0 /\ r.kind.server = "service" THEN <<Unit(r, "head")>> ELSE Body(r)

\* The answer to r about a text: the head and the data, then the end.
AnswerAbout(r, text) ==
  LET parts == IF r.kind.page = "file" THEN <<"start", "middle", "end">> ELSE <<"start", "end">>
  IN [i \in DOMAIN parts |-> [n |-> r.n, part |-> parts[i], of |-> text]]
Answer(r) == AnswerAbout(r, Text(r))
Failure == [n |-> 0, part |-> "end", of |-> <<>>]

Take(s, n) == SubSeq(s, 1, n)
After(s, n) == SubSeq(s, n + 1, Len(s))

\* get_request_len: the length of a head at the front of the buffer, 0 if its
\* end has not come.  Whatever stands before the end counts as part of it.
get_request_len(io) == SelectInSeq(io, LAMBDA u : u.part = "blank")

\* What is kept for a new connection.
Fresh == [recv |-> <<>>, send |-> <<>>, num_bytes_recv |-> 0,
          cl |-> 0, request_len |-> 0, request |-> NoRequest, user |-> FALSE,
          data |-> TRUE, close |-> FALSE, finish |-> FALSE, file |-> -1,
          body_len |-> 0, fault |-> FALSE]

Conns == 1 .. Connections
Owned(m) == {c \in Conns : owner[c] = m}

InitConnections ==
  /\ clients \in Crowds
  /\ asked = [c \in Conns |-> <<>>]
  /\ wire = [c \in Conns |-> <<>>]
  /\ got = [c \in Conns |-> <<>>]
  /\ state = [c \in Conns |-> "none"]
  /\ backlog = <<>>
  /\ owner = [c \in Conns |-> NoManager]
  /\ conn = [c \in Conns |-> Fresh]
  /\ old = [c \in Conns |-> FALSE]
  /\ ready = [c \in Conns |-> "no"]
  /\ writable = [c \in Conns |-> FALSE]
  /\ accepting = [m \in Managers |-> FALSE]

-----------------------------------------------------------------------------
\* The clients.  A polite one sends a request when the last one is answered,
\* with a head that is not bad, says how long it is, sends nothing after it asked
\* for the end of the connection or was told of it, and shuts its side only when
\* it has all answers.  Nobody sends
\* anything after a request in chunks: see Dispatch.

\* All parts of the answer to request n have come.
Answered(c, n) ==
  Cardinality({i \in DOMAIN got[c] : got[c][i].n = n}) = Len(Answer(asked[c][n]))
Done(c) == \A n \in DOMAIN asked[c] : Answered(c, n)
polite(c) == clients[c].polite
Up(c) == state[c] \in {"backlog", "open"} /\ ~Contains(wire[c], FIN)

Connect(c) ==
  /\ state[c] = "none" /\ \A d \in Conns : d < c => state[d] # "none"
  /\ clients[c].requests > 0
  /\ state' = [state EXCEPT ![c] = "backlog"]
  /\ backlog' = Append(backlog, c)
  /\ UNCHANGED <<client, wire, got, owner, conn, old, ready, writable, accepting>>

Send(c, kind) ==
  LET r == Request(kind, Len(asked[c]) + 1)
  IN /\ Up(c) /\ r.n <= clients[c].requests /\ kind.server = program
     /\ asked[c] # <<>> => Last(asked[c]).kind.length # "chunked"
     /\ polite(c) => /\ Done(c) /\ kind.length # "none" /\ kind.page # "print"
                     /\ kind.head \in {"good", "long"}
                     /\ asked[c] # <<>> => Last(asked[c]).kind.keep
     /\ asked' = [asked EXCEPT ![c] = Append(@, r)]
     /\ wire' = [wire EXCEPT ![c] = @ \o Bytes(r)]
     /\ UNCHANGED <<program, clients, got, state, backlog, owner, conn, old,
                    ready, writable, accepting>>

\* The client closes its side; the last n units may not have been sent.
Shut(c, n) ==
  /\ Up(c)
  /\ polite(c) => Done(c) /\ n = 0
  /\ wire' = [wire EXCEPT ![c] = Append(Take(@, Len(@) - n), FIN)]
  /\ UNCHANGED <<client, got, state, backlog, owner, conn, old, ready,
                 writable, accepting>>

Client(c) ==
  \/ Connect(c)
  \/ \E kind \in clients[c].kinds : Send(c, kind)
  \/ \E n \in 0 .. Len(wire[c]) : Shut(c, n)

-----------------------------------------------------------------------------
\* The loop.  What the servers do differently is a parameter.

\* The connections of m that select found ready and that m has not come to.
Pending(m) == {c \in Owned(m) : ready[c] # "no" \/ writable[c]}

\* The list of connections begins with the newest and ends with the listening
\* socket.
Turn(m, c) == c \in Pending(m) /\ \A d \in Pending(m) : d <= c

\* The end of one poll and the beginning of the next: the connections gone are
\* closed and freed, those that stay are as polled, and select finds what it
\* finds; a connection in neither set is as in idle.  What happens elsewhere in
\* between may as well happen before or after.  The client of a closed connection
\* forgets it.
Poll(m, gone, polled, idle) ==
  LET stay == Owned(m) \ gone
      write == {c \in stay : polled[c].send # <<>>}
      read == {c \in stay : wire[c] # <<>>}
  IN /\ Pending(m) = {} /\ ~accepting[m]
     /\ state' = [c \in Conns |-> IF c \in gone THEN "closed" ELSE state[c]]
     /\ wire' = [c \in Conns |-> IF c \in gone THEN <<>> ELSE wire[c]]
     /\ old' = [c \in Conns |-> old[c] /\ c \notin gone]
     /\ conn' = [c \in Conns |->
                   CASE c \in gone -> Fresh
                     [] c \in stay \ (read \cup write) -> idle[c]
                     [] c \in read \cup write -> polled[c]
                     [] OTHER -> conn[c]]
     /\ writable' = [c \in Conns |-> writable[c] \/ c \in write]
     /\ ready' = [c \in Conns |-> IF c \in read THEN "read" ELSE ready[c]]
     /\ accepting' = [accepting EXCEPT ![m] = backlog # <<>>]
     /\ asked' = [c \in Conns |-> IF c \in gone THEN <<>> ELSE asked[c]]
     /\ got' = [c \in Conns |-> IF c \in gone THEN <<>> ELSE got[c]]
     /\ owner' = [c \in Conns |-> IF c \in gone THEN NoManager ELSE owner[c]]
     /\ UNCHANGED <<program, clients, backlog>>

\* accept: another manager may have been faster.
Accept(m) ==
  /\ Pending(m) = {} /\ accepting[m]
  /\ accepting' = [accepting EXCEPT ![m] = FALSE]
  /\ \/ /\ backlog = <<>>
        /\ UNCHANGED <<state, backlog, owner, conn>>
     \/ /\ backlog # <<>>
        /\ backlog' = Tail(backlog)
        /\ state' = [state EXCEPT ![Head(backlog)] = "open"]
        /\ owner' = [owner EXCEPT ![Head(backlog)] = m]
        \* on_accept of the service: without memory there is no user_data.
        /\ \E memory \in IF program = "service" THEN BOOLEAN ELSE {TRUE} :
             conn' = [conn EXCEPT ![Head(backlog)] =
                        [Fresh EXCEPT !.data = memory, !.close = ~memory]]
  /\ UNCHANGED <<client, wire, got, old, ready, writable>>

\* recv takes n units; handled is what the handler leaves of Received(c, n).
Received(c, n) == [conn[c] EXCEPT !.recv = @ \o Take(wire[c], n)]

Receive(c, n, handled) ==
  /\ ~Contains(Take(wire[c], n), FIN)
  /\ wire' = [wire EXCEPT ![c] = After(@, n)]
  /\ conn' = [conn EXCEPT ![c] = handled]
  /\ old' = [old EXCEPT ![c] = FALSE]

\* send takes n parts; handled is what the handler leaves of Sent(c, n).
Sent(c, n) == [conn[c] EXCEPT !.send = After(@, n)]

Write(m, c, n, handled) ==
  /\ Turn(m, c) /\ ready[c] = "no"
  /\ writable' = [writable EXCEPT ![c] = FALSE]
  /\ got' = [got EXCEPT ![c] = @ \o Take(conn[c].send, n)]
  /\ conn' = [conn EXCEPT ![c] = handled]
  /\ old' = [old EXCEPT ![c] = FALSE]
  /\ UNCHANGED <<client, wire, state, backlog, owner, ready, accepting>>
=============================================================================
