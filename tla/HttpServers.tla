---------------------------- MODULE HttpServers ----------------------------
(***************************************************************************)
(* The two web servers of the sentiment analysis with their clients: one   *)
(* of them runs, the service with all managers on one listening socket or  *)
(* the RESTful server with one.                                            *)
(***************************************************************************)
EXTENDS HttpService, RestServer

CONSTANT Only  \* the manager of the RESTful server
ASSUME OnlyAssumption == Only \in Managers

Polling == IF program = "service" THEN Managers ELSE {Only}

Init == program \in {"service", "rest"} /\ InitConnections

Step(m) == IF program = "service" THEN ServiceStep(m) ELSE RestStep(m)

Next ==
  \/ \E c \in Conns : Client(c) \/ Age(c)
  \/ \E m \in Polling : Step(m)

Spec == Init /\ [][Next]_vars

Fairness ==
  /\ \A m \in Managers : WF_vars(m \in Polling /\ Step(m))
  /\ \A c \in Conns : WF_vars(Age(c))

FairSpec == Spec /\ Fairness

-----------------------------------------------------------------------------
\* The number of bytes that on_recv_data compares with the length of a request
\* is that of the head taken out and the buffer, though three functions change
\* them: so a body that is counted is there.
BytesCounted ==
  program = "service" =>
    \A c \in Conns : conn[c].data /\ state[c] = "open" =>
      /\ conn[c].num_bytes_recv = conn[c].request_len + Len(conn[c].recv)
      /\ conn[c].user <=> conn[c].request_len > 0

\* The parts of answers on their way to a client and with it.
Output(c) == got[c] \o conn[c].send

\* What a polite client gets is the beginning of the answers to its requests, one
\* after the other, none twice and none mixed with another, each about the text
\* of its own request and all of it, however the bytes arrived and whoever else
\* is served.  The service mixes no two answers for anybody.
AnswersInOrder ==
  \A c \in Conns :
    /\ polite(c) => IsPrefix(Output(c), FlattenSeq([n \in DOMAIN asked[c] |-> Answer(asked[c][n])]))
    /\ program = "service" => \A i \in DOMAIN Output(c) :
         Output(c)[i].part = "start" /\ i < Len(Output(c)) =>
           Output(c)[i + 1] = [Output(c)[i] EXCEPT !.part = "end"]

\* No event reaches the HTTP layer for a connection it has freed, or for which
\* it had no memory.
NoFreedConnection == \A c \in Conns : ~conn[c].fault

\* The RESTful server closes without a word when the head of a request is long and
\* comes in pieces, and behind a listing it has sent, which the client may have
\* taken for an answer like others: the last request is lost, and nothing of an
\* answer to it is sent.
Dismissed(c) ==
  LET last == Len(asked[c])
  IN /\ program = "rest" /\ asked[c] # <<>>
     /\ \A i \in DOMAIN got[c] : got[c][i].n # last
     /\ \/ asked[c][last].kind.head = "long"
        \/ \E n \in 1 .. last - 1 : asked[c][n].kind.page = "listing"

\* The server closes the connection of a polite client only when the client has
\* all its answers, or the connection was idle for too long, or could not be
\* set up, or the RESTful server dismisses it; it never cuts an answer, and
\* whoever sends short heads and asks for no listing is answered.
ClosedWhenDone ==
  [][\A c \in Conns :
       state[c] = "open" /\ state'[c] = "closed" /\ polite(c) /\ conn[c].data
         => Done(c) \/ old[c] \/ Dismissed(c)]_vars

\* Every request of a polite client is answered, unless its connection is closed.
AllAnswered ==
  \A c \in Conns : []<>(polite(c) => Done(c) \/ state[c] = "closed")

\* No connection of the service stays when its client falls silent.
SilentReaped ==
  \A c \in Conns : []<>(program = "service" => state[c] # "open")
=============================================================================
