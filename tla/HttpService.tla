---------------------------- MODULE HttpService ----------------------------
(***************************************************************************)
(* The HTTP service (http-service/rating.cc): 22 threads that each poll a  *)
(* server of the older mongoose, and an event handler that answers every   *)
(* request at once.  It returns MG_TRUE for MG_REQUEST and 0 for what it   *)
(* does not know, so that files, CGI, proxies and PUT are never reached:   *)
(* an endpoint is EP_USER or none (field user).                            *)
(*                                                                         *)
(* The operators work on the record of one connection and bear the names   *)
(* of the functions.                                                       *)
(***************************************************************************)
EXTENDS HttpConnections

CONSTANT MaxRequestSize  \* MAX_REQUEST_SIZE: units of a head not yet complete
ASSUME MaxRequestAssumption == MaxRequestSize \in Nat \ {0}

\* MUTANT of close_local_endpoint: the number of bytes is not reset.
close_local_endpoint_counting(k) ==
  LET keep_alive == k.user /\ k.request.kind.keep
  IN [k EXCEPT !.recv = <<>>, !.user = FALSE, !.request = NoRequest,
               !.cl = 0, !.request_len = 0,
               !.finish = ~keep_alive /\ k.send # <<>>,
               !.close = ~keep_alive /\ k.send = <<>>]

\* MUTANT of close_local_endpoint: the connection is closed with the answer
\* in the buffer.
close_local_endpoint_hasty(k) ==
  LET keep_alive == k.user /\ k.request.kind.keep
  IN [k EXCEPT !.recv = <<>>, !.user = FALSE, !.request = NoRequest,
               !.cl = 0, !.num_bytes_recv = 0, !.request_len = 0,
               !.finish = FALSE, !.close = ~keep_alive]

\* The end of a request.  The receive buffer is freed whatever it holds; the
\* call of on_recv_data for a connection that stays finds it empty.
close_local_endpoint(k) ==
  LET keep_alive == k.user /\ k.request.kind.keep
  IN [k EXCEPT !.recv = <<>>, !.user = FALSE, !.request = NoRequest,
               !.cl = 0, !.num_bytes_recv = 0, !.request_len = 0,
               !.finish = ~keep_alive /\ k.send # <<>>,
               !.close = ~keep_alive /\ k.send = <<>>]

send_http_error(k) == close_local_endpoint([k EXCEPT !.send = Append(@, Failure)])

\* A complete head is taken out of the buffer; one with bytes of something
\* else before it has no valid method.
try_parse(k) ==
  LET n == get_request_len(k.recv)
      r == k.recv[n].r
  IN IF k.request_len # 0 \/ n = 0 THEN k
     ELSE IF n = 2 /\ k.recv[1] = Unit(r, "head")
     THEN [k EXCEPT !.recv = After(@, n), !.request_len = n, !.request = r,
                    !.cl = IF r.kind.length = "given" THEN r.kind.body ELSE 0]
     ELSE [k EXCEPT !.recv = After(@, n), !.request_len = -1]

\* mg_get_var: the query string, or else all that is in the buffer.
Asked(k) == IF k.request.kind.body = 0 THEN <<Unit(k.request, "head")>> ELSE k.recv

\* MG_REQUEST of ev_handler: one chunk, then the terminating one.
call_request_handler(k) ==
  close_local_endpoint([k EXCEPT !.send = @ \o AnswerAbout(k.request, Asked(k))])

\* MUTANT of call_request_handler_if_data_is_buffered: the body is not waited for.
CallAtOnce(k) == call_request_handler(k)

call_request_handler_if_data_is_buffered(k) ==
  IF k.num_bytes_recv >= k.cl + k.request_len THEN call_request_handler(k) ELSE k

on_recv_data(j) ==
  LET k == try_parse(j)
  IN IF k.request_len < 0 \/ (k.request_len = 0 /\ Len(k.recv) > MaxRequestSize)
     THEN send_http_error(k)
     ELSE IF k.request_len = 0 THEN k
     ELSE call_request_handler_if_data_is_buffered([k EXCEPT !.user = TRUE])

\* NS_RECV of n bytes: without user_data there is nothing to work on.
ns_recv(k, n) ==
  IF k.data THEN on_recv_data([k EXCEPT !.num_bytes_recv = @ + n])
  ELSE [k EXCEPT !.fault = TRUE]

\* MUTANT of Expire: the connection is freed and the socket stays.
ExpireHalf(c) ==
  IF old[c] /\ conn[c].data
  THEN [close_local_endpoint(conn[c]) EXCEPT !.data = FALSE, !.close = FALSE]
  ELSE conn[c]

\* MUTANT of Expire: idle connections stay.
ExpireNever(c) == conn[c]

\* NS_POLL: an idle connection gets its NS_CLOSE here, which frees the
\* connection of the HTTP layer; the second one finds user_data NULL.
Expire(c) ==
  LET k == IF conn[c].data THEN close_local_endpoint(conn[c]) ELSE conn[c]
  IN IF old[c] THEN [k EXCEPT !.data = FALSE, !.close = TRUE] ELSE conn[c]

-----------------------------------------------------------------------------
\* ns_mgr_poll: its last loop closes what is to be closed at once or has nothing
\* left to send, its first loop polls and closes.
ServicePoll(m) ==
  LET reaped == {c \in Owned(m) : conn[c].close \/ (conn[c].finish /\ conn[c].send = <<>>)}
      polled == [c \in Owned(m) |-> Expire(c)]
  IN Poll(m, reaped \cup {c \in Owned(m) : polled[c].close}, polled, polled)

\* ns_read_from_socket: recv, as long as there is something.
ServiceRead(m, c) ==
  /\ Turn(m, c) /\ ready[c] # "no"
  /\ \E n \in 1 .. Len(wire[c]) : Receive(c, n, ns_recv(Received(c, n), n))
  /\ ready' = [ready EXCEPT ![c] = "more"]
  /\ UNCHANGED <<client, got, state, backlog, owner, writable, accepting>>

\* Nothing has arrived, or the client has closed its side.
ServiceReadEnds(m, c) ==
  /\ Turn(m, c) /\ ready[c] # "no"
  /\ ready' = [ready EXCEPT ![c] = "no"]
  /\ \/ /\ wire[c] # <<>> /\ wire[c][1] = FIN
        /\ conn' = [conn EXCEPT ![c].close = TRUE]
     \/ /\ ready[c] = "more"
        /\ UNCHANGED conn
  /\ UNCHANGED <<client, wire, got, state, backlog, owner, old, writable, accepting>>

\* More than MONGOOSE_IDLE_TIMEOUT_SECONDS pass without input or output.
Age(c) ==
  /\ program = "service" /\ state[c] = "open" /\ ~old[c]
  /\ old' = [old EXCEPT ![c] = TRUE]
  /\ UNCHANGED <<client, wire, got, state, backlog, owner, conn, ready, writable,
                 accepting>>

ServiceStep(m) ==
  \/ ServicePoll(m)
  \/ Accept(m)
  \/ \E c \in Conns :
       \/ ServiceRead(m, c)
       \/ ServiceReadEnds(m, c)
       \/ \E n \in 1 .. Len(conn[c].send) : Write(m, c, n, Sent(c, n))
=============================================================================
