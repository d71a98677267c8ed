----------------------------- MODULE RestServer -----------------------------
(***************************************************************************)
(* The RESTful server (server/restful_server.cc): one thread that polls    *)
(* the newer mongoose.  It handles at most one message for each read, and  *)
(* sends a file in pieces, one whenever there is room in the buffer and an *)
(* event comes by.  It closes a connection at the end of its input, for a  *)
(* head it refuses, and behind the pages that ask for it; it has no time   *)
(* limit.                                                                  *)
(***************************************************************************)
EXTENDS HttpConnections

CONSTANT SendBuffer  \* MG_MAX_HTTP_SEND_IOBUF: parts of a file in the buffer
ASSUME SendBufferAssumption == SendBuffer \in Nat \ {0}

\* transfer_file_data: file is what is left of the file, -1 for no file.
transfer_file_data(k) ==
  LET parts == Answer(k.request)
      room == SendBuffer - Len(k.send)
      n == IF k.file < room THEN k.file ELSE room
  IN IF k.file < 0 \/ room <= 0 THEN k
     ELSE IF k.file > 0
     THEN [k EXCEPT !.send = @ \o SubSeq(parts, 4 - k.file, 3 - k.file + n), !.file = @ - n]
     ELSE [k EXCEPT !.file = -1, !.request = NoRequest, !.body_len = 0]

\* mg_send_http_file2: an earlier file is given up.
mg_send_http_file(k, r) ==
  transfer_file_data([k EXCEPT !.send = Append(@, Answer(r)[1]), !.file = 2, !.request = r,
                                !.body_len = 0])

\* send_directory_listing, and likewise a file with server-side includes and the
\* answer to OPTIONS (their clients are told, keep is FALSE): MG_F_SEND_AND_CLOSE.
\* A file that is being sent goes on meanwhile.
send_directory_listing(k, r) == [k EXCEPT !.send = @ \o Answer(r), !.finish = TRUE]

\* ev_handler: a rating, a page that is printed and not answered, a directory, a
\* file.  (An error is answered in one piece, as a rating is.)
ev_handler(k, r, body) ==
  CASE r.kind.page = "rating" -> [k EXCEPT !.send = @ \o AnswerAbout(r, body)]
    [] r.kind.page = "print" -> k
    [] r.kind.page = "listing" -> send_directory_listing(k, r)
    [] OTHER -> mg_send_http_file(k, r)

\* mg_parse_http returns -1, or the buffer has reached MG_MAX_HTTP_REQUEST_SIZE
\* without the end of a head: a control character up to that end, a request line
\* when the end is there, a long head when it is not.
Refused(io) ==
  LET n == get_request_len(io)
  IN \E i \in DOMAIN io :
       /\ io[i].part = "head"
       /\ \/ io[i].r.kind.head = "control" /\ (n = 0 \/ i < n)
          \/ io[i].r.kind.head = "line" /\ i < n
          \/ io[i].r.kind.head = "long" /\ n = 0

\* parse_chunk: the length of a whole chunk at the front of the buffer, or 0.
parse_chunk(buf) ==
  CASE buf # <<>> /\ buf[1].part = "zero" -> 1
    [] Len(buf) > 1 /\ buf[1].part = "size" -> 2
    [] OTHER -> 0

\* mg_handle_chunked: behind body_len units that are reassembled, the whole chunks
\* give way to their data; end is where the first one stands that has none or is
\* not whole.
mg_handle_chunked(k, n) ==
  LET buf == After(k.recv, n)
      places == {k.body_len + 2 * j : j \in 0 .. Len(buf)}
      end == CHOOSE i \in places :
               /\ parse_chunk(After(buf, i)) # 2
               /\ \A j \in places : j < i => parse_chunk(After(buf, j)) = 2
      body == Take(buf, k.body_len) \o
              [j \in 1 .. (end - k.body_len) \div 2 |-> buf[k.body_len + 2 * j]]
  IN [k EXCEPT !.recv = Take(@, n) \o body \o After(buf, end + parse_chunk(After(buf, end))),
               !.body_len = Len(body)]

\* zero_chunk_received: of the chunks without data in the buffer one is taken out.
Zeros(buf) == Cardinality({i \in DOMAIN buf : buf[i].part = "zero"})

\* MG_EV_RECV: the first message, when it is complete; without an answer
\* MG_F_CLOSE_IMMEDIATELY for a head that is refused.  A body without length
\* ends with the connection.  Of a message in chunks the length is set without
\* that of its head: so much of the body and the head stays in the buffer, and
\* what becomes of it when more arrives depends on its bytes.
Dispatch(k) ==
  LET n == get_request_len(k.recv)
      r == k.recv[n].r
      len == n + r.kind.body
      j == mg_handle_chunked(k, n)
      body == SubSeq(j.recv, n + 1, n + j.body_len)
  IN IF Refused(k.recv) THEN [k EXCEPT !.close = TRUE]
     ELSE IF n = 0 THEN k
     ELSE IF r.kind.length = "chunked"
     THEN IF Zeros(j.recv) < Zeros(k.recv)
          THEN [ev_handler(j, r, body) EXCEPT !.recv = After(@, Len(@) - n)]
          ELSE j
     ELSE IF r.kind.length = "none" \/ len > Len(k.recv) THEN k
     ELSE [ev_handler(k, r, SubSeq(k.recv, n + 1, len)) EXCEPT !.recv = After(@, len)]

\* MUTANT of http_handler: MG_EV_SEND and MG_EV_POLL do not go on with the file.
HandlerRecvOnly(k, ev) ==
  IF ev = "recv" THEN Dispatch(transfer_file_data(k)) ELSE k

\* Any event goes on with a file.  (At MG_EV_CLOSE a message left in the buffer
\* goes to ev_handler as it is; the answer is freed with the connection.)
http_handler(k, ev) ==
  LET j == transfer_file_data(k)
  IN IF ev = "recv" THEN Dispatch(j) ELSE j

-----------------------------------------------------------------------------
\* mg_mgr_poll: its last loop closes what is to be closed at once or has nothing
\* left to send.  A connection with nothing to read or write gets MG_EV_POLL.
RestPoll(m) ==
  Poll(m, {c \in Owned(m) : conn[c].close \/ (conn[c].finish /\ conn[c].send = <<>>)}, conn,
       [c \in Owned(m) |-> http_handler(conn[c], "poll")])

\* mg_read_from_socket: one recv.  What is to be closed at once, at the end of the
\* input or for its head, loses the write that was due.
RestRead(m, c) ==
  /\ Turn(m, c) /\ ready[c] = "read"
  /\ ready' = [ready EXCEPT ![c] = "no"]
  /\ \/ /\ wire[c][1] = FIN
        /\ conn' = [conn EXCEPT ![c].close = TRUE]
        /\ writable' = [writable EXCEPT ![c] = FALSE]
        /\ UNCHANGED <<wire, old>>
     \/ \E n \in 1 .. Len(wire[c]) :
          LET handled == http_handler(Received(c, n), "recv")
          IN /\ Receive(c, n, handled)
             /\ writable' = [writable EXCEPT ![c] = @ /\ ~handled.close]
  /\ UNCHANGED <<client, got, state, backlog, owner, accepting>>

RestStep(m) ==
  \/ RestPoll(m)
  \/ Accept(m)
  \/ \E c \in Conns :
       \/ RestRead(m, c)
       \/ \E n \in 1 .. Len(conn[c].send) :
            Write(m, c, n, http_handler(Sent(c, n), "send"))
=============================================================================
