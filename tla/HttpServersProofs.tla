------------------------- MODULE HttpServersProofs -------------------------
(***************************************************************************)
(* Machine-checked proofs about HttpServers, for any number of connections *)
(* and managers, any bounds and any clients.                               *)
(*                                                                         *)
(* The first part is about the records of the connections: no event        *)
(* reaches the HTTP layer for a connection it has freed, and the number of *)
(* bytes that the service keeps is that of the bytes it has.               *)
(*                                                                         *)
(* The second part is about the answers: a polite client gets the answers  *)
(* to its requests in their order and about all of their text, and its     *)
(* connection is not closed before.  The invariant says of a connection    *)
(* which answers are owed, and that a request is on its way only while its *)
(* answer is owed: what a server has read of it, with what is still to     *)
(* come, is all of that request.                                           *)
(***************************************************************************)
EXTENDS HttpServers, FiniteSetTheorems, WellFoundedInduction, SequenceTheorems, TLAPS

\* What is sent to a server.
Requests == [kind : Kinds, n : Nat]
Units == {FIN} \cup {Unit(r, part) : r \in Requests,
                     part \in {"head", "blank", "size", "body", "more", "zero"}}

\* The fields of what the server keeps for a connection.
Fields == {"recv", "send", "num_bytes_recv", "cl", "request_len", "request", "user",
           "data", "close", "finish", "file", "body_len", "fault"}

Ranges ==
  /\ program \in {"service", "rest"}
  /\ clients \in Crowds
  /\ asked \in [Conns -> Seq(Requests)]
  /\ wire \in [Conns -> Seq(Units)]
  /\ state \in [Conns -> {"none", "backlog", "open", "closed"}]
  /\ backlog \in Seq(Conns)
  /\ owner \in [Conns -> Managers \cup {NoManager}]
  /\ ready \in [Conns -> {"no", "read", "more"}]
  /\ writable \in [Conns -> BOOLEAN]
  /\ conn = [c \in Conns |-> conn[c]]

\* The head that was taken out and the buffer are what was received since the
\* last request.
Counted(k) ==
  /\ k.recv \in Seq(Units) /\ k.request_len \in Nat
  /\ k.num_bytes_recv = k.request_len + Len(k.recv)
  /\ k.user <=> k.request_len > 0

\* What is kept for a connection is sound.
Sound(k) == DOMAIN k = Fields /\ ~k.fault /\ (program = "service" => Counted(k))

\* A connection waits in the backlog once, has a manager as long as it is open, and
\* is in the sets of that manager's select only.
Managed ==
  /\ \A i, j \in 1 .. Len(backlog) : backlog[i] = backlog[j] => i = j
  /\ \A i \in 1 .. Len(backlog) : state[backlog[i]] = "backlog"
  /\ \A c \in Conns :
       /\ owner[c] # NoManager <=> state[c] = "open"
       /\ owner[c] = NoManager => ready[c] = "no" /\ ~writable[c]

\* A connection of which the HTTP layer knows nothing is closed at the next poll,
\* and no event comes before.
Doomed ==
  \A c \in Conns : ~conn[c].data => conn[c].close /\ ready[c] = "no" /\ ~writable[c]

HInv == Ranges /\ Managed /\ Doomed /\ \A c \in Conns : Sound(conn[c])

-----------------------------------------------------------------------------
(* Sequences and numbers.                                                  *)

\* Numbers that are not none have a least one: a set of the numbers up to one of
\* them is minimal among such sets.
LEMMA MinOf ==
  ASSUME NEW S \in SUBSET Nat, S # {}
  PROVE  Min(S) \in S /\ \A y \in S : Min(S) <= y
<1> DEFINE R == StrictSubsetOrdering(Nat)
           T == {0 .. n : n \in S}
<1>1. T \subseteq FiniteSubsetsOf(Nat) /\ T # {}
  <2>1. ASSUME NEW n \in S PROVE 0 .. n \in FiniteSubsetsOf(Nat)
    <3>1. IsFiniteSet(0 .. n)
      BY FS_Interval
    <3> QED
      BY <3>1 DEF FiniteSubsetsOf
  <2> QED
    BY <2>1
<1>2. \E x \in T : \A y \in T : ~(<<y, x>> \in R)
  BY <1>1, WFMin, FS_StrictSubsetOrderingWellFounded
<1>3. PICK n \in S : \A m \in S : ~(<<0 .. m, 0 .. n>> \in R)
  BY <1>2
<1>4. ASSUME NEW m \in S, m < n PROVE FALSE
  <2>1. 0 .. m \subseteq 0 .. n /\ n \in 0 .. n /\ n \notin 0 .. m
    BY <1>4
  <2>2. 0 .. m \in SUBSET Nat /\ 0 .. n \in SUBSET Nat
    OBVIOUS
  <2>3. <<0 .. m, 0 .. n>> \in R
    BY <2>1, <2>2 DEF StrictSubsetOrdering
  <2> QED
    BY <1>3, <2>3
<1>5. \A m \in S : n <= m
  BY <1>4
<1> QED
  BY <1>5 DEF Min

\* The length of a head is at most that of the buffer.
LEMMA HeadLength ==
  ASSUME NEW io, Len(io) \in Nat
  PROVE  get_request_len(io) \in 0 .. Len(io)
<1> DEFINE I == {i \in 1 .. Len(io) : io[i].part = "blank"}
<1>1. get_request_len(io) = IF I # {} THEN Min(I) ELSE 0
  BY DEF get_request_len, SelectInSeq
<1>2. I # {} => Min(I) \in I
  <2>1. I \in SUBSET Nat
    OBVIOUS
  <2> QED
    BY <2>1, MinOf
<1> QED
  BY <1>1, <1>2

\* The two parts a buffer falls into.
LEMMA Parted ==
  ASSUME NEW S, NEW s \in Seq(S), NEW n \in 0 .. Len(s)
  PROVE  /\ Take(s, n) \in Seq(S) /\ Len(Take(s, n)) = n
         /\ After(s, n) \in Seq(S) /\ Len(After(s, n)) = Len(s) - n
<1>1. Len(s) \in Nat /\ \A i \in 1 .. Len(s) : s[i] \in S
  BY LenProperties, ElementOfSeq
<1>2. /\ Take(s, n) \in Seq(S)
      /\ Len(Take(s, n)) = IF 1 <= n THEN n - 1 + 1 ELSE 0
  BY <1>1, SubSeqProperties DEF Take
<1>3. \A i \in n + 1 .. Len(s) : s[i] \in S
  BY <1>1
<1>4. /\ After(s, n) \in Seq(S)
      /\ Len(After(s, n)) = IF n + 1 <= Len(s) THEN Len(s) - (n + 1) + 1 ELSE 0
  BY <1>1, <1>3, SubSeqProperties DEF After
<1> QED
  BY <1>1, <1>2, <1>4

\* The bytes of a request are its units.
LEMMA BytesOf ==
  ASSUME NEW r \in Requests, NEW S,
         \A part \in {"head", "blank", "size", "body", "more", "zero"} : Unit(r, part) \in S
  PROVE  Bytes(r) \in Seq(S) /\ Body(r) \in Seq(S)
<1>3. r.kind.body \in 0 .. 2
  BY DEF Requests, Kinds
<1>4. Body(r) \in Seq(S)
  <2>1. \A i \in 1 .. r.kind.body : <<Unit(r, "body"), Unit(r, "more")>>[i] \in S
    BY <1>3
  <2> QED
    BY <1>3, <2>1, SubSeqProperties DEF Body
<1>5. Chunks(r) \in Seq(S)
  <2>1. \A i \in 1 .. 2 * r.kind.body :
          <<Unit(r, "size"), Unit(r, "body"), Unit(r, "size"), Unit(r, "more")>>[i] \in S
    BY <1>3
  <2>2. 2 * r.kind.body \in Int
    BY <1>3
  <2> QED
    BY <2>1, <2>2, SubSeqProperties DEF Chunks
<1>6. <<Unit(r, "head"), Unit(r, "blank")>> \in Seq(S)
  OBVIOUS
<1>7. Append(Chunks(r), Unit(r, "zero")) \in Seq(S)
  BY <1>5
<1> QED
  BY <1>4, <1>6, <1>7, ConcatProperties DEF Bytes

LEMMA BytesUnits == ASSUME NEW r \in Requests PROVE Bytes(r) \in Seq(Units)
BY BytesOf DEF Units

-----------------------------------------------------------------------------
(* The functions of the service.                                           *)

\* Nothing is left of a request when it is over.
LEMMA CloseLocal ==
  ASSUME NEW k, DOMAIN k = Fields, ~k.fault
  PROVE  Sound(close_local_endpoint(k)) /\ close_local_endpoint(k).data = k.data
<1> DEFINE j == close_local_endpoint(k)
<1>1. /\ DOMAIN j = Fields /\ j.data = k.data /\ j.fault = k.fault
      /\ j.num_bytes_recv = 0 /\ j.request_len = 0 /\ j.recv = <<>> /\ j.user = FALSE
  BY DEF close_local_endpoint, Fields
<1>2. <<>> \in Seq(Units) /\ Len(<<>>) = 0
  BY EmptySeq
<1> QED
  BY <1>1, <1>2 DEF Sound, Counted

\* A head moves from the buffer to the request.
LEMMA TryParse ==
  ASSUME NEW k, DOMAIN k = Fields, ~k.fault, Counted(k), NEW j, j = try_parse(k)
  PROVE  /\ DOMAIN j = Fields /\ ~j.fault /\ j.data = k.data /\ j.user = k.user
         /\ j.recv \in Seq(Units) /\ j.request_len \in Nat \cup {-1}
         /\ j.request_len >= 0 => j.num_bytes_recv = j.request_len + Len(j.recv)
         /\ j.request_len = 0 => ~j.user
<1> DEFINE n == get_request_len(k.recv)
<1>1. k.recv \in Seq(Units) /\ Len(k.recv) \in Nat /\ k.request_len \in Nat
  BY LenProperties DEF Counted
<1>2. n \in 0 .. Len(k.recv)
  BY <1>1, HeadLength
<1>3. After(k.recv, n) \in Seq(Units) /\ Len(After(k.recv, n)) = Len(k.recv) - n
  BY <1>1, <1>2, Parted
<1>4. /\ DOMAIN j = Fields /\ j.data = k.data /\ j.fault = k.fault
      /\ j.num_bytes_recv = k.num_bytes_recv /\ j.user = k.user
  BY DEF try_parse, Fields
<1>5. \/ j = k
      \/ /\ k.request_len = 0 /\ n # 0
         /\ j.recv = After(k.recv, n) /\ j.request_len \in {n, -1}
  BY DEF try_parse, Fields
<1> HIDE DEF n
<1>6. CASE j = k
  BY <1>1, <1>4, <1>6 DEF Counted
<1>7. CASE k.request_len = 0 /\ n # 0 /\ j.recv = After(k.recv, n) /\ j.request_len \in {n, -1}
  BY <1>1, <1>2, <1>3, <1>4, <1>7 DEF Counted
<1> QED
  BY <1>5, <1>6, <1>7

\* What is received is counted, whatever it is.
LEMMA OnRecv ==
  ASSUME NEW k, DOMAIN k = Fields, ~k.fault, Counted(k)
  PROVE  Sound(on_recv_data(k)) /\ on_recv_data(k).data = k.data
<1> DEFINE j == try_parse(k)
           e == [j EXCEPT !.send = Append(@, Failure)]
           u == [j EXCEPT !.user = TRUE]
           a == [u EXCEPT !.send = @ \o AnswerAbout(u.request, Asked(u))]
<1>1. /\ DOMAIN j = Fields /\ ~j.fault /\ j.data = k.data
      /\ j.recv \in Seq(Units) /\ j.request_len \in Nat \cup {-1}
      /\ j.request_len >= 0 => j.num_bytes_recv = j.request_len + Len(j.recv)
      /\ j.request_len = 0 => ~j.user
  BY TryParse
<1>2. DOMAIN e = Fields /\ ~e.fault /\ e.data = k.data
  BY <1>1 DEF Fields
<1>3. /\ DOMAIN u = Fields /\ ~u.fault /\ u.data = k.data /\ u.user = TRUE
      /\ u.recv = j.recv /\ u.request_len = j.request_len
      /\ u.num_bytes_recv = j.num_bytes_recv
  BY <1>1 DEF Fields
<1>4. DOMAIN a = Fields /\ ~a.fault /\ a.data = k.data
  BY <1>3 DEF Fields
<1>5. \/ on_recv_data(k) = close_local_endpoint(e)
      \/ on_recv_data(k) = j /\ j.request_len = 0
      \/ on_recv_data(k) = close_local_endpoint(a)
      \/ on_recv_data(k) = u /\ j.request_len # 0 /\ ~(j.request_len < 0)
  BY DEF on_recv_data, send_http_error, call_request_handler_if_data_is_buffered,
     call_request_handler
<1> HIDE DEF j, e, u, a
<1>6. Sound(close_local_endpoint(e)) /\ close_local_endpoint(e).data = k.data
  BY <1>2, CloseLocal
<1>7. Sound(close_local_endpoint(a)) /\ close_local_endpoint(a).data = k.data
  BY <1>4, CloseLocal
<1>8. CASE on_recv_data(k) = j /\ j.request_len = 0
  BY <1>1, <1>8 DEF Sound, Counted
<1>9. CASE on_recv_data(k) = u /\ j.request_len # 0 /\ ~(j.request_len < 0)
  BY <1>1, <1>3, <1>9 DEF Sound, Counted
<1> QED
  BY <1>5, <1>6, <1>7, <1>8, <1>9

-----------------------------------------------------------------------------
(* The functions of the RESTful server keep the connection.                *)

Same(j, k) == DOMAIN j = DOMAIN k /\ j.data = k.data /\ j.fault = k.fault

\* Going on with a file.
LEMMA TransferSame ==
  ASSUME NEW k, DOMAIN k = Fields PROVE Same(transfer_file_data(k), k)
BY DEF transfer_file_data, Same, Fields

\* The event handler.
LEMMA HandlerSame ==
  ASSUME NEW k, DOMAIN k = Fields, NEW r, NEW body
  PROVE  Same(ev_handler(k, r, body), k)
<1> DEFINE f == [k EXCEPT !.send = Append(@, Answer(r)[1]), !.file = 2, !.request = r,
                          !.body_len = 0]
           a == [k EXCEPT !.send = @ \o AnswerAbout(r, body)]
           l == [k EXCEPT !.send = @ \o Answer(r), !.finish = TRUE]
<1>1. DOMAIN f = Fields /\ Same(f, k)
  BY DEF Same, Fields
<1>2. Same(transfer_file_data(f), f)
  BY <1>1, TransferSame
<1>3. Same(a, k) /\ Same(l, k)
  BY DEF Same, Fields
<1>4. Same(k, k)
  BY DEF Same
<1>5. ev_handler(k, r, body) \in {a, k, l, transfer_file_data(f)}
  BY DEF ev_handler, mg_send_http_file, send_directory_listing
<1> QED
  BY <1>1, <1>2, <1>3, <1>4, <1>5 DEF Same

\* Any event.
LEMMA EventSame ==
  ASSUME NEW k, DOMAIN k = Fields, NEW ev PROVE Same(http_handler(k, ev), k)
<1>1. ASSUME NEW b, DOMAIN b = Fields PROVE Same(Dispatch(b), b)
  <2> DEFINE n == get_request_len(b.recv)
             r == b.recv[n].r
             len == n + r.kind.body
             j == mg_handle_chunked(b, n)
             body == SubSeq(j.recv, n + 1, n + j.body_len)
             whole == SubSeq(b.recv, n + 1, len)
             h == ev_handler(j, r, body)
             g == ev_handler(b, r, whole)
             x == [b EXCEPT !.close = TRUE]
  <2>1. DOMAIN j = Fields /\ Same(j, b)
    BY <1>1 DEF mg_handle_chunked, Same, Fields
  <2>2. Dispatch(b) \in {b, x, j, [h EXCEPT !.recv = After(@, Len(@) - n)],
                               [g EXCEPT !.recv = After(@, len)]}
    BY DEF Dispatch
  <2> HIDE DEF n, r, len, j, body, whole
  <2>3. Same(h, j) /\ Same(g, b)
    BY <1>1, <2>1, HandlerSame
  <2> HIDE DEF h, g
  <2>4. Same([h EXCEPT !.recv = After(@, Len(@) - n)], b)
    BY <1>1, <2>1, <2>3 DEF Same, Fields
  <2>5. Same([g EXCEPT !.recv = After(@, len)], b)
    BY <1>1, <2>3 DEF Same, Fields
  <2>6. Same(b, b) /\ Same(x, b)
    BY <1>1 DEF Same, Fields
  <2> QED
    BY <2>1, <2>2, <2>4, <2>5, <2>6
<1>2. Same(transfer_file_data(k), k)
  BY TransferSame
<1>3. DOMAIN transfer_file_data(k) = Fields
  BY <1>2 DEF Same
<1>4. Same(Dispatch(transfer_file_data(k)), transfer_file_data(k))
  BY <1>1, <1>3
<1> QED
  BY <1>2, <1>4 DEF Same, http_handler

-----------------------------------------------------------------------------
(* The steps of clients and managers.                                      *)

\* Steps that leave alone what the servers keep and who keeps it.
LEMMA KeptAlone ==
  ASSUME HInv, UNCHANGED <<program, state, backlog, owner, conn, ready, writable>>, Ranges'
  PROVE  HInv'
BY DEF HInv, Managed, Doomed, Sound, Counted

\* A client connects, sends or shuts its side.
LEMMA ClientKeeps ==
  ASSUME HInv, NEW c \in Conns, Client(c) PROVE HInv'
<1>1. CASE Connect(c)
  <2>1. /\ state[c] = "none" /\ state' = [state EXCEPT ![c] = "backlog"]
        /\ backlog' = Append(backlog, c)
        /\ UNCHANGED <<client, wire, got, owner, conn, ready, writable>>
    BY <1>1 DEF Connect
  <2>2. /\ backlog \in Seq(Conns) /\ Len(backlog) \in Nat
        /\ backlog' \in Seq(Conns) /\ Len(backlog') = Len(backlog) + 1
        /\ \A i \in 1 .. Len(backlog) : backlog'[i] = backlog[i] /\ backlog[i] \in Conns
        /\ backlog'[Len(backlog) + 1] = c
    BY <2>1, LenProperties, ElementOfSeq, AppendProperties DEF HInv, Ranges
  <2>3. Ranges'
    BY <2>1, <2>2 DEF HInv, Ranges, client
  <2>4. \A i \in 1 .. Len(backlog) : backlog[i] # c
    BY <2>1 DEF HInv, Managed
  <2>5. \A i, j \in 1 .. Len(backlog') : backlog'[i] = backlog'[j] => i = j
    BY <2>2, <2>4 DEF HInv, Managed
  <2>6. \A i \in 1 .. Len(backlog') : state'[backlog'[i]] = "backlog"
    <3>1. \A d \in Conns : state'[d] = IF d = c THEN "backlog" ELSE state[d]
      BY <2>1 DEF HInv, Ranges
    <3>2. \A i \in 1 .. Len(backlog) : state'[backlog[i]] = "backlog"
      BY <2>2, <3>1 DEF HInv, Managed
    <3> QED
      BY <2>2, <3>1, <3>2
  <2>7. Managed'
    BY <2>1, <2>5, <2>6 DEF HInv, Ranges, Managed
  <2> QED
    BY <2>1, <2>3, <2>7 DEF HInv, Doomed, Sound, Counted, client
<1>2. ASSUME NEW kind \in clients[c].kinds, Send(c, kind) PROVE HInv'
  <2> DEFINE r == Request(kind, Len(asked[c]) + 1)
  <2>1. asked[c] \in Seq(Requests) /\ wire[c] \in Seq(Units) /\ clients[c].kinds \subseteq Kinds
    BY CrowdsAssumption DEF HInv, Ranges, Conns
  <2>2. r \in Requests
    BY <1>2, <2>1, LenProperties DEF Request, Requests
  <2>3. Append(asked[c], r) \in Seq(Requests) /\ wire[c] \o Bytes(r) \in Seq(Units)
    BY <2>1, <2>2, BytesUnits, AppendProperties, ConcatProperties
  <2>4. /\ asked' = [asked EXCEPT ![c] = Append(@, r)]
        /\ wire' = [wire EXCEPT ![c] = @ \o Bytes(r)]
        /\ UNCHANGED <<program, clients, state, backlog, owner, conn, ready, writable>>
    BY <1>2 DEF Send
  <2> HIDE DEF r
  <2>5. Ranges'
    BY <2>3, <2>4 DEF HInv, Ranges
  <2> QED
    BY <2>4, <2>5, KeptAlone
<1>3. ASSUME NEW n \in 0 .. Len(wire[c]), Shut(c, n) PROVE HInv'
  <2>1. /\ wire' = [wire EXCEPT ![c] = Append(Take(@, Len(@) - n), FIN)]
        /\ UNCHANGED <<client, state, backlog, owner, conn, ready, writable>>
    BY <1>3 DEF Shut
  <2>2. wire[c] \in Seq(Units) /\ Len(wire[c]) \in Nat
    BY LenProperties DEF HInv, Ranges
  <2>3. Take(wire[c], Len(wire[c]) - n) \in Seq(Units)
    BY <2>2, Parted
  <2>4. Append(Take(wire[c], Len(wire[c]) - n), FIN) \in Seq(Units)
    BY <2>3, AppendProperties DEF Units
  <2>5. Ranges'
    BY <2>1, <2>4 DEF HInv, Ranges, client
  <2> QED
    BY <2>1, <2>5, KeptAlone DEF client
<1> QED
  BY <1>1, <1>2, <1>3 DEF Client

\* Time passes.
LEMMA AgeKeeps ==
  ASSUME HInv, NEW c \in Conns, Age(c) PROVE HInv'
<1>1. UNCHANGED <<client, wire, state, backlog, owner, conn, ready, writable>>
  BY DEF Age
<1>2. Ranges'
  BY <1>1 DEF HInv, Ranges, client
<1> QED
  BY <1>1, <1>2, KeptAlone DEF client

\* One poll.  What is left of a connection that stays is sound, and known to the
\* HTTP layer.
LEMMA PollKeeps ==
  ASSUME HInv, NEW m \in Managers, NEW gone \in SUBSET Owned(m), NEW polled, NEW idle,
         Poll(m, gone, polled, idle),
         \A c \in Owned(m) \ gone : /\ Sound(polled[c]) /\ polled[c].data
                                    /\ Sound(idle[c]) /\ idle[c].data
  PROVE  HInv'
<1> DEFINE stay == Owned(m) \ gone
           write == {c \in stay : polled[c].send # <<>>}
           read == {c \in stay : wire[c] # <<>>}
<1>1. /\ Pending(m) = {}
      /\ state' = [c \in Conns |-> IF c \in gone THEN "closed" ELSE state[c]]
      /\ wire' = [c \in Conns |-> IF c \in gone THEN <<>> ELSE wire[c]]
      /\ conn' = [c \in Conns |->
                   CASE c \in gone -> Fresh
                     [] c \in stay \ (read \cup write) -> idle[c]
                     [] c \in read \cup write -> polled[c]
                     [] OTHER -> conn[c]]
      /\ writable' = [c \in Conns |-> writable[c] \/ c \in write]
      /\ ready' = [c \in Conns |-> IF c \in read THEN "read" ELSE ready[c]]
      /\ asked' = [c \in Conns |-> IF c \in gone THEN <<>> ELSE asked[c]]
      /\ owner' = [c \in Conns |-> IF c \in gone THEN NoManager ELSE owner[c]]
      /\ UNCHANGED <<program, clients, backlog>>
  BY DEF Poll
<1>2. \A c \in Conns :
        /\ c \in gone => conn'[c] = Fresh
        /\ c \in stay => conn'[c] \in {idle[c], polled[c]}
        /\ c \notin Owned(m) => conn'[c] = conn[c]
  BY <1>1
<1>3. gone \subseteq Owned(m) /\ Owned(m) \subseteq Conns /\ m # NoManager
  BY ManagersAssumption DEF Owned
<1>4. \A c \in Owned(m) : ready[c] = "no" /\ ~writable[c] /\ owner[c] = m
  BY <1>1 DEF Pending, Owned
<1>5. read \subseteq stay /\ write \subseteq stay
  OBVIOUS
<1>6. conn' = [c \in Conns |-> conn'[c]]
  BY <1>1
<1> HIDE DEF stay, read, write
<1>7. <<>> \in Seq(Units) /\ <<>> \in Seq(Requests)
  BY EmptySeq
<1>8. Ranges'
  BY <1>1, <1>6, <1>7 DEF HInv, Ranges
<1>9. Managed'
  <2>1. \A i \in 1 .. Len(backlog) : backlog[i] \in Conns
    BY LenProperties, ElementOfSeq DEF HInv, Ranges
  <2>2. \A i \in 1 .. Len(backlog) : state'[backlog[i]] = "backlog"
    BY <1>1, <1>3, <1>4, <2>1 DEF HInv, Managed
  <2>3. ASSUME NEW c \in Conns
        PROVE  /\ owner'[c] # NoManager <=> state'[c] = "open"
               /\ owner'[c] = NoManager => ready'[c] = "no" /\ ~writable'[c]
    <3>1. CASE c \in gone
      BY <1>1, <1>3, <1>4, <1>5, <3>1 DEF stay
    <3>2. CASE c \notin gone
      <4>1. owner'[c] = owner[c] /\ state'[c] = state[c]
        BY <1>1, <3>2
      <4>2. owner[c] = NoManager => c \notin read /\ c \notin write
        BY <1>3, <1>4, <1>5 DEF stay
      <4> QED
        BY <1>1, <4>1, <4>2 DEF HInv, Managed
    <3> QED
      BY <3>1, <3>2
  <2> QED
    BY <1>1, <2>2, <2>3 DEF HInv, Managed
<1>10. Doomed'
  <2>1. ASSUME NEW c \in Conns, ~conn'[c].data
        PROVE  conn'[c].close /\ ready'[c] = "no" /\ ~writable'[c]
    <3>1. c \notin gone
      BY <1>2, <2>1 DEF Fresh
    <3>2. c \notin stay
      BY <1>2, <2>1 DEF stay
    <3>3. c \notin Owned(m)
      BY <3>1, <3>2 DEF stay
    <3> QED
      BY <1>1, <1>2, <1>5, <2>1, <3>2, <3>3 DEF HInv, Doomed
  <2> QED
    BY <2>1 DEF Doomed
<1>11. ASSUME NEW c \in Conns PROVE Sound(conn'[c])
  <2>1. Sound(Fresh)
    <3>1. /\ DOMAIN Fresh = Fields /\ ~Fresh.fault /\ Fresh.recv = <<>> /\ Fresh.request_len = 0
          /\ Fresh.num_bytes_recv = 0 /\ Fresh.user = FALSE
      BY DEF Fresh, Fields
    <3> QED
      BY <3>1, EmptySeq DEF Sound, Counted
  <2> QED
    BY <1>2, <2>1 DEF HInv, stay
<1> QED
  BY <1>1, <1>8, <1>9, <1>10, <1>11 DEF HInv, Sound, Counted

\* The head of the backlog is accepted, or another manager was faster.
LEMMA AcceptKeeps ==
  ASSUME HInv, NEW m \in Managers, Accept(m) PROVE HInv'
<1>1. CASE backlog = <<>> /\ UNCHANGED <<state, backlog, owner, conn>>
  <2>1. UNCHANGED <<client, wire, state, backlog, owner, conn, ready, writable>>
    BY <1>1 DEF Accept
  <2>2. Ranges'
    BY <2>1 DEF HInv, Ranges, client
  <2> QED
    BY <2>1, <2>2, KeptAlone DEF client
<1>2. CASE backlog # <<>>
  <2>1. PICK c \in Conns : c = backlog[1] /\ c = Head(backlog)
    <3>1. backlog \in Seq(Conns)
      BY DEF HInv, Ranges
    <3>2. Head(backlog) \in Conns /\ Head(backlog) = backlog[1]
      BY <1>2, <3>1, HeadTailProperties
    <3> QED
      BY <3>2
  <2>2. PICK memory \in BOOLEAN :
          conn' = [conn EXCEPT ![c] = [Fresh EXCEPT !.data = memory, !.close = ~memory]]
    BY <1>2, <2>1 DEF Accept
  <2>3. /\ backlog' = Tail(backlog)
        /\ state' = [state EXCEPT ![c] = "open"]
        /\ owner' = [owner EXCEPT ![c] = m]
        /\ UNCHANGED <<client, wire, ready, writable>>
    BY <1>2, <2>1 DEF Accept
  <2>4. /\ Len(backlog) \in Nat \ {0} /\ \A i \in 1 .. Len(backlog) : backlog[i] \in Conns
        /\ backlog' \in Seq(Conns) /\ Len(backlog') = Len(backlog) - 1
        /\ \A i \in 1 .. Len(backlog') : backlog'[i] = backlog[i + 1]
    BY <1>2, <2>3, EmptySeq, LenProperties, ElementOfSeq, HeadTailProperties DEF HInv, Ranges
  <2>5. state[c] = "backlog" /\ owner[c] = NoManager /\ ready[c] = "no" /\ ~writable[c]
    BY <2>1, <2>4 DEF HInv, Managed
  <2>6. \A i \in 1 .. Len(backlog') : i + 1 \in 1 .. Len(backlog) /\ i + 1 # 1
    BY <2>4
  <2>7. \A i \in 1 .. Len(backlog') : backlog'[i] \in Conns \ {c}
    BY <2>1, <2>4, <2>6 DEF HInv, Managed
  <2>8. Ranges'
    BY <2>2, <2>3, <2>4 DEF HInv, Ranges, client
  <2>9. \A i, j \in 1 .. Len(backlog') : backlog'[i] = backlog'[j] => i = j
    BY <2>4, <2>6 DEF HInv, Managed
  <2>10. \A i \in 1 .. Len(backlog') : state'[backlog'[i]] = "backlog"
    BY <2>3, <2>4, <2>6, <2>7 DEF HInv, Ranges, Managed
  <2>11. Managed'
    BY <2>3, <2>5, <2>9, <2>10, ManagersAssumption DEF HInv, Ranges, Managed
  <2> DEFINE k == [Fresh EXCEPT !.data = memory, !.close = ~memory]
  <2>12. /\ DOMAIN k = Fields /\ ~k.fault /\ k.recv = <<>> /\ k.request_len = 0
         /\ k.num_bytes_recv = 0 /\ k.user = FALSE /\ k.data = memory /\ k.close = ~memory
    BY DEF Fresh, Fields
  <2> HIDE DEF k
  <2>13. Sound(k)
    BY <2>12, EmptySeq DEF Sound, Counted
  <2>14. conn' = [conn EXCEPT ![c] = k]
    BY <2>2 DEF k
  <2>15. Doomed'
    BY <2>3, <2>5, <2>12, <2>14 DEF HInv, Ranges, Doomed
  <2>16. \A d \in Conns : Sound(conn'[d])
    BY <2>13, <2>14 DEF HInv, Ranges
  <2> QED
    BY <2>3, <2>8, <2>11, <2>15, <2>16 DEF HInv, Sound, Counted, client
<1> QED
  BY <1>1, <1>2 DEF Accept

\* An event for one connection that has something to read or to write.
LEMMA EventKeeps ==
  ASSUME HInv, NEW m \in Managers, NEW c \in Conns, Turn(m, c), NEW k,
         conn' = [conn EXCEPT ![c] = k], Sound(k), k.data = conn[c].data,
         wire' \in [Conns -> Seq(Units)], ready' \in [Conns -> {"no", "read", "more"}],
         writable' \in [Conns -> BOOLEAN],
         \A d \in Conns \ {c} : ready'[d] = ready[d] /\ writable'[d] = writable[d],
         UNCHANGED <<client, state, backlog, owner>>
  PROVE  HInv'
<1>1. owner[c] # NoManager /\ conn[c].data
  BY ManagersAssumption DEF HInv, Doomed, Turn, Pending, Owned
<1>2. Ranges'
  BY DEF HInv, Ranges, client
<1>3. Managed'
  BY <1>1 DEF HInv, Managed
<1>4. \A d \in Conns : conn'[d] = IF d = c THEN k ELSE conn[d]
  BY DEF HInv, Ranges
<1>5. Doomed'
  BY <1>1, <1>4 DEF HInv, Doomed
<1>6. \A d \in Conns : Sound(conn'[d])
  BY <1>4 DEF HInv
<1> QED
  BY <1>2, <1>3, <1>5, <1>6 DEF HInv, Sound, Counted, client

\* What is left on the wire when n units of it were read.
LEMMA WireLeft ==
  ASSUME HInv, NEW c \in Conns, NEW n \in 1 .. Len(wire[c]),
         wire' = [wire EXCEPT ![c] = After(@, n)]
  PROVE  wire' \in [Conns -> Seq(Units)]
<1>1. wire[c] \in Seq(Units) /\ n \in 0 .. Len(wire[c])
  BY LenProperties DEF HInv, Ranges
<1>2. After(wire[c], n) \in Seq(Units)
  BY <1>1, Parted
<1> QED
  BY <1>2 DEF HInv, Ranges

\* What is kept for a connection that has an event is known to the HTTP layer.
LEMMA EventSound ==
  ASSUME HInv, NEW m \in Managers, NEW c \in Conns, Turn(m, c)
  PROVE  Sound(conn[c]) /\ conn[c].data
BY DEF HInv, Doomed, Turn, Pending

\* The service reads.
LEMMA ServiceReadKeeps ==
  ASSUME HInv, program = "service", NEW m \in Managers, NEW c \in Conns, ServiceRead(m, c)
  PROVE  HInv'
<1>1. PICK n \in 1 .. Len(wire[c]) : Receive(c, n, ns_recv(Received(c, n), n))
  BY DEF ServiceRead
<1> DEFINE k == ns_recv(Received(c, n), n)
           u == Take(wire[c], n)
           b == [conn[c] EXCEPT !.recv = @ \o u]
           a == [b EXCEPT !.num_bytes_recv = @ + n]
<1>2. Sound(conn[c]) /\ conn[c].data /\ Turn(m, c)
  BY EventSound DEF ServiceRead
<1>3. u \in Seq(Units) /\ Len(u) = n
  <2>1. wire[c] \in Seq(Units) /\ n \in 0 .. Len(wire[c])
    BY LenProperties DEF HInv, Ranges
  <2> QED
    BY <2>1, Parted
<1> HIDE DEF u
<1>4. /\ DOMAIN b = Fields /\ b.data /\ ~b.fault /\ b.recv = conn[c].recv \o u
      /\ b.num_bytes_recv = conn[c].num_bytes_recv /\ b.request_len = conn[c].request_len
      /\ b.user = conn[c].user /\ b.data = conn[c].data
  BY <1>2 DEF Sound, Fields
<1>5. k = on_recv_data(a)
  BY <1>4 DEF ns_recv, Received, u
<1> HIDE DEF b, k
<1>6. /\ DOMAIN a = Fields /\ ~a.fault /\ a.recv = conn[c].recv \o u
      /\ a.num_bytes_recv = conn[c].num_bytes_recv + n /\ a.request_len = conn[c].request_len
      /\ a.user = conn[c].user /\ a.data = conn[c].data
  BY <1>4 DEF Fields
<1> HIDE DEF a
<1>7. Counted(a)
  <2>1. Counted(conn[c])
    BY <1>2 DEF Sound
  <2>2. conn[c].recv \in Seq(Units) /\ Len(conn[c].recv) \in Nat
    BY <2>1, LenProperties DEF Counted
  <2>3. conn[c].recv \o u \in Seq(Units) /\ Len(conn[c].recv \o u) = Len(conn[c].recv) + n
    BY <1>3, <2>2, ConcatProperties
  <2> QED
    BY <1>6, <2>1, <2>2, <2>3 DEF Counted
<1>8. Sound(k) /\ k.data = conn[c].data
  BY <1>5, <1>6, <1>7, OnRecv
<1>9. conn' = [conn EXCEPT ![c] = k] /\ wire' = [wire EXCEPT ![c] = After(@, n)]
  BY <1>1 DEF Receive, k
<1>10. wire' \in [Conns -> Seq(Units)]
  BY <1>9, WireLeft
<1>11. /\ ready' = [ready EXCEPT ![c] = "more"]
       /\ UNCHANGED <<client, state, backlog, owner, writable>>
  BY DEF ServiceRead
<1>12. /\ ready' \in [Conns -> {"no", "read", "more"}] /\ writable' \in [Conns -> BOOLEAN]
       /\ \A d \in Conns \ {c} : ready'[d] = ready[d] /\ writable'[d] = writable[d]
  BY <1>11 DEF HInv, Ranges
<1> QED
  BY <1>2, <1>8, <1>9, <1>10, <1>11, <1>12, EventKeeps

\* It finds nothing more to read, or the end.
LEMMA ServiceReadEndsKeeps ==
  ASSUME HInv, NEW m \in Managers, NEW c \in Conns, ServiceReadEnds(m, c)
  PROVE  HInv'
<1>1. /\ ready' = [ready EXCEPT ![c] = "no"] /\ wire' = wire
      /\ UNCHANGED <<client, state, backlog, owner, writable>>
  BY DEF ServiceReadEnds
<1>2. /\ ready' \in [Conns -> {"no", "read", "more"}] /\ writable' \in [Conns -> BOOLEAN]
      /\ wire' \in [Conns -> Seq(Units)]
      /\ \A d \in Conns \ {c} : ready'[d] = ready[d] /\ writable'[d] = writable[d]
  BY <1>1 DEF HInv, Ranges
<1>3. Sound(conn[c]) /\ conn[c].data /\ Turn(m, c)
  BY EventSound DEF ServiceReadEnds
<1> DEFINE k == [conn[c] EXCEPT !.close = TRUE]
<1>4. Sound(k) /\ k.data = conn[c].data
  BY <1>3 DEF Sound, Counted, Fields
<1>5. conn' = [conn EXCEPT ![c] = k] \/ conn' = [conn EXCEPT ![c] = conn[c]]
  BY DEF ServiceReadEnds, HInv, Ranges
<1> HIDE DEF k
<1>6. CASE conn' = [conn EXCEPT ![c] = k]
  BY <1>1, <1>2, <1>3, <1>4, <1>6, EventKeeps
<1>7. CASE conn' = [conn EXCEPT ![c] = conn[c]]
  BY <1>1, <1>2, <1>3, <1>7, EventKeeps
<1> QED
  BY <1>5, <1>6, <1>7

\* A manager writes; the handler leaves k of the connection.
LEMMA WriteKeeps ==
  ASSUME HInv, NEW m \in Managers, NEW c \in Conns, NEW n, NEW k, Write(m, c, n, k),
         Sound(k), k.data = conn[c].data
  PROVE  HInv'
<1>1. /\ conn' = [conn EXCEPT ![c] = k] /\ writable' = [writable EXCEPT ![c] = FALSE]
      /\ UNCHANGED <<client, wire, state, backlog, owner, ready>>
      /\ Turn(m, c)
  BY DEF Write
<1>2. /\ ready' \in [Conns -> {"no", "read", "more"}] /\ writable' \in [Conns -> BOOLEAN]
      /\ wire' \in [Conns -> Seq(Units)]
      /\ \A d \in Conns \ {c} : ready'[d] = ready[d] /\ writable'[d] = writable[d]
  BY <1>1 DEF HInv, Ranges
<1> QED
  BY <1>1, <1>2, EventKeeps

\* send takes parts away.
LEMMA SentSound ==
  ASSUME HInv, NEW c \in Conns, NEW n PROVE Sound(Sent(c, n)) /\ Sent(c, n).data = conn[c].data
BY DEF HInv, Sound, Counted, Sent, Fields

\* The RESTful server reads.
LEMMA RestReadKeeps ==
  ASSUME HInv, program = "rest", NEW m \in Managers, NEW c \in Conns, RestRead(m, c)
  PROVE  HInv'
<1>1. /\ ready' = [ready EXCEPT ![c] = "no"] /\ Turn(m, c)
      /\ UNCHANGED <<client, state, backlog, owner>>
  BY DEF RestRead
<1>2. Sound(conn[c])
  BY DEF HInv
<1>3. CASE /\ conn' = [conn EXCEPT ![c].close = TRUE]
           /\ writable' = [writable EXCEPT ![c] = FALSE] /\ wire' = wire
  <2> DEFINE k == [conn[c] EXCEPT !.close = TRUE]
  <2>1. Sound(k) /\ k.data = conn[c].data
    BY <1>2 DEF Sound, Counted, Fields
  <2>2. conn' = [conn EXCEPT ![c] = k]
    BY <1>3
  <2> HIDE DEF k
  <2>3. /\ ready' \in [Conns -> {"no", "read", "more"}] /\ writable' \in [Conns -> BOOLEAN]
        /\ wire' \in [Conns -> Seq(Units)]
        /\ \A d \in Conns \ {c} : ready'[d] = ready[d] /\ writable'[d] = writable[d]
    BY <1>1, <1>3 DEF HInv, Ranges
  <2> QED
    BY <1>1, <2>1, <2>2, <2>3, EventKeeps
<1>4. ASSUME NEW n \in 1 .. Len(wire[c]), Receive(c, n, http_handler(Received(c, n), "recv")),
             writable' = [writable EXCEPT ![c] = @ /\ ~http_handler(Received(c, n), "recv").close]
      PROVE  HInv'
  <2> DEFINE b == Received(c, n)
             k == http_handler(b, "recv")
  <2>1. DOMAIN b = Fields /\ b.data = conn[c].data /\ ~b.fault
    BY <1>2 DEF Received, Sound, Fields
  <2>2. conn' = [conn EXCEPT ![c] = k] /\ wire' = [wire EXCEPT ![c] = After(@, n)]
    BY <1>4 DEF Receive
  <2> HIDE DEF b
  <2>3. Same(k, b)
    BY <2>1, EventSame
  <2> HIDE DEF k
  <2>4. Sound(k) /\ k.data = conn[c].data
    BY <2>1, <2>3 DEF Same, Sound
  <2>5. wire' \in [Conns -> Seq(Units)]
    BY <2>2, WireLeft
  <2>6. /\ ready' \in [Conns -> {"no", "read", "more"}] /\ writable' \in [Conns -> BOOLEAN]
        /\ \A d \in Conns \ {c} : ready'[d] = ready[d] /\ writable'[d] = writable[d]
    BY <1>1, <1>4 DEF HInv, Ranges
  <2> QED
    BY <1>1, <2>2, <2>4, <2>5, <2>6, EventKeeps
<1> QED
  BY <1>3, <1>4 DEF RestRead

\* A poll of the service: what is idle for too long is freed and closed at once.
LEMMA ServicePollKeeps ==
  ASSUME HInv, NEW m \in Managers, ServicePoll(m) PROVE HInv'
<1> DEFINE reaped == {c \in Owned(m) : conn[c].close \/ (conn[c].finish /\ conn[c].send = <<>>)}
           polled == [c \in Owned(m) |-> Expire(c)]
           gone == reaped \cup {c \in Owned(m) : polled[c].close}
<1>1. Poll(m, gone, polled, polled) /\ gone \in SUBSET Owned(m)
  BY DEF ServicePoll
<1>2. ASSUME NEW c \in Owned(m) \ gone PROVE Sound(polled[c]) /\ polled[c].data
  <2>1. c \in Conns /\ polled[c] = Expire(c) /\ ~conn[c].close /\ ~Expire(c).close
    BY DEF Owned
  <2>2. Sound(conn[c]) /\ conn[c].data
    BY <2>1 DEF HInv, Doomed
  <2>3. Sound(close_local_endpoint(conn[c])) /\ close_local_endpoint(conn[c]).data
    BY <2>2, CloseLocal DEF Sound
  <2>4. CASE old[c]
    <3>1. Expire(c) = [close_local_endpoint(conn[c]) EXCEPT !.data = FALSE, !.close = TRUE]
      BY <2>2, <2>4 DEF Expire
    <3>2. Expire(c).close = TRUE
      BY <2>3, <3>1 DEF Sound, Fields
    <3> QED
      BY <2>1, <3>2
  <2>5. CASE ~old[c]
    BY <2>1, <2>2, <2>5 DEF Expire
  <2> QED
    BY <2>4, <2>5
<1> HIDE DEF gone, polled
<1> QED
  BY <1>1, <1>2, PollKeeps

\* A poll of the RESTful server: an idle connection goes on with its file.
LEMMA RestPollKeeps ==
  ASSUME HInv, program = "rest", NEW m \in Managers, RestPoll(m) PROVE HInv'
<1> DEFINE gone == {c \in Owned(m) : conn[c].close \/ (conn[c].finish /\ conn[c].send = <<>>)}
           idle == [c \in Owned(m) |-> http_handler(conn[c], "poll")]
<1>1. Poll(m, gone, conn, idle) /\ gone \in SUBSET Owned(m)
  BY DEF RestPoll
<1>2. ASSUME NEW c \in Owned(m) \ gone
      PROVE  Sound(conn[c]) /\ conn[c].data /\ Sound(idle[c]) /\ idle[c].data
  <2>1. c \in Conns /\ idle[c] = http_handler(conn[c], "poll") /\ ~conn[c].close
    BY DEF Owned
  <2>2. Sound(conn[c]) /\ conn[c].data
    BY <2>1 DEF HInv, Doomed
  <2>3. Same(http_handler(conn[c], "poll"), conn[c])
    BY <2>2, EventSame DEF Sound
  <2> QED
    BY <2>1, <2>2, <2>3 DEF Same, Sound
<1> HIDE DEF gone, idle
<1> QED
  BY <1>1, <1>2, PollKeeps

\* Nobody has connected yet.
LEMMA InitHInv == Init => HInv
<1> SUFFICES ASSUME Init PROVE HInv
  OBVIOUS
<1>1. Ranges
  BY EmptySeq DEF Init, InitConnections, Ranges
<1>2. Managed
  BY EmptySeq, ManagersAssumption DEF Init, InitConnections, Managed
<1>3. /\ DOMAIN Fresh = Fields /\ ~Fresh.fault /\ Fresh.recv = <<>> /\ Fresh.request_len = 0
      /\ Fresh.num_bytes_recv = 0 /\ Fresh.user = FALSE /\ Fresh.data
  BY DEF Fresh, Fields
<1>4. Sound(Fresh)
  BY <1>3, EmptySeq DEF Sound, Counted
<1>5. \A c \in Conns : conn[c] = Fresh
  BY DEF Init, InitConnections
<1> QED
  BY <1>1, <1>2, <1>3, <1>4, <1>5 DEF HInv, Doomed

\* Every step keeps the invariant.
LEMMA StepHInv == HInv /\ [Next]_vars => HInv'
<1> SUFFICES ASSUME HInv, [Next]_vars PROVE HInv'
  OBVIOUS
<1>1. CASE UNCHANGED vars
  BY <1>1 DEF vars, HInv, Ranges, Managed, Doomed, Sound, Counted
<1>2. ASSUME NEW c \in Conns, Client(c) \/ Age(c) PROVE HInv'
  BY <1>2, ClientKeeps, AgeKeeps
<1>3. ASSUME NEW m \in Polling, Step(m) PROVE HInv'
  <2>1. m \in Managers
    BY OnlyAssumption DEF Polling
  <2>2. CASE program = "service"
    <3>1. ServiceStep(m)
      BY <1>3, <2>2 DEF Step
    <3>2. CASE ServicePoll(m) \/ Accept(m)
      BY <2>1, <3>2, ServicePollKeeps, AcceptKeeps
    <3>3. ASSUME NEW c \in Conns, ServiceRead(m, c) \/ ServiceReadEnds(m, c) PROVE HInv'
      BY <2>1, <2>2, <3>3, ServiceReadKeeps, ServiceReadEndsKeeps
    <3>4. ASSUME NEW c \in Conns, NEW n \in 1 .. Len(conn[c].send), Write(m, c, n, Sent(c, n))
          PROVE  HInv'
      BY <2>1, <3>4, SentSound, WriteKeeps
    <3> QED
      BY <3>1, <3>2, <3>3, <3>4 DEF ServiceStep
  <2>3. CASE program # "service"
    <3>1. RestStep(m) /\ program = "rest"
      BY <1>3, <2>3 DEF Step, HInv, Ranges
    <3>2. CASE RestPoll(m) \/ Accept(m)
      BY <2>1, <3>1, <3>2, RestPollKeeps, AcceptKeeps
    <3>3. ASSUME NEW c \in Conns, RestRead(m, c) PROVE HInv'
      BY <2>1, <3>1, <3>3, RestReadKeeps
    <3>4. ASSUME NEW c \in Conns, NEW n \in 1 .. Len(conn[c].send),
                 Write(m, c, n, http_handler(Sent(c, n), "send"))
          PROVE  HInv'
      <4>1. Sound(Sent(c, n)) /\ Sent(c, n).data = conn[c].data
        BY SentSound
      <4>2. Same(http_handler(Sent(c, n), "send"), Sent(c, n))
        BY <4>1, EventSame DEF Sound
      <4>3. /\ Sound(http_handler(Sent(c, n), "send"))
            /\ http_handler(Sent(c, n), "send").data = conn[c].data
        BY <3>1, <4>1, <4>2 DEF Same, Sound
      <4> QED
        BY <2>1, <3>4, <4>3, WriteKeeps
    <3> QED
      BY <3>1, <3>2, <3>3, <3>4 DEF RestStep
  <2> QED
    BY <2>2, <2>3
<1> QED
  BY <1>1, <1>2, <1>3 DEF Next

\* The invariant of both servers, whatever the clients do.
THEOREM Invariance == Spec => []HInv
BY InitHInv, StepHInv, PTL DEF Spec

\* No event reaches the HTTP layer for a connection that it has freed, or for which
\* it had no memory: such a connection is in neither set of select, and closed by
\* the next poll of its manager.
THEOREM NoEventOnFreed == Spec => []NoFreedConnection
<1>1. HInv => NoFreedConnection
  BY DEF HInv, Sound, NoFreedConnection
<1> QED
  BY <1>1, Invariance, PTL

\* The number of bytes that decides whether a body has come is that of the head that
\* was taken out and of the buffer, however the bytes were cut and whatever was
\* refused, answered or given up before.
THEOREM BytesAreCounted == Spec => []BytesCounted
<1>1. HInv => BytesCounted
  BY DEF HInv, Sound, Counted, BytesCounted
<1> QED
  BY <1>1, Invariance, PTL

-----------------------------------------------------------------------------
(* Sequences.                                                              *)

\* A part of a sequence and what follows it.
LEMMA TakeAfter ==
  ASSUME NEW S, NEW s \in Seq(S), NEW n \in 0 .. Len(s)
  PROVE  /\ Take(s, n) \o After(s, n) = s
         /\ \A i \in 1 .. n : Take(s, n)[i] = s[i]
         /\ \A i \in 1 .. Len(s) - n : After(s, n)[i] = s[n + i]
<1>1. Len(s) \in Nat /\ \A i \in 1 .. Len(s) : s[i] \in S
  BY LenProperties, ElementOfSeq
<1>2. \A i \in 1 .. n - 1 + 1 : Take(s, n)[i] = s[1 + i - 1]
  BY <1>1, SubSeqProperties DEF Take
<1>3. \A i \in 1 .. Len(s) - (n + 1) + 1 : After(s, n)[i] = s[n + 1 + i - 1]
  <2>1. \A i \in n + 1 .. Len(s) : s[i] \in S
    BY <1>1
  <2> QED
    BY <1>1, <2>1, SubSeqProperties DEF After
<1>4. Take(s, n) \o After(s, n) = SubSeq(s, 1, Len(s))
  <2>1. 1 \in 1 .. Len(s) + 1 /\ n \in 1 - 1 .. Len(s) /\ Len(s) \in n .. Len(s)
    BY <1>1
  <2> QED
    BY <2>1, ConcatAdjacentSubSeq DEF Take, After
<1> QED
  BY <1>1, <1>2, <1>3, <1>4, SubSeqFull

\* Units move from the front of t to the end of s.
LEMMA Regroup ==
  ASSUME NEW S, NEW s \in Seq(S), NEW t \in Seq(S), NEW n \in 0 .. Len(t)
  PROVE  (s \o Take(t, n)) \o After(t, n) = s \o t
<1> DEFINE a == Take(t, n)
           b == After(t, n)
<1>1. a \in Seq(S) /\ b \in Seq(S)
  BY Parted
<1>2. a \o b = t
  BY TakeAfter
<1> HIDE DEF a, b
<1>3. (s \o a) \o b = s \o (a \o b)
  BY <1>1, ConcatAssociative
<1>4. (s \o a) \o b = s \o t
  BY <1>2, <1>3
<1> QED
  BY <1>4 DEF a, b

\* What follows n units of s, before t.
LEMMA AfterConcat ==
  ASSUME NEW S, NEW s \in Seq(S), NEW t \in Seq(S), NEW n \in 0 .. Len(s)
  PROVE  After(s \o t, n) = After(s, n) \o t
<1> DEFINE u == s \o t
           v == After(u, n)
           x == After(s, n)
<1>1. /\ u \in Seq(S) /\ Len(u) = Len(s) + Len(t) /\ Len(s) \in Nat /\ Len(t) \in Nat
      /\ \A i \in 1 .. Len(s) + Len(t) : u[i] = IF i <= Len(s) THEN s[i] ELSE t[i - Len(s)]
  BY ConcatProperties, LenProperties
<1> HIDE DEF u
<1>2. n \in 0 .. Len(u)
  BY <1>1
<1>3. v \in Seq(S) /\ Len(v) = Len(u) - n
  BY <1>1, <1>2, Parted
<1>4. \A i \in 1 .. Len(u) - n : v[i] = u[n + i]
  BY <1>1, <1>2, TakeAfter
<1>5. x \in Seq(S) /\ Len(x) = Len(s) - n
  BY Parted
<1>6. \A i \in 1 .. Len(s) - n : x[i] = s[n + i]
  BY TakeAfter
<1> HIDE DEF v, x
<1>7. /\ x \o t \in Seq(S) /\ Len(x \o t) = Len(x) + Len(t)
      /\ \A i \in 1 .. Len(x) + Len(t) :
           (x \o t)[i] = IF i <= Len(x) THEN x[i] ELSE t[i - Len(x)]
  BY <1>5, ConcatProperties
<1>8. ASSUME NEW i \in 1 .. Len(v) PROVE v[i] = (x \o t)[i]
  <2>1. i \in 1 .. Len(u) - n /\ i \in 1 .. Len(x) + Len(t) /\ n + i \in 1 .. Len(s) + Len(t)
    BY <1>1, <1>3, <1>5
  <2>2. v[i] = u[n + i]
    BY <1>4, <2>1
  <2>3. CASE n + i <= Len(s)
    <3>1. i <= Len(x) /\ i \in 1 .. Len(s) - n
      BY <1>1, <1>5, <2>1, <2>3
    <3>2. u[n + i] = s[n + i]
      BY <1>1, <2>1, <2>3
    <3>3. (x \o t)[i] = x[i]
      BY <1>7, <2>1, <3>1
    <3> QED
      BY <1>6, <2>2, <3>1, <3>2, <3>3
  <2>4. CASE ~(n + i <= Len(s))
    <3>1. ~(i <= Len(x)) /\ n + i - Len(s) = i - Len(x)
      BY <1>1, <1>5, <2>1, <2>4
    <3>2. u[n + i] = t[n + i - Len(s)]
      BY <1>1, <2>1, <2>4
    <3>3. (x \o t)[i] = t[i - Len(x)]
      BY <1>7, <2>1, <3>1
    <3> QED
      BY <2>2, <3>1, <3>2, <3>3
  <2> QED
    BY <2>3, <2>4
<1>9. Len(v) = Len(x \o t)
  BY <1>1, <1>3, <1>5, <1>7
<1>10. v = x \o t
  BY <1>3, <1>7, <1>8, <1>9, SeqEqual
<1> QED
  BY <1>10 DEF u, v, x

\* What comes first of a sequence that two others make up.
LEMMA PrefixOf ==
  ASSUME NEW S, NEW s \in Seq(S), NEW t \in Seq(S)
  PROVE  IsPrefix(s, s \o t)
<1>1. Len(s) \in Nat /\ Len(t) \in Nat /\ Len(s \o t) = Len(s) + Len(t) /\ s \o t \in Seq(S)
  BY LenProperties, ConcatProperties
<1>2. SubSeq(s \o t, 1, Len(s)) = SubSeq(s, 1, Len(s))
  <2>1. CASE Len(s) = 0
    BY <2>1, SubSeqEmpty
  <2>2. CASE Len(s) > 0
    <3>1. 1 \in 1 .. Len(s) /\ Len(s) \in 1 .. Len(s)
      BY <1>1, <2>2
    <3> QED
      BY <3>1, SubSeqOfConcat1
  <2> QED
    BY <1>1, <2>1, <2>2
<1> QED
  BY <1>1, <1>2 DEF IsPrefix

-----------------------------------------------------------------------------
(* The answers that are owed.                                              *)

\* f[i] is the concatenation of the first i sequences of s.
Sums(s, S) ==
  {f \in [1 .. Len(s) -> Seq(S)] :
     \A i \in 1 .. Len(s) : f[i] = IF i = 1 THEN s[i] ELSE f[i - 1] \o s[i]}

\* There are such concatenations: the least number of sequences without them would be
\* one more than a number with.
LEMMA SumsExist == ASSUME NEW S, NEW s \in Seq(Seq(S)) PROVE Sums(s, S) # {}
<1> DEFINE G(m) == {f \in [1 .. m -> Seq(S)] :
                      \A i \in 1 .. m : f[i] = IF i = 1 THEN s[i] ELSE f[i - 1] \o s[i]}
           Bad == {m \in 0 .. Len(s) : G(m) = {}}
<1>1. Len(s) \in Nat /\ \A i \in 1 .. Len(s) : s[i] \in Seq(S)
  BY LenProperties, ElementOfSeq
<1>2. CASE Bad = {}
  <2>1. Len(s) \in 0 .. Len(s)
    BY <1>1
  <2> HIDE DEF G
  <2>2. G(Len(s)) # {}
    BY <1>2, <2>1
  <2> QED
    BY <2>2 DEF G, Sums
<1>3. CASE Bad # {}
  <2> DEFINE m == Min(Bad)
  <2>1. Bad \in SUBSET Nat
    BY <1>1
  <2>2. m \in Bad /\ \A y \in Bad : m <= y
    BY <1>3, <2>1, MinOf
  <2> HIDE DEF m
  <2>3. m \in 0 .. Len(s) /\ G(m) = {}
    BY <2>2
  <2>4. m # 0
    <3>1. CASE m = 0
      <4> DEFINE f == [i \in 1 .. 0 |-> <<>>]
      <4>1. f \in G(0)
        OBVIOUS
      <4> QED
        BY <2>3, <3>1, <4>1
    <3> QED
      BY <3>1
  <2>5. m - 1 \in 0 .. Len(s) /\ ~(m <= m - 1)
    BY <1>1, <2>3, <2>4
  <2>6. m - 1 \notin Bad
    BY <2>2, <2>5
  <2>7. PICK f \in [1 .. m - 1 -> Seq(S)] :
          \A i \in 1 .. m - 1 : f[i] = IF i = 1 THEN s[i] ELSE f[i - 1] \o s[i]
    BY <2>5, <2>6
  <2> DEFINE last == IF m = 1 THEN s[m] ELSE f[m - 1] \o s[m]
             g == [i \in 1 .. m |-> IF i = m THEN last ELSE f[i]]
  <2>8. last \in Seq(S)
    <3>1. s[m] \in Seq(S)
      BY <1>1, <2>3, <2>4
    <3>2. CASE m # 1
      <4>1. f[m - 1] \in Seq(S)
        BY <2>3, <2>4, <3>2
      <4> QED
        BY <3>1, <3>2, <4>1, ConcatProperties
    <3> QED
      BY <3>1, <3>2
  <2> HIDE DEF last
  <2>9. g \in [1 .. m -> Seq(S)]
    BY <2>3, <2>8
  <2>10. ASSUME NEW i \in 1 .. m
         PROVE  g[i] = IF i = 1 THEN s[i] ELSE g[i - 1] \o s[i]
    <3>1. CASE i = m
      <4>1. m # 1 => g[m - 1] = f[m - 1]
        BY <2>3, <2>4
      <4> QED
        BY <2>3, <2>4, <3>1, <4>1 DEF last
    <3>2. CASE i # m
      <4>1. i \in 1 .. m - 1 /\ g[i] = f[i]
        BY <2>3, <3>2
      <4>2. i # 1 => i - 1 \in 1 .. m /\ i - 1 # m
        BY <2>3, <4>1
      <4>3. i # 1 => g[i - 1] = f[i - 1]
        BY <4>2
      <4> QED
        BY <2>7, <4>1, <4>3
    <3> QED
      BY <3>1, <3>2
  <2>11. g \in G(m)
    BY <2>9, <2>10
  <2> QED
    BY <2>3, <2>11
<1> QED
  BY <1>2, <1>3

\* They are what FlattenSeq is.
LEMMA SumsFlatten ==
  ASSUME NEW S, NEW s \in Seq(Seq(S)), NEW f \in Sums(s, S)
  PROVE  FlattenSeq(s) = IF s = <<>> THEN <<>> ELSE f[Len(s)]
<1> DEFINE Eq(g) == g = [i \in 1 .. Len(s) |-> IF i = 1 THEN s[i] ELSE g[i - 1] \o s[i]]
           g == CHOOSE h : Eq(h)
<1>1. Len(s) \in Nat /\ (s # <<>> => Len(s) # 0)
  BY LenProperties, EmptySeq
<1>2. CASE s = <<>>
  BY <1>2, EmptySeq DEF FlattenSeq
<1>3. CASE s # <<>>
  <2>1. FlattenSeq(s) = g[Len(s)]
    BY <1>1, <1>3 DEF FlattenSeq
  <2>2. Eq(f)
    BY DEF Sums
  <2>3. Eq(g)
    BY <2>2
  <2> HIDE DEF g
  <2>4. \A i \in 1 .. Len(s) : /\ f[i] = IF i = 1 THEN s[i] ELSE f[i - 1] \o s[i]
                              /\ g[i] = IF i = 1 THEN s[i] ELSE g[i - 1] \o s[i]
    BY <2>3 DEF Sums
  <2> DEFINE Bad == {i \in 1 .. Len(s) : f[i] # g[i]}
  <2>5. Bad = {}
    <3> SUFFICES ASSUME Bad # {} PROVE FALSE
      OBVIOUS
    <3> DEFINE m == Min(Bad)
    <3>1. Bad \in SUBSET Nat
      BY <1>1
    <3>2. m \in Bad /\ \A y \in Bad : m <= y
      BY <3>1, MinOf
    <3> HIDE DEF m
    <3>3. m \in 1 .. Len(s) /\ f[m] # g[m]
      BY <3>2
    <3>4. m # 1
      BY <2>4, <3>3
    <3>5. m - 1 \in 1 .. Len(s) /\ ~(m <= m - 1)
      BY <3>3, <3>4
    <3>6. f[m - 1] = g[m - 1]
      BY <3>2, <3>5
    <3> QED
      BY <2>4, <3>3, <3>6
  <2>6. f[Len(s)] = g[Len(s)]
    <3>1. Len(s) \in 1 .. Len(s)
      BY <1>1, <1>3
    <3> QED
      BY <2>5, <3>1
  <2> QED
    BY <1>3, <2>1, <2>6
<1> QED
  BY <1>2, <1>3

\* The concatenation of some sequences, and one more.
LEMMA FlattenOne ==
  ASSUME NEW S, NEW s \in Seq(Seq(S)), NEW e \in Seq(S)
  PROVE  /\ FlattenSeq(s) \in Seq(S)
         /\ FlattenSeq(Append(s, e)) = FlattenSeq(s) \o e
<1> DEFINE t == Append(s, e)
<1>1. /\ Len(s) \in Nat /\ t \in Seq(Seq(S)) /\ t # <<>> /\ Len(t) = Len(s) + 1
      /\ \A i \in 1 .. Len(s) : t[i] = s[i]
      /\ t[Len(s) + 1] = e
  BY LenProperties, AppendProperties
<1>2. s # <<>> <=> Len(s) # 0
  BY EmptySeq
<1> HIDE DEF t
<1>3. PICK f \in Sums(t, S) : TRUE
  BY <1>1, SumsExist
<1> DEFINE g == [i \in 1 .. Len(s) |-> f[i]]
<1>4. /\ f \in [1 .. Len(s) + 1 -> Seq(S)]
      /\ \A i \in 1 .. Len(s) + 1 : f[i] = IF i = 1 THEN t[i] ELSE f[i - 1] \o t[i]
  BY <1>1 DEF Sums
<1>5. g \in Sums(s, S)
  <2>1. g \in [1 .. Len(s) -> Seq(S)]
    BY <1>1, <1>4
  <2>2. ASSUME NEW i \in 1 .. Len(s) PROVE g[i] = IF i = 1 THEN s[i] ELSE g[i - 1] \o s[i]
    <3>1. i \in 1 .. Len(s) + 1 /\ g[i] = f[i] /\ t[i] = s[i]
      BY <1>1
    <3>2. i # 1 => g[i - 1] = f[i - 1]
      BY <1>1
    <3> QED
      BY <1>4, <3>1, <3>2
  <2> QED
    BY <2>1, <2>2 DEF Sums
<1>6. FlattenSeq(t) = f[Len(s) + 1]
  BY <1>1, <1>3, SumsFlatten
<1>7. FlattenSeq(s) = IF s = <<>> THEN <<>> ELSE g[Len(s)]
  BY <1>5, SumsFlatten
<1>8. CASE s = <<>>
  <2>1. f[1] = e
    BY <1>1, <1>2, <1>4, <1>8
  <2>2. FlattenSeq(t) = e /\ FlattenSeq(s) = <<>>
    BY <1>2, <1>6, <1>7, <1>8, <2>1
  <2> QED
    BY <2>2, EmptySeq, ConcatEmptySeq DEF t
<1>9. CASE s # <<>>
  <2>1. Len(s) \in 1 .. Len(s) /\ Len(s) + 1 \in 1 .. Len(s) + 1 /\ Len(s) + 1 # 1
    BY <1>1, <1>2, <1>9
  <2>2. FlattenSeq(s) = f[Len(s)]
    BY <1>7, <1>9, <2>1
  <2>3. PICK j \in 1 .. Len(s) + 1 : j = Len(s) + 1
    BY <2>1
  <2>4. f[j] = f[Len(s)] \o t[j]
    <3>1. f[j] = IF j = 1 THEN t[j] ELSE f[j - 1] \o t[j]
      BY <1>4, <2>3
    <3>2. j - 1 = Len(s) /\ j # 1
      BY <1>1, <2>1, <2>3
    <3> QED
      BY <3>1, <3>2
  <2>5. f[Len(s)] \in Seq(S)
    BY <1>4, <2>1
  <2> QED
    BY <1>1, <1>6, <2>2, <2>3, <2>4, <2>5 DEF t
<1> QED
  BY <1>8, <1>9

\* The parts of answers, and all that a client is owed for its requests.
AnswerParts == [n : Nat, part : {"start", "middle", "end"}, of : Seq(Units)]
Owed(a) == FlattenSeq([n \in DOMAIN a |-> Answer(a[n])])

\* The text a request is about is made of units.
LEMMA BodyUnits ==
  ASSUME NEW r \in Requests
  PROVE  Body(r) \in Seq(Units) /\ Len(Body(r)) = r.kind.body /\ Text(r) \in Seq(Units)
<1> DEFINE both == <<Unit(r, "body"), Unit(r, "more")>>
<1>1. Unit(r, "body") \in Units /\ Unit(r, "more") \in Units /\ Unit(r, "head") \in Units
  BY DEF Units
<1>2. r.kind.body \in 0 .. 2
  BY DEF Requests, Kinds
<1>3. \A i \in 1 .. r.kind.body : both[i] \in Units
  BY <1>1, <1>2
<1> HIDE DEF both
<1>4. /\ SubSeq(both, 1, r.kind.body) \in Seq(Units)
      /\ Len(SubSeq(both, 1, r.kind.body)) = IF 1 <= r.kind.body THEN r.kind.body - 1 + 1 ELSE 0
  BY <1>2, <1>3, SubSeqProperties
<1>5. Body(r) \in Seq(Units) /\ Len(Body(r)) = r.kind.body
  BY <1>2, <1>4 DEF Body, both
<1>6. <<Unit(r, "head")>> \in Seq(Units)
  BY <1>1
<1> QED
  BY <1>5, <1>6 DEF Text

\* The parts of one answer.
LEMMA AnswerIs ==
  ASSUME NEW r \in Requests, NEW text \in Seq(Units)
  PROVE  /\ AnswerAbout(r, text) \in Seq(AnswerParts)
         /\ Len(AnswerAbout(r, text)) = IF r.kind.page = "file" THEN 3 ELSE 2
         /\ \A i \in 1 .. Len(AnswerAbout(r, text)) : AnswerAbout(r, text)[i].n = r.n
<1> DEFINE parts == IF r.kind.page = "file" THEN <<"start", "middle", "end">> ELSE <<"start", "end">>
           e(i) == [n |-> r.n, part |-> parts[i], of |-> text]
           len == IF r.kind.page = "file" THEN 3 ELSE 2
<1>1. DOMAIN parts = 1 .. len /\ \A i \in 1 .. len : parts[i] \in {"start", "middle", "end"}
  <2>1. CASE r.kind.page = "file"
    BY <2>1
  <2>2. CASE r.kind.page # "file"
    BY <2>2
  <2> QED
    BY <2>1, <2>2
<1>2. AnswerAbout(r, text) = [i \in 1 .. len |-> e(i)]
  BY <1>1 DEF AnswerAbout
<1>3. r.n \in Nat /\ len \in Nat
  BY DEF Requests
<1>4. \A i \in 1 .. len : e(i) \in AnswerParts
  BY <1>1, <1>3 DEF AnswerParts
<1>5. \A i \in 1 .. len : e(i).n = r.n
  OBVIOUS
<1> HIDE DEF e, len
<1>6. [i \in 1 .. len |-> e(i)] \in [1 .. len -> AnswerParts]
  BY <1>4
<1>7. [i \in 1 .. len |-> e(i)] \in Seq(AnswerParts)
  BY <1>3, <1>6
<1>8. Len(AnswerAbout(r, text)) = len
  BY <1>2, <1>3, <1>7
<1> QED
  BY <1>2, <1>5, <1>7, <1>8 DEF len

\* What is owed when there is one request more.
LEMMA OwedOne ==
  ASSUME NEW a \in Seq(Requests), NEW r \in Requests
  PROVE  Owed(a) \in Seq(AnswerParts) /\ Owed(Append(a, r)) = Owed(a) \o Answer(r)
<1> DEFINE F(b) == [n \in DOMAIN b |-> Answer(b[n])]
           b == Append(a, r)
<1>1. \A q \in Requests : Answer(q) \in Seq(AnswerParts)
  BY BodyUnits, AnswerIs DEF Answer
<1>2. /\ Len(a) \in Nat /\ DOMAIN a = 1 .. Len(a) /\ \A n \in 1 .. Len(a) : a[n] \in Requests
      /\ b \in Seq(Requests) /\ DOMAIN b = 1 .. Len(a) + 1
      /\ \A n \in 1 .. Len(a) : b[n] = a[n]
      /\ b[Len(a) + 1] = r
  <2>1. b \in Seq(Requests) /\ Len(b) = Len(a) + 1
    BY AppendProperties
  <2> QED
    BY <2>1, LenProperties, ElementOfSeq, AppendProperties
<1> HIDE DEF b
<1>3. F(a) \in [1 .. Len(a) -> Seq(AnswerParts)]
  BY <1>1, <1>2
<1>4. F(a) \in Seq(Seq(AnswerParts)) /\ Len(F(a)) = Len(a)
  BY <1>2, <1>3
<1>5. F(b) \in [1 .. Len(a) + 1 -> Seq(AnswerParts)]
  <2>1. \A n \in 1 .. Len(a) + 1 : b[n] \in Requests
    BY <1>2
  <2> QED
    BY <1>1, <1>2, <2>1
<1>6. F(b) \in Seq(Seq(AnswerParts)) /\ Len(F(b)) = Len(a) + 1
  BY <1>2, <1>5
<1>7. \A n \in 1 .. Len(a) : F(b)[n] = F(a)[n]
  BY <1>2
<1>8. F(b)[Len(a) + 1] = Answer(r)
  <2>1. Len(a) + 1 \in DOMAIN b
    BY <1>2
  <2> QED
    BY <1>2, <2>1
<1>9. Owed(a) = FlattenSeq(F(a)) /\ Owed(b) = FlattenSeq(F(b))
  BY DEF Owed
<1> HIDE DEF F
<1> DEFINE c == Append(F(a), Answer(r))
<1>10. /\ c \in Seq(Seq(AnswerParts)) /\ Len(c) = Len(a) + 1
       /\ \A n \in 1 .. Len(a) : c[n] = F(a)[n]
       /\ c[Len(a) + 1] = Answer(r)
  BY <1>1, <1>4, AppendProperties
<1> HIDE DEF c
<1>11. ASSUME NEW n \in 1 .. Len(a) + 1 PROVE F(b)[n] = c[n]
  <2>1. n \in 1 .. Len(a) \/ n = Len(a) + 1
    BY <1>2
  <2> QED
    BY <1>7, <1>8, <1>10, <2>1
<1>12. F(b) = c
  BY <1>6, <1>10, <1>11, SeqEqual
<1>13. Answer(r) \in Seq(AnswerParts)
  BY <1>1
<1>14. FlattenSeq(F(a)) \in Seq(AnswerParts) /\ FlattenSeq(c) = FlattenSeq(F(a)) \o Answer(r)
  BY <1>4, <1>13, FlattenOne DEF c
<1> QED
  BY <1>9, <1>12, <1>14 DEF b

\* Nobody asked, nothing is owed.
LEMMA OwedNothing == Owed(<<>>) = <<>>
<1>1. [n \in DOMAIN <<>> |-> Answer(<<>>[n])] = <<>>
  OBVIOUS
<1> QED
  BY <1>1 DEF Owed, FlattenSeq

-----------------------------------------------------------------------------
(* Which answers have come, told from the numbers of the parts.            *)

\* The parts for request n.
For(s, n) == {i \in DOMAIN s : s[i].n = n}

\* The requests have their numbers, and so have the parts that are owed for them.
Numbered(a) ==
  /\ \A n \in DOMAIN a :
       a[n].n = n /\ Cardinality(For(Owed(a), n)) = Len(Answer(a[n]))
  /\ \A i \in DOMAIN Owed(a) : Owed(a)[i].n \in DOMAIN a
  /\ a # <<>> => Owed(a) # <<>> /\ Owed(a)[Len(Owed(a))].n = Len(a)

\* The next request is numbered too.
LEMMA NumberedOne ==
  ASSUME NEW a \in Seq(Requests), Numbered(a), NEW r \in Requests, r.n = Len(a) + 1
  PROVE  Numbered(Append(a, r))
<1> DEFINE b == Append(a, r)
           E == Owed(a)
           F == Owed(b)
           A == Answer(r)
<1>1. E \in Seq(AnswerParts) /\ F = E \o A
  BY OwedOne
<1>2. /\ A \in Seq(AnswerParts) /\ Len(A) \in Nat /\ Len(A) > 0
      /\ \A i \in 1 .. Len(A) : A[i].n = r.n
  <2> DEFINE B == AnswerAbout(r, Text(r))
  <2>1. Text(r) \in Seq(Units) /\ A = B
    BY BodyUnits DEF Answer
  <2>2. /\ B \in Seq(AnswerParts) /\ Len(B) = IF r.kind.page = "file" THEN 3 ELSE 2
        /\ \A i \in 1 .. Len(B) : B[i].n = r.n
    BY <2>1, AnswerIs
  <2> HIDE DEF A, B
  <2> QED
    BY <2>1, <2>2
<1>3. /\ Len(a) \in Nat /\ DOMAIN a = 1 .. Len(a)
      /\ b # <<>> /\ DOMAIN b = 1 .. Len(a) + 1 /\ Len(b) = Len(a) + 1
      /\ \A n \in 1 .. Len(a) : b[n] = a[n]
      /\ b[Len(a) + 1] = r
  <2>1. b \in Seq(Requests) /\ Len(b) = Len(a) + 1
    BY AppendProperties
  <2> QED
    BY <2>1, LenProperties, AppendProperties
<1>4. /\ Len(E) \in Nat /\ DOMAIN E = 1 .. Len(E)
      /\ F \in Seq(AnswerParts) /\ Len(F) = Len(E) + Len(A)
      /\ \A i \in 1 .. Len(E) + Len(A) : F[i] = IF i <= Len(E) THEN E[i] ELSE A[i - Len(E)]
  BY <1>1, <1>2, LenProperties, ConcatProperties
<1>5. DOMAIN F = 1 .. Len(E) + Len(A)
  BY <1>4, LenProperties
<1>6. \A n \in DOMAIN a : a[n].n = n /\ Cardinality(For(E, n)) = Len(Answer(a[n]))
  BY DEF Numbered
<1>7. \A i \in DOMAIN E : E[i].n \in DOMAIN a
  BY DEF Numbered
<1> HIDE DEF b, E, F, A
<1>16. Len(E) \in Nat /\ Len(A) \in Nat /\ Len(A) > 0 /\ Len(F) = Len(E) + Len(A)
  BY <1>2, <1>4
<1>8. \A i \in 1 .. Len(E) : F[i] = E[i]
  BY <1>2, <1>4
<1>9. \A i \in Len(E) + 1 .. Len(E) + Len(A) : F[i].n = Len(a) + 1
  <2>1. ASSUME NEW i \in Len(E) + 1 .. Len(E) + Len(A) PROVE F[i].n = Len(a) + 1
    <3>1. i \in 1 .. Len(E) + Len(A) /\ ~(i <= Len(E)) /\ i - Len(E) \in 1 .. Len(A)
      BY <1>2, <1>4
    <3>2. F[i] = A[i - Len(E)]
      BY <1>4, <3>1
    <3> QED
      BY <1>2, <3>1, <3>2
  <2> QED
    BY <2>1
<1>10. ASSUME NEW n \in 1 .. Len(a) PROVE For(F, n) = For(E, n)
  <2>1. ASSUME NEW i \in For(F, n) PROVE i \in For(E, n)
    <3>1. i \in 1 .. Len(E) + Len(A) /\ F[i].n = n /\ n # Len(a) + 1
      BY <1>3, <1>5 DEF For
    <3>2. i \in 1 .. Len(E)
      BY <1>9, <1>16, <3>1
    <3> QED
      BY <1>4, <1>8, <3>1, <3>2 DEF For
  <2>2. \A i \in For(E, n) : i \in For(F, n)
    BY <1>2, <1>4, <1>5, <1>8 DEF For
  <2> QED
    BY <2>1, <2>2
<1>11. For(F, Len(a) + 1) = Len(E) + 1 .. Len(E) + Len(A)
  <2>1. \A i \in For(F, Len(a) + 1) : i \in Len(E) + 1 .. Len(E) + Len(A)
    BY <1>2, <1>3, <1>4, <1>5, <1>7, <1>8 DEF For
  <2>2. \A i \in Len(E) + 1 .. Len(E) + Len(A) : i \in For(F, Len(a) + 1)
    BY <1>2, <1>4, <1>5, <1>9 DEF For
  <2> QED
    BY <2>1, <2>2
<1>12. Cardinality(For(F, Len(a) + 1)) = Len(A)
  <2>1. PICK i \in Int, j \in Int : i = Len(E) + 1 /\ j = Len(E) + Len(A)
    BY <1>16
  <2>2. Cardinality(i .. j) = IF i > j THEN 0 ELSE j - i + 1
    BY FS_Interval
  <2>3. For(F, Len(a) + 1) = i .. j
    BY <1>11, <2>1
  <2>4. (IF i > j THEN 0 ELSE j - i + 1) = Len(A)
    BY <1>16, <2>1
  <2> QED
    BY <2>2, <2>3, <2>4
<1>13. \A n \in DOMAIN b : b[n].n = n /\ Cardinality(For(F, n)) = Len(Answer(b[n]))
  <2>1. ASSUME NEW n \in 1 .. Len(a) PROVE b[n].n = n /\ Cardinality(For(F, n)) = Len(Answer(b[n]))
    BY <1>3, <1>6, <1>10, <2>1
  <2>2. b[Len(a) + 1].n = Len(a) + 1 /\ Cardinality(For(F, Len(a) + 1)) = Len(Answer(b[Len(a) + 1]))
    BY <1>3, <1>12 DEF A
  <2> QED
    BY <1>3, <2>1, <2>2
<1>14. \A i \in DOMAIN F : F[i].n \in DOMAIN b
  BY <1>2, <1>3, <1>4, <1>5, <1>7, <1>8, <1>9
<1>15. F # <<>> /\ F[Len(F)].n = Len(b)
  <2>1. Len(F) \in Len(E) + 1 .. Len(E) + Len(A)
    BY <1>16
  <2>2. Len(F) # 0
    BY <1>16
  <2> QED
    BY <1>3, <1>9, <2>1, <2>2, EmptySeq
<1> QED
  BY <1>13, <1>14, <1>15 DEF Numbered, b, F

\* A client that has as many parts for its last request as there are has everything.
LEMMA LastAnswered ==
  ASSUME NEW a \in Seq(Requests), a # <<>>, Numbered(a),
         NEW g \in Seq(AnswerParts), NEW rest \in Seq(AnswerParts), g \o rest = Owed(a),
         Cardinality(For(g, Len(a))) = Len(Answer(Last(a)))
  PROVE  rest = <<>> /\ g = Owed(a)
<1> DEFINE E == Owed(a)
<1>1. Len(a) \in DOMAIN a /\ Last(a) = a[Len(a)]
  BY LenProperties, EmptySeq DEF Last
<1>2. /\ Len(g) \in Nat /\ DOMAIN g = 1 .. Len(g) /\ Len(rest) \in Nat
      /\ E \in Seq(AnswerParts) /\ Len(E) = Len(g) + Len(rest)
      /\ \A i \in 1 .. Len(g) + Len(rest) : E[i] = IF i <= Len(g) THEN g[i] ELSE rest[i - Len(g)]
  <2>1. g \o rest = E
    OBVIOUS
  <2> HIDE DEF E
  <2>2. /\ g \o rest \in Seq(AnswerParts) /\ Len(g \o rest) = Len(g) + Len(rest)
        /\ \A i \in 1 .. Len(g) + Len(rest) :
             (g \o rest)[i] = IF i <= Len(g) THEN g[i] ELSE rest[i - Len(g)]
    BY ConcatProperties
  <2> QED
    BY <2>1, <2>2, LenProperties
<1>3. DOMAIN E = 1 .. Len(E)
  BY <1>2, LenProperties
<1>4. Cardinality(For(E, Len(a))) = Len(Answer(Last(a))) /\ E # <<>> /\ E[Len(E)].n = Len(a)
  BY <1>1 DEF Numbered
<1> HIDE DEF E
<1>5. For(g, Len(a)) \in SUBSET For(E, Len(a))
  BY <1>2, <1>3 DEF For
<1>6. IsFiniteSet(For(E, Len(a)))
  <2>1. IsFiniteSet(1 .. Len(E)) /\ For(E, Len(a)) \in SUBSET (1 .. Len(E))
    BY <1>2, <1>3, FS_Interval DEF For
  <2> QED
    BY <2>1, FS_Subset
<1>7. For(g, Len(a)) = For(E, Len(a))
  BY <1>4, <1>5, <1>6, FS_Subset
<1>8. Len(E) \in For(E, Len(a))
  <2>1. Len(E) \in 1 .. Len(E)
    BY <1>2, <1>4, EmptySeq
  <2> QED
    BY <1>3, <1>4, <2>1 DEF For
<1>9. Len(E) \in 1 .. Len(g)
  BY <1>2, <1>7, <1>8 DEF For
<1>10. rest = <<>>
  BY <1>2, <1>9, EmptySeq
<1>11. g \o rest = g
  BY <1>10, ConcatEmptySeq
<1> QED
  BY <1>10, <1>11

\* A client that is owed the whole answer to its last request has nothing of it.
LEMMA NoneOfLast ==
  ASSUME NEW a \in Seq(Requests), a # <<>>, Numbered(a), NEW g \in Seq(AnswerParts),
         g \o Answer(Last(a)) = Owed(a)
  PROVE  \A i \in DOMAIN g : g[i].n # Len(a)
<1> DEFINE E == Owed(a)
           r == Last(a)
           A == Answer(r)
<1>1. Len(a) \in DOMAIN a /\ r = a[Len(a)] /\ r \in Requests
  BY LenProperties, EmptySeq, ElementOfSeq DEF Last
<1>2. r.n = Len(a) /\ Cardinality(For(E, Len(a))) = Len(A)
  BY <1>1 DEF Numbered
<1>3. /\ A \in Seq(AnswerParts) /\ Len(A) \in Nat /\ Len(A) > 0
      /\ \A i \in 1 .. Len(A) : A[i].n = r.n
  <2> DEFINE B == AnswerAbout(r, Text(r))
  <2>1. Text(r) \in Seq(Units) /\ A = B
    BY <1>1, BodyUnits DEF Answer
  <2>2. /\ B \in Seq(AnswerParts) /\ Len(B) = IF r.kind.page = "file" THEN 3 ELSE 2
        /\ \A i \in 1 .. Len(B) : B[i].n = r.n
    BY <1>1, <2>1, AnswerIs
  <2> HIDE DEF A, B
  <2> QED
    BY <2>1, <2>2
<1>4. E = g \o A
  OBVIOUS
<1> HIDE DEF E, A, r
<1>5. /\ Len(g) \in Nat /\ DOMAIN g = 1 .. Len(g)
      /\ E \in Seq(AnswerParts) /\ Len(E) = Len(g) + Len(A)
      /\ \A i \in 1 .. Len(g) + Len(A) : E[i] = IF i <= Len(g) THEN g[i] ELSE A[i - Len(g)]
  BY <1>3, <1>4, LenProperties, ConcatProperties
<1>6. DOMAIN E = 1 .. Len(g) + Len(A)
  BY <1>5, LenProperties
<1>7. PICK x \in Int, y \in Int : x = Len(g) + 1 /\ y = Len(g) + Len(A)
  BY <1>3, <1>5
<1>8. \A i \in x .. y : i \in For(E, Len(a))
  <2>1. ASSUME NEW i \in x .. y PROVE i \in For(E, Len(a))
    <3>1. i \in 1 .. Len(g) + Len(A) /\ ~(i <= Len(g)) /\ i - Len(g) \in 1 .. Len(A)
      BY <1>3, <1>5, <1>7
    <3>2. E[i] = A[i - Len(g)]
      BY <1>5, <3>1
    <3>3. E[i].n = Len(a)
      BY <1>2, <1>3, <3>1, <3>2
    <3> QED
      BY <1>6, <3>1, <3>3 DEF For
  <2> QED
    BY <2>1
<1>9. Cardinality(x .. y) = Len(A)
  <2>1. Cardinality(x .. y) = IF x > y THEN 0 ELSE y - x + 1
    BY FS_Interval
  <2>2. (IF x > y THEN 0 ELSE y - x + 1) = Len(A)
    BY <1>3, <1>5, <1>7
  <2> QED
    BY <2>1, <2>2
<1>10. IsFiniteSet(For(E, Len(a)))
  <2>1. PICK z \in Int : z = Len(g) + Len(A)
    BY <1>3, <1>5
  <2>2. IsFiniteSet(1 .. z) /\ For(E, Len(a)) \in SUBSET (1 .. z)
    BY <1>6, <2>1, FS_Interval DEF For
  <2> QED
    BY <2>2, FS_Subset
<1>11. x .. y = For(E, Len(a))
  <2>1. x .. y \in SUBSET For(E, Len(a))
    BY <1>8
  <2> QED
    BY <1>2, <1>9, <1>10, <2>1, FS_Subset
<1> SUFFICES ASSUME NEW i \in DOMAIN g, g[i].n = Len(a) PROVE FALSE
  OBVIOUS
<1>12. i \in 1 .. Len(g) /\ i \in 1 .. Len(g) + Len(A) /\ E[i] = g[i]
  BY <1>3, <1>5
<1>13. i \in For(E, Len(a))
  BY <1>6, <1>12 DEF For
<1>14. i \in x .. y
  BY <1>11, <1>13
<1> QED
  BY <1>5, <1>7, <1>12, <1>14

\* A client that has everything has an answer to each request.
LEMMA AllAnswersCome ==
  ASSUME NEW a \in Seq(Requests), Numbered(a), NEW g, g = Owed(a), NEW n \in DOMAIN a
  PROVE  Cardinality({i \in DOMAIN g : g[i].n = n}) = Len(Answer(a[n]))
BY DEF Numbered, For

-----------------------------------------------------------------------------
(* The service and a request that comes in pieces.                         *)

\* Where the head ends, when it comes first or has not come.
LEMMA HeadAtTwo ==
  ASSUME NEW io, Len(io) \in Nat
  PROVE  /\ (Len(io) >= 2 /\ io[1].part # "blank" /\ io[2].part = "blank") => get_request_len(io) = 2
         /\ (\A i \in 1 .. Len(io) : io[i].part # "blank") => get_request_len(io) = 0
<1> DEFINE I == {i \in 1 .. Len(io) : io[i].part = "blank"}
<1>1. get_request_len(io) = IF I # {} THEN Min(I) ELSE 0
  BY DEF get_request_len, SelectInSeq
<1>2. ASSUME Len(io) >= 2, io[1].part # "blank", io[2].part = "blank" PROVE Min(I) = 2 /\ I # {}
  <2>1. 2 \in I /\ 1 \notin I /\ I \in SUBSET Nat
    BY <1>2
  <2>2. Min(I) \in I /\ \A y \in I : Min(I) <= y
    BY <2>1, MinOf
  <2>3. Min(I) \in 1 .. Len(io) /\ Min(I) # 1 /\ Min(I) <= 2
    BY <2>1, <2>2
  <2> QED
    BY <2>1, <2>3
<1> QED
  BY <1>1, <1>2

\* Three sequences of units, of parts.
LEMMA ThreeUnits ==
  \A s, t, u \in Seq(Units) : (s \o t) \o u = s \o (t \o u)
BY ConcatAssociative

\* The same for parts of answers.
LEMMA ThreeParts ==
  \A s, t, u \in Seq(AnswerParts) : (s \o t) \o u = s \o (t \o u)
BY ConcatAssociative

\* A part of a sequence of units, and what follows it.
LEMMA TakeUnits ==
  \A s \in Seq(Units) : \A n \in 0 .. Len(s) :
    /\ Take(s, n) \in Seq(Units) /\ Len(Take(s, n)) = n
    /\ \A i \in 1 .. n : Take(s, n)[i] = s[i]
BY Parted, TakeAfter

\* What follows a part of a sequence of units.
LEMMA AfterUnits ==
  \A s \in Seq(Units) : \A n \in 0 .. Len(s) :
    /\ After(s, n) \in Seq(Units) /\ Len(After(s, n)) = Len(s) - n
    /\ \A i \in 1 .. Len(s) - n : After(s, n)[i] = s[n + i]
BY Parted, TakeAfter

\* Two sequences of units.
LEMMA TwoUnits ==
  \A s, t \in Seq(Units) :
    /\ s \o t \in Seq(Units) /\ Len(s \o t) = Len(s) + Len(t)
    /\ \A i \in 1 .. Len(s) + Len(t) : (s \o t)[i] = IF i <= Len(s) THEN s[i] ELSE t[i - Len(s)]
BY ConcatProperties

\* One sequence of units and another.
LEMMA Joined ==
  \A x, y \in Seq(Units) :
    /\ x \o y \in Seq(Units) /\ Len(x \o y) = Len(x) + Len(y)
    /\ \A i \in 1 .. Len(x) : (x \o y)[i] = x[i]
    /\ \A i \in 1 .. Len(y) : (x \o y)[Len(x) + i] = y[i]
<1> SUFFICES ASSUME NEW x \in Seq(Units), NEW y \in Seq(Units)
             PROVE  /\ x \o y \in Seq(Units) /\ Len(x \o y) = Len(x) + Len(y)
                    /\ \A i \in 1 .. Len(x) : (x \o y)[i] = x[i]
                    /\ \A i \in 1 .. Len(y) : (x \o y)[Len(x) + i] = y[i]
  OBVIOUS
<1>4. PICK m \in Nat, l \in Nat : m = Len(x) /\ l = Len(y)
  BY LenProperties
<1> DEFINE v == x \o y
<1>1. /\ v \in Seq(Units) /\ Len(v) = m + l
      /\ \A i \in 1 .. m + l : v[i] = IF i <= m THEN x[i] ELSE y[i - m]
  <2>1. /\ v \in Seq(Units) /\ Len(v) = Len(x) + Len(y)
        /\ \A i \in 1 .. Len(x) + Len(y) : v[i] = IF i <= Len(x) THEN x[i] ELSE y[i - Len(x)]
    BY TwoUnits
  <2> HIDE DEF v
  <2> QED
    BY <1>4, <2>1
<1> HIDE DEF v
<1>2. ASSUME NEW i \in 1 .. m PROVE v[i] = x[i]
  <2>1. i \in 1 .. m + l /\ i <= m
    OBVIOUS
  <2> QED
    BY <1>1, <2>1
<1>3. ASSUME NEW i \in 1 .. l PROVE v[m + i] = y[i]
  <2>1. PICK z \in 1 .. m + l : z = m + i /\ ~(z <= m) /\ z - m = i
    OBVIOUS
  <2> QED
    BY <1>1, <2>1
<1> QED
  BY <1>1, <1>2, <1>3, <1>4 DEF v

\* The units behind the head of a request in chunks.
Chunked(r) == Append(Chunks(r), Unit(r, "zero"))

\* They are the chunks, each its size and its data, and the empty one at the end.
LEMMA ChunkedIs ==
  ASSUME NEW r \in Requests
  PROVE  /\ r.kind.body \in 0 .. 2 /\ Len(Body(r)) = r.kind.body
         /\ Chunked(r) \in Seq(Units) /\ Len(Chunked(r)) = 2 * r.kind.body + 1
         /\ \A i \in 1 .. r.kind.body : /\ Chunked(r)[2 * i - 1].part = "size"
                                        /\ Chunked(r)[2 * i] = Body(r)[i]
                                        /\ Body(r)[i].part \in {"body", "more"}
         /\ Chunked(r)[2 * r.kind.body + 1].part = "zero"
<1> DEFINE four == <<Unit(r, "size"), Unit(r, "body"), Unit(r, "size"), Unit(r, "more")>>
           both == <<Unit(r, "body"), Unit(r, "more")>>
<1>1. r.kind.body \in 0 .. 2 /\ 2 * r.kind.body \in 0 .. 4
  BY DEF Requests, Kinds
<1>2. \A part \in {"size", "body", "more", "zero"} : Unit(r, part) \in Units /\ Unit(r, part).part = part
  BY DEF Units, Unit
<1>3. four \in Seq(Units) /\ Len(four) = 4 /\ both \in Seq(Units) /\ Len(both) = 2
  BY <1>2
<1>4. /\ four[1].part = "size" /\ four[2] = both[1] /\ four[3].part = "size" /\ four[4] = both[2]
      /\ both[1].part = "body" /\ both[2].part = "more"
  BY <1>2
<1>5. Chunks(r) = Take(four, 2 * r.kind.body) /\ Body(r) = Take(both, r.kind.body)
  BY DEF Chunks, Body, Take
<1> HIDE DEF four, both
<1>6. /\ Chunks(r) \in Seq(Units) /\ Len(Chunks(r)) = 2 * r.kind.body
      /\ \A i \in 1 .. 2 * r.kind.body : Chunks(r)[i] = four[i]
  <2>1. 2 * r.kind.body \in 0 .. Len(four)
    BY <1>1, <1>3
  <2> QED
    BY <1>3, <1>5, <2>1, TakeUnits
<1>7. /\ Len(Body(r)) = r.kind.body
      /\ \A i \in 1 .. r.kind.body : Body(r)[i] = both[i]
  <2>1. r.kind.body \in 0 .. Len(both)
    BY <1>1, <1>3
  <2> QED
    BY <1>3, <1>5, <2>1, TakeUnits
<1>8. /\ Chunked(r) \in Seq(Units) /\ Len(Chunked(r)) = 2 * r.kind.body + 1
      /\ \A i \in 1 .. 2 * r.kind.body : Chunked(r)[i] = Chunks(r)[i]
      /\ Chunked(r)[2 * r.kind.body + 1] = Unit(r, "zero")
  <2>1. Unit(r, "zero") \in Units
    BY <1>2
  <2> QED
    BY <1>6, <2>1, AppendProperties DEF Chunked
<1>9. ASSUME NEW i \in 1 .. r.kind.body
      PROVE  /\ Chunked(r)[2 * i - 1].part = "size" /\ Chunked(r)[2 * i] = Body(r)[i]
             /\ Body(r)[i].part \in {"body", "more"}
  <2>1. 2 * i - 1 \in 1 .. 2 * r.kind.body /\ 2 * i \in 1 .. 2 * r.kind.body /\ i \in 1 .. 2
    BY <1>1
  <2>2. /\ Chunked(r)[2 * i - 1] = four[2 * i - 1] /\ Chunked(r)[2 * i] = four[2 * i]
        /\ Body(r)[i] = both[i]
    BY <1>6, <1>7, <1>8, <2>1
  <2>3. CASE i = 1
    <3>1. 2 * i - 1 = 1 /\ 2 * i = 2
      BY <2>3
    <3> QED
      BY <1>4, <2>2, <2>3, <3>1
  <2>4. CASE i = 2
    <3>1. 2 * i - 1 = 3 /\ 2 * i = 4
      BY <2>4
    <3> QED
      BY <1>4, <2>2, <2>4, <3>1
  <2> QED
    BY <2>1, <2>3, <2>4
<1> QED
  BY <1>1, <1>2, <1>7, <1>8, <1>9

\* What comes behind a head.
Behind(r) == IF r.kind.length = "chunked" THEN Chunked(r) ELSE Body(r)

\* The units of a request.
LEMMA BytesAre ==
  ASSUME NEW r \in Requests
  PROVE  /\ Behind(r) \in Seq(Units) /\ Bytes(r) \in Seq(Units)
         /\ Len(Bytes(r)) = 2 + Len(Behind(r))
         /\ Bytes(r)[1] = Unit(r, "head") /\ Bytes(r)[2] = Unit(r, "blank")
         /\ \A i \in 1 .. Len(Behind(r)) : Bytes(r)[2 + i] = Behind(r)[i]
         /\ After(Bytes(r), 2) = Behind(r)
<1> DEFINE h == <<Unit(r, "head"), Unit(r, "blank")>>
           t == Behind(r)
<1>1. Bytes(r) = h \o t
  BY DEF Bytes, Behind, Chunked
<1>2. t \in Seq(Units) /\ Len(t) \in Nat
  BY BodyUnits, ChunkedIs, LenProperties DEF Behind
<1>3. h \in Seq(Units) /\ Len(h) = 2 /\ h[1] = Unit(r, "head") /\ h[2] = Unit(r, "blank")
  <2>1. Unit(r, "head") \in Units /\ Unit(r, "blank") \in Units
    BY DEF Units
  <2> QED
    BY <2>1
<1> HIDE DEF h, t
<1>4. /\ h \o t \in Seq(Units) /\ Len(h \o t) = Len(h) + Len(t)
      /\ \A i \in 1 .. Len(h) : (h \o t)[i] = h[i]
      /\ \A i \in 1 .. Len(t) : (h \o t)[Len(h) + i] = t[i]
  BY <1>2, <1>3, Joined
<1>5. 1 \in 1 .. Len(h) /\ 2 \in 1 .. Len(h) /\ 2 \in 0 .. Len(h)
  BY <1>3
<1>6. After(h \o t, 2) = After(h, 2) \o t
  BY <1>2, <1>3, <1>5, AfterConcat
<1>7. After(h, 2) = <<>>
  BY <1>3, SubSeqEmpty DEF After
<1>8. <<>> \o t = t
  BY <1>2, ConcatEmptySeq
<1>9. Bytes(r)[1] = Unit(r, "head") /\ Bytes(r)[2] = Unit(r, "blank")
  BY <1>1, <1>3, <1>4, <1>5
<1>10. Len(Bytes(r)) = 2 + Len(t) /\ \A i \in 1 .. Len(t) : Bytes(r)[2 + i] = t[i]
  BY <1>1, <1>3, <1>4
<1> QED
  BY <1>1, <1>2, <1>4, <1>6, <1>7, <1>8, <1>9, <1>10 DEF t

\* A request whose length is given: its head and its body.
LEMMA GivenBytes ==
  ASSUME NEW r \in Requests, r.kind.length # "chunked"
  PROVE  /\ Bytes(r)[1] = Unit(r, "head") /\ Bytes(r)[2] = Unit(r, "blank")
         /\ After(Bytes(r), 2) = Body(r)
BY BytesAre DEF Behind

\* The requests a polite client makes of the service.
ServiceAsks(a) ==
  \A n \in DOMAIN a : a[n].kind.server = "service" /\ a[n].kind.length = "given"

\* The last request has not come as a whole: its answer is still owed, and what the
\* server has of it and what is on the wire make it up, with the head or behind it.
ServiceWaits(k, a, w, g) ==
  /\ a # <<>> /\ ~k.finish
  /\ (g \o k.send) \o Answer(Last(a)) = Owed(a)
  /\ \/ k.request_len = 0 /\ k.recv \o w = Bytes(Last(a))
     \/ /\ k.request_len = 2 /\ k.request = Last(a) /\ k.cl = Last(a).kind.body
        /\ k.recv \o w = Body(Last(a))

\* All requests are answered; the client may have shut its side, when it has all.
ServiceDone(k, a, w, g) ==
  /\ g \o k.send = Owed(a)
  /\ k.request_len = 0 /\ k.recv = <<>>
  /\ k.finish => a # <<>> /\ ~Last(a).kind.keep
  /\ w = <<>> \/ (w = <<FIN>> /\ g = Owed(a))

\* One of the two; it is to close only at the end of the input.
ServiceOK(k, a, w, g) ==
  /\ ServiceWaits(k, a, w, g) \/ ServiceDone(k, a, w, g)
  /\ k.data /\ k.close => w = <<FIN>> /\ g = Owed(a)

\* try_parse for a request that is on its way: nothing to parse, or all of the head.
LEMMA ParseWaits ==
  ASSUME NEW k, DOMAIN k = Fields, Counted(k), NEW r \in Requests, r.kind.length = "given",
         NEW w \in Seq(Units),
         \/ k.request_len = 0 /\ k.recv \o w = Bytes(r)
         \/ /\ k.request_len = 2 /\ k.request = r /\ k.cl = r.kind.body
            /\ k.recv \o w = Body(r)
  PROVE  LET j == try_parse(k) IN
         \/ j = k /\ k.request_len = 0 /\ Len(k.recv) <= 1
         \/ /\ j.request_len = 2 /\ j.request = r /\ j.cl = r.kind.body
            /\ j.recv \in Seq(Units) /\ j.recv \o w = Body(r)
            /\ j.num_bytes_recv = 2 + Len(j.recv)
<1> DEFINE j == try_parse(k)
           n == get_request_len(k.recv)
<1>1. k.recv \in Seq(Units) /\ Len(k.recv) \in Nat /\ Len(w) \in Nat
  BY LenProperties DEF Counted
<1>2. CASE k.request_len = 2 /\ k.request = r /\ k.cl = r.kind.body /\ k.recv \o w = Body(r)
  <2>1. j = k
    BY <1>2 DEF try_parse
  <2> QED
    BY <1>1, <1>2, <2>1 DEF Counted
<1>3. CASE k.request_len = 0 /\ k.recv \o w = Bytes(r)
  <2>1. /\ Bytes(r)[1] = Unit(r, "head") /\ Bytes(r)[2] = Unit(r, "blank")
        /\ After(Bytes(r), 2) = Body(r)
        /\ Unit(r, "head").part = "head" /\ Unit(r, "blank").part = "blank"
        /\ Unit(r, "blank").r = r
    BY GivenBytes DEF Unit
  <2>2. \A i \in 1 .. Len(k.recv) + Len(w) : (k.recv \o w)[i] =
                     IF i <= Len(k.recv) THEN k.recv[i] ELSE w[i - Len(k.recv)]
    BY <1>1, ConcatProperties
  <2>3. \A i \in 1 .. Len(k.recv) : k.recv[i] = Bytes(r)[i]
    BY <1>1, <1>3, <2>2
  <2>4. CASE Len(k.recv) <= 1
    <3>1. \A i \in 1 .. Len(k.recv) : i = 1
      BY <1>1, <2>4
    <3>2. \A i \in 1 .. Len(k.recv) : k.recv[i].part # "blank"
      BY <2>1, <2>3, <3>1
    <3>3. n = 0
      BY <1>1, <3>2, HeadAtTwo
    <3>4. j = k
      BY <3>3 DEF try_parse
    <3> QED
      BY <1>3, <2>4, <3>4
  <2>5. CASE ~(Len(k.recv) <= 1)
    <3>1. 1 \in 1 .. Len(k.recv) /\ 2 \in 1 .. Len(k.recv) /\ Len(k.recv) >= 2
      BY <1>1, <2>5
    <3>2. k.recv[1] = Unit(r, "head") /\ k.recv[2] = Unit(r, "blank")
      BY <2>1, <2>3, <3>1
    <3>3. n = 2
      BY <1>1, <2>1, <3>1, <3>2, HeadAtTwo
    <3> DEFINE rest == After(k.recv, 2)
    <3>4. 2 \in 0 .. Len(k.recv)
      BY <1>1, <3>1
    <3>5. rest \in Seq(Units) /\ Len(rest) = Len(k.recv) - 2
      BY <1>1, <3>4, Parted
    <3>6. rest \o w = Body(r)
      BY <1>1, <1>3, <2>1, <3>4, AfterConcat
    <3> HIDE DEF rest
    <3>7. j = [k EXCEPT !.recv = rest, !.request_len = 2, !.request = r, !.cl = r.kind.body]
      <4>1. k.recv[n].r = r /\ k.recv[1] = Unit(r, "head")
        BY <2>1, <3>2, <3>3
      <4> HIDE DEF n
      <4>2. j = [k EXCEPT !.recv = After(@, n), !.request_len = n, !.request = k.recv[n].r,
                    !.cl = IF k.recv[n].r.kind.length = "given" THEN k.recv[n].r.kind.body ELSE 0]
        BY <1>3, <3>3, <4>1 DEF try_parse, n
      <4> QED
        BY <3>3, <4>1, <4>2 DEF rest
    <3>8. /\ j.recv = rest /\ j.request_len = 2 /\ j.request = r /\ j.cl = r.kind.body
          /\ j.num_bytes_recv = k.num_bytes_recv
      BY <3>7 DEF Fields
    <3>9. k.num_bytes_recv = Len(k.recv)
      BY <1>1, <1>3 DEF Counted
    <3> QED
      BY <1>1, <3>5, <3>6, <3>8, <3>9
  <2> QED
    BY <2>4, <2>5
<1> QED
  BY <1>2, <1>3

\* A text whose end has come is there as a whole.
LEMMA NothingLeft ==
  ASSUME NEW S, NEW s \in Seq(S), NEW t \in Seq(S), Len(s) >= Len(s \o t)
  PROVE  t = <<>> /\ s \o t = s
<1>1. Len(s) \in Nat /\ Len(t) \in Nat /\ Len(s \o t) = Len(s) + Len(t)
  BY LenProperties, ConcatProperties
<1>2. t = <<>>
  BY <1>1, EmptySeq
<1> QED
  BY <1>2, ConcatEmptySeq

\* Every request has an answer.
LEMMA Answering ==
  ASSUME NEW r \in Requests
  PROVE  /\ Answer(r) \in Seq(AnswerParts) /\ Len(Answer(r)) \in Nat /\ Len(Answer(r)) > 0
         /\ Len(Answer(r)) = IF r.kind.page = "file" THEN 3 ELSE 2
<1> DEFINE B == AnswerAbout(r, Text(r))
<1>1. Text(r) \in Seq(Units) /\ Answer(r) = B
  BY BodyUnits DEF Answer
<1>2. /\ B \in Seq(AnswerParts) /\ Len(B) = IF r.kind.page = "file" THEN 3 ELSE 2
  BY <1>1, AnswerIs
<1> HIDE DEF B
<1>3. CASE r.kind.page = "file"
  BY <1>1, <1>2, <1>3
<1>4. CASE r.kind.page # "file"
  BY <1>1, <1>2, <1>4
<1> QED
  BY <1>3, <1>4

\* What ends with something is something.
LEMMA NotEmptied ==
  ASSUME NEW S, NEW s \in Seq(S), NEW t \in Seq(S), Len(t) > 0 PROVE s \o t # <<>>
<1>1. Len(s) \in Nat /\ Len(t) \in Nat /\ Len(s \o t) = Len(s) + Len(t)
  BY LenProperties, ConcatProperties
<1> QED
  BY <1>1, EmptySeq

\* Bytes reach the service while a request is on its way.
LEMMA ServiceHears ==
  ASSUME NEW k, DOMAIN k = Fields, Counted(k), k.data, ~k.fault, ~k.close, ~k.finish,
         k.send \in Seq(AnswerParts),
         NEW r \in Requests, r.kind.length = "given", r.kind.server = "service",
         NEW w \in Seq(Units),
         \/ k.request_len = 0 /\ k.recv \o w = Bytes(r)
         \/ /\ k.request_len = 2 /\ k.request = r /\ k.cl = r.kind.body
            /\ k.recv \o w = Body(r)
  PROVE  LET j == on_recv_data(k) IN
         /\ j.data /\ ~j.close
         /\ \/ /\ j.send = k.send /\ ~j.finish
               /\ \/ j.request_len = 0 /\ j.recv \o w = Bytes(r)
                  \/ /\ j.request_len = 2 /\ j.request = r /\ j.cl = r.kind.body
                     /\ j.recv \o w = Body(r)
            \/ /\ j.send = k.send \o Answer(r) /\ w = <<>>
               /\ j.request_len = 0 /\ j.recv = <<>> /\ (j.finish => ~r.kind.keep)
<1> DEFINE p == try_parse(k)
           u == [p EXCEPT !.user = TRUE]
           j == on_recv_data(k)
<1>1. \/ p = k /\ k.request_len = 0 /\ Len(k.recv) <= 1
      \/ /\ p.request_len = 2 /\ p.request = r /\ p.cl = r.kind.body
         /\ p.recv \in Seq(Units) /\ p.recv \o w = Body(r)
         /\ p.num_bytes_recv = 2 + Len(p.recv)
  BY ParseWaits
<1>2. /\ DOMAIN p = Fields /\ p.data /\ ~p.fault /\ ~p.close /\ ~p.finish /\ p.send = k.send
  BY DEF try_parse, Fields
<1>3. Len(k.recv) \in Nat
  BY LenProperties DEF Counted
<1> HIDE DEF p
<1>4. CASE p = k /\ k.request_len = 0 /\ Len(k.recv) <= 1
  <2>1. j = k
    BY <1>3, <1>4, MaxRequestAssumption DEF on_recv_data, p
  <2> QED
    BY <1>4, <2>1
<1>5. CASE /\ p.request_len = 2 /\ p.request = r /\ p.cl = r.kind.body
           /\ p.recv \in Seq(Units) /\ p.recv \o w = Body(r)
           /\ p.num_bytes_recv = 2 + Len(p.recv)
  <2>1. j = call_request_handler_if_data_is_buffered(u)
    BY <1>5 DEF on_recv_data, p
  <2>2. /\ DOMAIN u = Fields /\ u.data /\ ~u.fault /\ ~u.close /\ ~u.finish /\ u.send = k.send
        /\ u.request_len = 2 /\ u.request = r /\ u.cl = r.kind.body /\ u.user
        /\ u.recv = p.recv /\ u.num_bytes_recv = 2 + Len(p.recv)
    BY <1>2, <1>5 DEF Fields
  <2> HIDE DEF u
  <2>3. CASE u.num_bytes_recv >= u.cl + u.request_len
    <3>1. Len(Body(r)) = r.kind.body /\ r.kind.body \in Nat /\ Len(p.recv) \in Nat
      BY <1>5, BodyUnits, LenProperties DEF Requests, Kinds
    <3>2. Len(p.recv) >= Len(p.recv \o w)
      BY <1>5, <2>2, <2>3, <3>1
    <3>3. w = <<>> /\ p.recv = Body(r)
      BY <1>5, <3>2, NothingLeft
    <3>4. Asked(u) = Text(r)
      <4>1. r.kind.body = 0 => Body(r) = <<>>
        BY <3>1, BodyUnits, EmptySeq
      <4> QED
        BY <2>2, <3>3 DEF Asked, Text
    <3> DEFINE e == [u EXCEPT !.send = @ \o AnswerAbout(u.request, Asked(u))]
    <3>5. e.send = k.send \o Answer(r) /\ DOMAIN e = Fields /\ e.data /\ e.user /\ e.request = r
      BY <2>2, <3>4 DEF Answer, Fields
    <3>6. e.send # <<>>
      <4>1. k.send \o Answer(r) # <<>>
        BY Answering, NotEmptied
      <4> QED
        BY <3>5, <4>1
    <3>7. j = close_local_endpoint(e)
      BY <2>1, <2>3 DEF call_request_handler_if_data_is_buffered, call_request_handler
    <3> HIDE DEF e
    <3>8. /\ j.data /\ ~j.close /\ j.send = e.send /\ j.request_len = 0 /\ j.recv = <<>>
          /\ (j.finish => ~r.kind.keep)
      <4> DEFINE keep_alive == e.user /\ e.request.kind.keep
      <4>1. j = [e EXCEPT !.recv = <<>>, !.user = FALSE, !.request = NoRequest,
               !.cl = 0, !.num_bytes_recv = 0, !.request_len = 0,
               !.finish = ~keep_alive /\ e.send # <<>>,
               !.close = ~keep_alive /\ e.send = <<>>]
        BY <3>7 DEF close_local_endpoint
      <4> HIDE DEF j
      <4> QED
        BY <3>5, <3>6, <4>1 DEF Fields
    <3> QED
      BY <3>3, <3>5, <3>8
  <2>4. CASE ~(u.num_bytes_recv >= u.cl + u.request_len)
    <3>1. j = u
      BY <2>1, <2>4 DEF call_request_handler_if_data_is_buffered
    <3> QED
      BY <1>5, <2>2, <3>1
  <2> QED
    BY <2>3, <2>4
<1> QED
  BY <1>1, <1>4, <1>5

\* The end of the connection is not part of a request.
LEMMA EndApart ==
  ASSUME NEW r \in Requests
  PROVE  Bytes(r) \in Seq(Units \ {FIN}) /\ Body(r) \in Seq(Units \ {FIN})
<1>1. \A part \in {"head", "blank", "size", "body", "more", "zero"} : Unit(r, part).part = part
  BY DEF Unit
<1>2. FIN.part = "fin"
  BY DEF FIN
<1>3. \A part \in {"head", "blank", "size", "body", "more", "zero"} : Unit(r, part) \in Units \ {FIN}
  BY <1>1, <1>2 DEF Units
<1> QED
  BY <1>3, BytesOf

\* Nor does it come before one that is on its way.
LEMMA EndNotFirst ==
  ASSUME NEW s \in Seq(Units), NEW w \in Seq(Units), s \o w \in Seq(Units \ {FIN}), w # <<>>
  PROVE  w[1] # FIN
<1>1. Len(s) \in Nat /\ Len(w) \in Nat /\ Len(w) # 0 /\ Len(s \o w) = Len(s) + Len(w)
  BY LenProperties, ConcatProperties, EmptySeq
<1>2. PICK i \in Nat : i = Len(s) + 1
  BY <1>1
<1>3. i \in 1 .. Len(s) + Len(w) /\ ~(i <= Len(s)) /\ i - Len(s) = 1 /\ i \in 1 .. Len(s \o w)
  BY <1>1, <1>2
<1>4. (s \o w)[i] = w[i - Len(s)]
  BY <1>3, ConcatProperties
<1>5. (s \o w)[i] \in Units \ {FIN}
  BY <1>3, ElementOfSeq
<1> QED
  BY <1>3, <1>4, <1>5

\* The service reads.
LEMMA ServiceReceives ==
  ASSUME NEW k, DOMAIN k = Fields, Counted(k), k.data, ~k.fault, k.send \in Seq(AnswerParts),
         NEW a \in Seq(Requests), ServiceAsks(a), NEW w \in Seq(Units), NEW g \in Seq(AnswerParts),
         ServiceOK(k, a, w, g), NEW n \in 1 .. Len(w), ~Contains(Take(w, n), FIN),
         NEW b, b = [k EXCEPT !.recv = @ \o Take(w, n)]
  PROVE  ServiceOK(ns_recv(b, n), a, After(w, n), g)
<1> DEFINE t == Take(w, n)
           v == After(w, n)
           h == [b EXCEPT !.num_bytes_recv = @ + n]
           j == on_recv_data(h)
           r == Last(a)
<1>1. /\ Len(w) \in Nat /\ n \in 0 .. Len(w) /\ t \in Seq(Units) /\ Len(t) = n /\ v \in Seq(Units)
      /\ t \o v = w /\ t[1] = w[1]
  <2>1. Len(w) \in Nat /\ n \in 0 .. Len(w) /\ 1 \in 1 .. n
    BY LenProperties
  <2> QED
    BY <2>1, Parted, TakeAfter
<1>2. w # <<FIN>> /\ w # <<>>
  <2>1. w # <<>>
    BY <1>1, EmptySeq
  <2>2. t[1] # FIN
    <3>1. 1 \in 1 .. Len(t)
      BY <1>1
    <3> QED
      BY <3>1 DEF Contains
  <2> QED
    BY <1>1, <2>1, <2>2
<1>3. ServiceWaits(k, a, w, g) /\ ~k.close
  BY <1>2 DEF ServiceOK, ServiceDone
<1>4. r \in Requests /\ r.kind.server = "service" /\ r.kind.length = "given" /\ a # <<>>
  <2>1. a # <<>> /\ Len(a) \in 1 .. Len(a)
    BY <1>3, EmptySeq, LenProperties DEF ServiceWaits
  <2>2. r = a[Len(a)] /\ Len(a) \in DOMAIN a
    BY <2>1, LenProperties DEF Last
  <2> QED
    BY <2>1, <2>2, ElementOfSeq DEF ServiceAsks
<1>5. k.recv \in Seq(Units) /\ (k.recv \o t) \o v = k.recv \o w
  <2>1. k.recv \in Seq(Units)
    BY DEF Counted
  <2> HIDE DEF t, v
  <2>2. (k.recv \o t) \o v = k.recv \o (t \o v)
    BY <1>1, <2>1, ThreeUnits
  <2> QED
    BY <1>1, <2>1, <2>2
<1> HIDE DEF t, v, r
<1>6. /\ DOMAIN h = Fields /\ h.data /\ ~h.fault /\ ~h.close /\ ~h.finish /\ h.send = k.send
      /\ h.recv = k.recv \o t /\ h.request_len = k.request_len /\ h.request = k.request
      /\ h.cl = k.cl /\ h.user = k.user /\ h.num_bytes_recv = k.num_bytes_recv + n
  BY <1>3 DEF ServiceWaits, Fields, t
<1> HIDE DEF h
<1>7. Counted(h)
  <2>1. Len(k.recv \o t) = Len(k.recv) + n /\ k.recv \o t \in Seq(Units) /\ Len(k.recv) \in Nat
    BY <1>1, <1>5, ConcatProperties, LenProperties
  <2> QED
    BY <1>6, <2>1 DEF Counted
<1>8. \/ h.request_len = 0 /\ h.recv \o v = Bytes(r)
      \/ /\ h.request_len = 2 /\ h.request = r /\ h.cl = r.kind.body
         /\ h.recv \o v = Body(r)
  BY <1>3, <1>5, <1>6 DEF ServiceWaits, r
<1>9. ns_recv(b, n) = j
  <2>1. b.data
    BY DEF Fields
  <2> QED
    BY <2>1 DEF ns_recv, h
<1>10. /\ j.data /\ ~j.close
       /\ \/ /\ j.send = h.send /\ ~j.finish
             /\ \/ j.request_len = 0 /\ j.recv \o v = Bytes(r)
                \/ /\ j.request_len = 2 /\ j.request = r /\ j.cl = r.kind.body
                   /\ j.recv \o v = Body(r)
          \/ /\ j.send = h.send \o Answer(r) /\ v = <<>>
             /\ j.request_len = 0 /\ j.recv = <<>> /\ (j.finish => ~r.kind.keep)
  <2>1. h.send \in Seq(AnswerParts)
    BY <1>6
  <2> QED
    BY <1>1, <1>4, <1>6, <1>7, <1>8, <2>1, ServiceHears
<1> HIDE DEF j
<1>11. (g \o k.send) \o Answer(r) = Owed(a)
  BY <1>3 DEF ServiceWaits, r
<1>12. CASE /\ j.send = h.send /\ ~j.finish
            /\ \/ j.request_len = 0 /\ j.recv \o v = Bytes(r)
               \/ /\ j.request_len = 2 /\ j.request = r /\ j.cl = r.kind.body
                  /\ j.recv \o v = Body(r)
  <2>1. ServiceWaits(j, a, v, g)
    BY <1>4, <1>6, <1>11, <1>12 DEF ServiceWaits, r
  <2> QED
    BY <1>9, <1>10, <2>1 DEF ServiceOK, v
<1>13. CASE /\ j.send = h.send \o Answer(r) /\ v = <<>>
            /\ j.request_len = 0 /\ j.recv = <<>> /\ (j.finish => ~r.kind.keep)
  <2>1. g \o (k.send \o Answer(r)) = Owed(a)
    <3>1. Answer(r) \in Seq(AnswerParts)
      BY <1>4, Answering
    <3> QED
      BY <1>11, <3>1, ThreeParts
  <2>2. ServiceDone(j, a, v, g)
    BY <1>4, <1>6, <1>13, <2>1 DEF ServiceDone, r
  <2> QED
    BY <1>9, <1>10, <2>2 DEF ServiceOK, v
<1> QED
  BY <1>10, <1>12, <1>13

\* The end of the input does not come to the service with a request on its way.
LEMMA ServiceEnds ==
  ASSUME NEW k, DOMAIN k = Fields, Counted(k), NEW a \in Seq(Requests), ServiceAsks(a),
         NEW w \in Seq(Units), NEW g \in Seq(AnswerParts), ServiceOK(k, a, w, g),
         w # <<>>, w[1] = FIN
  PROVE  ServiceOK([k EXCEPT !.close = TRUE], a, w, g)
<1> DEFINE r == Last(a)
           j == [k EXCEPT !.close = TRUE]
<1>1. ~ServiceWaits(k, a, w, g)
  <2> SUFFICES ASSUME ServiceWaits(k, a, w, g) PROVE FALSE
    OBVIOUS
  <2>1. a # <<>> /\ (k.recv \o w = Bytes(r) \/ k.recv \o w = Body(r)) /\ k.recv \in Seq(Units)
    BY DEF ServiceWaits, Counted
  <2>2. r \in Requests
    BY <2>1, EmptySeq, LenProperties, ElementOfSeq DEF Last
  <2> HIDE DEF r
  <2>3. k.recv \o w \in Seq(Units \ {FIN})
    BY <2>1, <2>2, EndApart
  <2> QED
    BY <2>1, <2>3, EndNotFirst
<1>2. ServiceDone(k, a, w, g) /\ w = <<FIN>> /\ g = Owed(a)
  BY <1>1 DEF ServiceOK, ServiceDone
<1>3. /\ j.send = k.send /\ j.recv = k.recv /\ j.request_len = k.request_len
      /\ j.finish = k.finish /\ j.data = k.data
  BY DEF Fields
<1> HIDE DEF j
<1>4. ServiceDone(j, a, w, g)
  BY <1>2, <1>3 DEF ServiceDone
<1> QED
  BY <1>2, <1>4 DEF ServiceOK, j

\* Nothing comes after everything.
LEMMA NothingMore ==
  ASSUME NEW g \in Seq(AnswerParts), NEW s \in Seq(AnswerParts), g \o s = g
  PROVE  s = <<>>
<1>1. Len(g) \in Nat /\ Len(s) \in Nat /\ Len(g \o s) = Len(g) + Len(s)
  BY LenProperties, ConcatProperties
<1> QED
  BY <1>1, EmptySeq

\* The service sends.
LEMMA ServiceWrites ==
  ASSUME NEW k, DOMAIN k = Fields, k.send \in Seq(AnswerParts), NEW a, NEW w,
         NEW g \in Seq(AnswerParts), ServiceOK(k, a, w, g), NEW n \in 1 .. Len(k.send)
  PROVE  ServiceOK([k EXCEPT !.send = After(@, n)], a, w, g \o Take(k.send, n))
<1> DEFINE t == Take(k.send, n)
           v == After(k.send, n)
           j == [k EXCEPT !.send = v]
           h == g \o t
<1>1. n \in 0 .. Len(k.send) /\ k.send # <<>>
  BY LenProperties, EmptySeq
<1>2. h \o v = g \o k.send
  BY <1>1, Regroup
<1>3. g # Owed(a) \/ g \o k.send # Owed(a)
  BY <1>1, NothingMore
<1>4. /\ j.send = v /\ j.recv = k.recv /\ j.request_len = k.request_len /\ j.cl = k.cl
      /\ j.finish = k.finish /\ j.data = k.data /\ j.close = k.close /\ j.request = k.request
  BY DEF Fields
<1>5. j = [k EXCEPT !.send = After(@, n)]
  OBVIOUS
<1> HIDE DEF j, h, v
<1>6. CASE ServiceWaits(k, a, w, g)
  <2>1. ServiceWaits(j, a, w, h)
    BY <1>2, <1>4, <1>6 DEF ServiceWaits
  <2>2. ~(k.data /\ k.close)
    <3> SUFFICES ASSUME k.data, k.close PROVE FALSE
      OBVIOUS
    <3>1. g = Owed(a) /\ (g \o k.send) \o Answer(Last(a)) = Owed(a)
      BY <1>6 DEF ServiceOK, ServiceWaits
    <3> QED
      BY <3>1
  <2> QED
    BY <1>4, <1>5, <2>1, <2>2 DEF ServiceOK, h
<1>7. CASE ServiceDone(k, a, w, g)
  <2>1. g # Owed(a) /\ w = <<>>
    BY <1>3, <1>7 DEF ServiceDone
  <2>2. ServiceDone(j, a, w, h)
    BY <1>2, <1>4, <1>7, <2>1 DEF ServiceDone
  <2>3. ~(k.data /\ k.close)
    BY <2>1 DEF ServiceOK
  <2> QED
    BY <1>4, <1>5, <2>2, <2>3 DEF ServiceOK, h
<1> QED
  BY <1>6, <1>7 DEF ServiceOK

\* As many parts for each request as its answer has.
Everything(a, g) == \A n \in DOMAIN a : Cardinality(For(g, n)) = Len(Answer(a[n]))

\* A client that counts so many has what it is owed, and nothing is to come.
LEMMA EverythingIs ==
  ASSUME NEW a \in Seq(Requests), Numbered(a), NEW g \in Seq(AnswerParts),
         NEW rest \in Seq(AnswerParts), g \o rest = Owed(a), Everything(a, g)
  PROVE  rest = <<>> /\ g = Owed(a)
<1>1. CASE a = <<>>
  <2>1. g \o rest = <<>>
    BY <1>1, OwedNothing
  <2>2. Len(g) \in Nat /\ Len(rest) \in Nat /\ Len(g \o rest) = Len(g) + Len(rest) /\ Len(<<>>) = 0
    BY LenProperties, ConcatProperties
  <2>3. rest = <<>> /\ g = <<>>
    BY <2>1, <2>2, EmptySeq
  <2> QED
    BY <1>1, <2>3, OwedNothing
<1>2. CASE a # <<>>
  <2>1. Len(a) \in DOMAIN a /\ Last(a) = a[Len(a)]
    BY <1>2, LenProperties, EmptySeq DEF Last
  <2>2. Cardinality(For(g, Len(a))) = Len(Answer(Last(a)))
    BY <2>1 DEF Everything
  <2> QED
    BY <1>2, <2>2, LastAnswered
<1> QED
  BY <1>1, <1>2

\* The last of some requests is one.
LEMMA LastOne ==
  ASSUME NEW a \in Seq(Requests), a # <<>>
  PROVE  Last(a) \in Requests /\ Len(a) \in DOMAIN a /\ Last(a) = a[Len(a)]
BY EmptySeq, LenProperties, ElementOfSeq DEF Last

\* So no request to the service is on its way.
LEMMA ServiceSettled ==
  ASSUME NEW k, k.send \in Seq(AnswerParts), NEW a \in Seq(Requests), Numbered(a),
         NEW w, NEW g \in Seq(AnswerParts), ServiceOK(k, a, w, g), Everything(a, g)
  PROVE  ServiceDone(k, a, w, g) /\ g = Owed(a)
<1>1. ~ServiceWaits(k, a, w, g)
  <2> SUFFICES ASSUME ServiceWaits(k, a, w, g) PROVE FALSE
    OBVIOUS
  <2> DEFINE A == Answer(Last(a))
  <2>1. a # <<>> /\ (g \o k.send) \o A = Owed(a)
    BY DEF ServiceWaits
  <2>2. A \in Seq(AnswerParts) /\ Len(A) > 0
    BY <2>1, LastOne, Answering
  <2> HIDE DEF A
  <2>3. k.send \o A \in Seq(AnswerParts) /\ k.send \o A # <<>>
    BY <2>2, ConcatProperties, NotEmptied
  <2>4. g \o (k.send \o A) = Owed(a)
    BY <2>1, <2>2, ThreeParts
  <2> QED
    BY <2>3, <2>4, EverythingIs
<1>2. ServiceDone(k, a, w, g)
  BY <1>1 DEF ServiceOK
<1>3. g \o k.send = Owed(a)
  BY <1>2 DEF ServiceDone
<1> QED
  BY <1>2, <1>3, EverythingIs

\* A wire on which there is at most the end, and not the end.
LEMMA Unended ==
  ASSUME NEW w, w = <<>> \/ w = <<FIN>>, ~Contains(w, FIN)
  PROVE  w = <<>> /\ Append(Take(w, Len(w) - 0), FIN) = <<FIN>>
<1>1. w = <<>>
  <2>1. 1 \in 1 .. Len(<<FIN>>) /\ <<FIN>>[1] = FIN
    OBVIOUS
  <2>2. Contains(<<FIN>>, FIN)
    BY <2>1 DEF Contains
  <2> QED
    BY <2>2
<1>2. Take(w, Len(w) - 0) = <<>>
  BY <1>1, EmptySeq, SubSeqEmpty DEF Take
<1>3. Append(<<>>, FIN) = <<FIN>>
  OBVIOUS
<1> QED
  BY <1>1, <1>2, <1>3

\* A client sends its next request to the service.
LEMMA ServiceAsked ==
  ASSUME NEW k, k.send \in Seq(AnswerParts), NEW a \in Seq(Requests), Numbered(a),
         NEW w \in Seq(Units), NEW g \in Seq(AnswerParts), ServiceOK(k, a, w, g),
         Everything(a, g), a # <<>> => Last(a).kind.keep, ~Contains(w, FIN),
         NEW r \in Requests
  PROVE  ServiceOK(k, Append(a, r), w \o Bytes(r), g)
<1>1. ServiceDone(k, a, w, g) /\ g = Owed(a)
  BY ServiceSettled
<1>2. w = <<>>
  BY <1>1, Unended DEF ServiceDone
<1> DEFINE b == Append(a, r)
<1>3. /\ b # <<>> /\ Last(b) = r
      /\ Owed(b) = Owed(a) \o Answer(r)
  <2>1. b \in Seq(Requests) /\ Len(b) = Len(a) + 1 /\ Len(a) \in Nat /\ b[Len(a) + 1] = r
    BY AppendProperties, LenProperties
  <2>2. b # <<>>
    BY <2>1, EmptySeq
  <2> QED
    BY <2>1, <2>2, OwedOne DEF Last
<1>4. w \o Bytes(r) = Bytes(r) /\ k.recv \o Bytes(r) = Bytes(r)
  BY <1>1, <1>2, BytesUnits, ConcatEmptySeq DEF ServiceDone
<1> HIDE DEF b
<1>5. ServiceWaits(k, b, Bytes(r), g)
  <2>1. ~k.finish
    BY <1>1 DEF ServiceDone
  <2>2. (g \o k.send) \o Answer(r) = Owed(b)
    BY <1>1, <1>3 DEF ServiceDone
  <2> QED
    BY <1>1, <1>3, <1>4, <2>1, <2>2 DEF ServiceWaits, ServiceDone
<1>6. ~(k.data /\ k.close)
  BY <1>2 DEF ServiceOK
<1> QED
  BY <1>4, <1>5, <1>6 DEF ServiceOK, b

\* A client that has everything shuts its side.
LEMMA ServiceShut ==
  ASSUME NEW k, k.send \in Seq(AnswerParts), NEW a \in Seq(Requests), Numbered(a),
         NEW w \in Seq(Units), NEW g \in Seq(AnswerParts), ServiceOK(k, a, w, g),
         Everything(a, g), ~Contains(w, FIN)
  PROVE  ServiceOK(k, a, Append(Take(w, Len(w) - 0), FIN), g)
<1>1. ServiceDone(k, a, w, g) /\ g = Owed(a)
  BY ServiceSettled
<1>2. w = <<>>
  BY <1>1, Unended DEF ServiceDone
<1>3. Append(Take(w, Len(w) - 0), FIN) = <<FIN>>
  BY <1>1, Unended DEF ServiceDone
<1>4. ServiceDone(k, a, <<FIN>>, g)
  BY <1>1 DEF ServiceDone
<1> QED
  BY <1>1, <1>3, <1>4 DEF ServiceOK

-----------------------------------------------------------------------------
(* The RESTful server: a file is sent in pieces.                           *)

\* What is left of a file, and all that is on its way.
Left(k) == IF k.file > 0 THEN SubSeq(Answer(k.request), 4 - k.file, 3) ELSE <<>>
\* A file is one that was asked for.
FileOK(k) ==
  /\ k.file \in -1 .. 2
  /\ k.file > 0 => k.request \in Requests /\ k.request.kind.page = "file"

\* Parts of an answer.
LEMMA PartOf ==
  ASSUME NEW S, NEW s \in Seq(S), NEW i \in 1 .. Len(s) + 1, NEW j \in i - 1 .. Len(s)
  PROVE  /\ SubSeq(s, i, j) \in Seq(S) /\ Len(SubSeq(s, i, j)) = j - i + 1
         /\ SubSeq(s, i, j) \o SubSeq(s, j + 1, Len(s)) = SubSeq(s, i, Len(s))
<1>1. Len(s) \in Nat /\ \A n \in 1 .. Len(s) : s[n] \in S
  BY LenProperties, ElementOfSeq
<1>2. \A n \in i .. j : s[n] \in S
  BY <1>1
<1>3. SubSeq(s, i, j) \in Seq(S) /\ Len(SubSeq(s, i, j)) = IF i <= j THEN j - i + 1 ELSE 0
  BY <1>1, <1>2, SubSeqProperties
<1>4. Len(s) \in j .. Len(s)
  BY <1>1
<1>5. SubSeq(s, i, j) \o SubSeq(s, j + 1, Len(s)) = SubSeq(s, i, Len(s))
  BY <1>4, ConcatAdjacentSubSeq
<1>6. Len(SubSeq(s, i, j)) = j - i + 1
  BY <1>1, <1>3
<1> QED
  BY <1>3, <1>5, <1>6

\* What goes on with a file changes nothing that is on its way, nor anything else but,
\* at its end, the length of what was reassembled; and it leaves no file with nothing
\* in the buffer.
Moves(k, j) ==
  /\ DOMAIN j = Fields /\ j.send \in Seq(AnswerParts) /\ FileOK(j)
  /\ j.send \o Left(j) = k.send \o Left(k)
  /\ j.file > 0 => k.file > 0 /\ j.request = k.request
  /\ j.recv = k.recv /\ j.close = k.close /\ j.data = k.data /\ j.finish = k.finish
  /\ j.body_len = k.body_len \/ (j.body_len = 0 /\ k.file = 0)
  /\ j.send = <<>> => j.file = -1

\* A piece goes into the buffer and is no longer left.
LEMMA Transferred ==
  ASSUME NEW k, DOMAIN k = Fields, k.send \in Seq(AnswerParts), FileOK(k),
         NEW j, j = transfer_file_data(k)
  PROVE  Moves(k, j)
<1> DEFINE parts == Answer(k.request)
           room == SendBuffer - Len(k.send)
           n == IF k.file < room THEN k.file ELSE room
           piece == SubSeq(parts, 4 - k.file, 3 - k.file + n)
<1>1. room \in Int /\ k.file \in -1 .. 2
  BY LenProperties, SendBufferAssumption DEF FileOK
<1>2. CASE k.file < 0 \/ room <= 0
  <2>1. j = k
    BY <1>2 DEF transfer_file_data
  <2>2. k.send = <<>> => k.file = -1
    <3>1. k.send = <<>> => room > 0
      BY EmptySeq, SendBufferAssumption
    <3> QED
      BY <1>1, <1>2, <3>1
  <2> QED
    BY <2>1, <2>2 DEF Moves
<1>3. CASE ~(k.file < 0 \/ room <= 0) /\ k.file = 0
  <2>1. j = [k EXCEPT !.file = -1, !.request = NoRequest, !.body_len = 0]
    BY <1>3 DEF transfer_file_data
  <2>2. /\ DOMAIN j = Fields /\ j.send = k.send /\ j.file = -1 /\ j.recv = k.recv
        /\ j.close = k.close /\ j.data = k.data /\ j.finish = k.finish /\ j.body_len = 0
    BY <2>1 DEF Fields
  <2>3. Left(j) = <<>> /\ Left(k) = <<>>
    BY <1>3, <2>2 DEF Left
  <2>4. FileOK(j)
    BY <2>2 DEF FileOK
  <2> QED
    BY <1>3, <2>2, <2>3, <2>4 DEF Moves
<1>4. CASE ~(k.file < 0 \/ room <= 0) /\ k.file > 0
  <2>1. n \in 1 .. k.file /\ k.file \in 1 .. 2
    BY <1>1, <1>4
  <2>2. j = [k EXCEPT !.send = @ \o piece, !.file = @ - n]
    BY <1>4 DEF transfer_file_data
  <2>3. /\ DOMAIN j = Fields /\ j.send = k.send \o piece /\ j.file = k.file - n
        /\ j.recv = k.recv /\ j.close = k.close /\ j.data = k.data
        /\ j.body_len = k.body_len /\ j.request = k.request /\ j.finish = k.finish
    BY <2>2 DEF Fields
  <2> HIDE DEF n
  <2>4. k.request \in Requests /\ k.request.kind.page = "file"
    BY <1>4 DEF FileOK
  <2>5. parts \in Seq(AnswerParts) /\ Len(parts) = 3
    BY <2>4, Answering
  <2> HIDE DEF parts
  <2>14. 3 - k.file + n \in (4 - k.file) - 1 .. 3 /\ 4 - k.file \in 1 .. 4 /\ 3 + 1 = 4
    BY <2>1
  <2>6. 4 - k.file \in 1 .. Len(parts) + 1 /\ 3 - k.file + n \in (4 - k.file) - 1 .. Len(parts)
    BY <2>5, <2>14
  <2> DEFINE rest == SubSeq(parts, (3 - k.file + n) + 1, Len(parts))
  <2>7. piece \in Seq(AnswerParts) /\ piece \o rest = SubSeq(parts, 4 - k.file, Len(parts))
    BY <2>5, <2>6, PartOf
  <2>8. Left(k) = SubSeq(parts, 4 - k.file, Len(parts))
    BY <1>4, <2>5 DEF Left, parts
  <2>15. j.file \in 0 .. 1
    BY <2>1, <2>3
  <2>9. Left(j) = rest /\ rest \in Seq(AnswerParts)
    <3>1. 4 - j.file = (3 - k.file + n) + 1
      BY <2>1, <2>3
    <3>2. CASE j.file > 0
      <4>1. Left(j) = SubSeq(parts, 4 - j.file, 3)
        BY <2>3, <3>2 DEF Left, parts
      <4>2. Left(j) = rest
        BY <2>5, <3>1, <4>1
      <4>4. 4 - j.file \in 1 .. 3 + 1 /\ 3 \in (4 - j.file) - 1 .. 3
        BY <2>15, <3>2
      <4>3. 4 - j.file \in 1 .. Len(parts) + 1 /\ Len(parts) \in (4 - j.file) - 1 .. Len(parts)
        BY <2>5, <4>4
      <4> QED
        BY <2>5, <3>1, <4>2, <4>3, PartOf
    <3>3. CASE ~(j.file > 0)
      <4>1. (3 - k.file + n) + 1 = 4 /\ Left(j) = <<>>
        BY <2>1, <2>3, <3>3 DEF Left
      <4>2. rest = <<>>
        BY <2>5, <4>1, SubSeqEmpty
      <4>3. <<>> \in Seq(AnswerParts)
        BY EmptySeq
      <4> HIDE DEF rest
      <4> QED
        BY <4>1, <4>2, <4>3
    <3> QED
      BY <3>2, <3>3
  <2> HIDE DEF piece, rest
  <2>10. (k.send \o piece) \o rest = k.send \o (piece \o rest)
    BY <2>7, <2>9, ThreeParts
  <2>11. j.send \o Left(j) = k.send \o Left(k)
    BY <2>3, <2>7, <2>8, <2>9, <2>10
  <2>12. j.send \in Seq(AnswerParts)
    BY <2>3, <2>7, ConcatProperties
  <2>13. FileOK(j)
    BY <2>1, <2>3, <2>4 DEF FileOK
  <2>16. Len(piece) > 0
    BY <2>1, <2>5, <2>6, PartOf DEF piece
  <2>17. j.send # <<>>
    BY <2>3, <2>7, <2>16, NotEmptied
  <2> QED
    BY <1>4, <2>3, <2>11, <2>12, <2>13, <2>17 DEF Moves
<1> QED
  BY <1>1, <1>2, <1>3, <1>4

-----------------------------------------------------------------------------
(* The RESTful server: a request in chunks.                                *)

\* The head and q units of a request in chunks have come, and as many of them as the
\* length says have been reassembled to data.
Heard(s, b, r, q) ==
  /\ s \in Seq(Units) /\ b \in Nat
  /\ q \in 0 .. 2 * r.kind.body + 1 /\ 2 * b <= q
  /\ Len(s) = 2 + q - b
  /\ s[1] = Unit(r, "head") /\ s[2] = Unit(r, "blank")
  /\ \A i \in 1 .. b : s[2 + i] = Body(r)[i]
  /\ \A i \in 1 .. q - 2 * b : s[2 + b + i] = Chunked(r)[2 * b + i]

\* More units come.
LEMMA HeardMore ==
  ASSUME NEW s, NEW b, NEW r \in Requests, NEW q, Heard(s, b, r, q),
         NEW w \in Seq(Units), w = After(Chunked(r), q), NEW n \in 1 .. Len(w)
  PROVE  Heard(s \o Take(w, n), b, r, q + n) /\ After(w, n) = After(Chunked(r), q + n)
<1> SUFFICES ASSUME NEW j, j = s \o Take(w, n)
             PROVE  Heard(j, b, r, q + n) /\ After(w, n) = After(Chunked(r), q + n)
  OBVIOUS
<1> DEFINE C == Chunked(r)
           B == Body(r)
           t == Take(w, n)
<1>1. C \in Seq(Units) /\ Len(C) = 2 * r.kind.body + 1 /\ Len(C) \in Nat
  BY ChunkedIs
<1>2. /\ s \in Seq(Units) /\ b \in Nat /\ q \in 0 .. Len(C) /\ 2 * b <= q
      /\ Len(s) = 2 + q - b
      /\ s[1] = Unit(r, "head") /\ s[2] = Unit(r, "blank")
      /\ \A i \in 1 .. b : s[2 + i] = B[i]
      /\ \A i \in 1 .. q - 2 * b : s[2 + b + i] = C[2 * b + i]
  BY <1>1 DEF Heard
<1>3. Len(w) = Len(C) - q /\ \A i \in 1 .. Len(C) - q : w[i] = C[q + i]
  BY <1>1, <1>2, AfterUnits
<1>11. /\ Len(C) \in Nat /\ Len(w) \in Nat /\ b \in Nat /\ q \in Nat /\ n \in Nat /\ n >= 1
       /\ 2 * b <= q /\ q + n <= Len(C) /\ Len(w) = Len(C) - q /\ n \in 0 .. Len(w)
  <2>1. n \in 1 .. Len(C) - q /\ q \in 0 .. Len(C) /\ Len(C) \in Nat
    BY <1>1, <1>2, <1>3
  <2> HIDE DEF C
  <2> QED
    BY <1>2, <1>3, <2>1
<1>4. /\ t \in Seq(Units) /\ Len(t) = n
      /\ \A i \in 1 .. n : t[i] = C[q + i]
  <2>1. t \in Seq(Units) /\ Len(t) = n /\ \A i \in 1 .. n : t[i] = w[i]
    BY <1>11, TakeUnits
  <2>2. \A i \in 1 .. n : i \in 1 .. Len(C) - q
    BY <1>11
  <2> HIDE DEF t, C
  <2> QED
    BY <1>3, <2>1, <2>2
<1>5. /\ s \o t \in Seq(Units) /\ Len(s \o t) = 2 + q - b + n
      /\ \A i \in 1 .. 2 + q - b + n : (s \o t)[i] = IF i <= 2 + q - b THEN s[i]
                                                          ELSE t[i - (2 + q - b)]
  <2>1. /\ s \o t \in Seq(Units) /\ Len(s \o t) = Len(s) + Len(t)
        /\ \A i \in 1 .. Len(s) + Len(t) :
             (s \o t)[i] = IF i <= Len(s) THEN s[i] ELSE t[i - Len(s)]
    BY <1>2, <1>4, TwoUnits
  <2> QED
    BY <1>2, <1>4, <2>1
<1>6. j = s \o t
  BY DEF t
<1>7. \A i \in 1 .. 2 + q - b : j[i] = s[i]
  <2>1. \A i \in 1 .. 2 + q - b : i \in 1 .. 2 + q - b + n /\ i <= 2 + q - b
    BY <1>11
  <2> QED
    BY <1>5, <1>6, <2>1
<1>8. ASSUME NEW i \in 1 .. (q + n) - 2 * b PROVE j[2 + b + i] = C[2 * b + i]
  <2>1. CASE i <= q - 2 * b
    <3>1. i \in 1 .. q - 2 * b /\ 2 + b + i \in 1 .. 2 + q - b
      BY <1>11, <2>1
    <3> QED
      BY <1>2, <1>7, <3>1
  <2>2. CASE ~(i <= q - 2 * b)
    <3>1. PICK x \in 1 .. n : x = i - (q - 2 * b)
      BY <1>11, <2>2
    <3>2. PICK y \in 1 .. 2 + q - b + n : y = 2 + b + i
      BY <1>11
    <3>5. i \in Int /\ x \in Int /\ y \in Int /\ b \in Int /\ q \in Int /\ 2 * b \in Int
      BY <1>11
    <3>6. x = i - (q - 2 * b) /\ y = 2 + b + i /\ ~(i <= q - 2 * b)
      BY <2>2, <3>1, <3>2
    <3>7. q + x = 2 * b + i
      BY <3>5, <3>6
    <3>8. y - (2 + q - b) = x
      BY <3>5, <3>6
    <3>3. ~(y <= 2 + q - b) /\ y - (2 + q - b) = x /\ q + x = 2 * b + i
      BY <3>5, <3>6, <3>7, <3>8
    <3>4. (s \o t)[y] = t[x]
      BY <1>5, <3>3
    <3> QED
      BY <1>4, <1>6, <3>2, <3>3, <3>4
  <2> QED
    BY <2>1, <2>2, <1>2
<1>9. Heard(j, b, r, q + n)
  <2>1. q + n \in 0 .. 2 * r.kind.body + 1 /\ 2 * b <= q + n /\ 2 + q - b + n = 2 + (q + n) - b
    BY <1>1, <1>11
  <2>2. j[1] = Unit(r, "head") /\ j[2] = Unit(r, "blank")
    <3>1. 1 \in 1 .. 2 + q - b /\ 2 \in 1 .. 2 + q - b
      BY <1>11
    <3> QED
      BY <1>2, <1>7, <3>1
  <2>3. \A i \in 1 .. b : j[2 + i] = B[i]
    <3>1. \A i \in 1 .. b : 2 + i \in 1 .. 2 + q - b
      BY <1>11
    <3> QED
      BY <1>2, <1>7, <3>1
  <2>4. j \in Seq(Units) /\ Len(j) = 2 + (q + n) - b /\ b \in Nat
    BY <1>2, <1>5, <1>6, <2>1
  <2>5. \A i \in 1 .. (q + n) - 2 * b : j[2 + b + i] = Chunked(r)[2 * b + i]
    BY <1>8 DEF C
  <2>6. \A i \in 1 .. b : j[2 + i] = Body(r)[i]
    BY <2>3 DEF B
  <2> QED
    BY <2>1, <2>2, <2>4, <2>5, <2>6 DEF Heard
<1>10. After(w, n) = After(C, q + n)
  <2> DEFINE u == After(w, n)
             v == After(C, q + n)
  <2>1. u \in Seq(Units) /\ Len(u) = Len(w) - n /\ \A i \in 1 .. Len(w) - n : u[i] = w[n + i]
    BY <1>11, AfterUnits
  <2>2. q + n \in 0 .. Len(C)
    BY <1>11
  <2>3. v \in Seq(Units) /\ Len(v) = Len(C) - (q + n) /\ \A i \in 1 .. Len(C) - (q + n) : v[i] = C[q + n + i]
    BY <1>1, <2>2, AfterUnits
  <2> HIDE DEF u, v
  <2>4. Len(w) - n = Len(C) - (q + n)
    BY <1>11
  <2>5. ASSUME NEW i \in 1 .. Len(w) - n PROVE u[i] = v[i]
    <3>1. PICK x \in 1 .. Len(C) - q : x = n + i
      BY <1>11
    <3>2. q + x = q + n + i
      BY <1>11, <3>1
    <3>3. u[i] = w[x] /\ v[i] = C[q + n + i]
      BY <2>1, <2>3, <2>4, <3>1
    <3> QED
      BY <1>3, <3>2, <3>3
  <2>6. u = v
    BY <2>1, <2>3, <2>4, <2>5, SeqEqual
  <2> QED
    BY <2>6 DEF u, v
<1> QED
  BY <1>9, <1>10 DEF C

\* What stands behind the head: data, and chunks.
Gathered(buf, b, r, q) ==
  /\ buf \in Seq(Units) /\ Len(buf) = q - b
  /\ b \in Nat /\ q \in 0 .. 2 * r.kind.body + 1 /\ 2 * b <= q
  /\ \A i \in 1 .. b : buf[i] = Body(r)[i]
  /\ \A i \in 1 .. q - 2 * b : buf[b + i] = Chunked(r)[2 * b + i]

\* The same of the buffer behind the head.
LEMMA BehindHead ==
  ASSUME NEW r \in Requests, NEW s, NEW b, NEW q, Heard(s, b, r, q)
  PROVE  Gathered(After(s, 2), b, r, q)
<1> DEFINE buf == After(s, 2)
<1>1. /\ s \in Seq(Units) /\ b \in Nat /\ q \in 0 .. 2 * r.kind.body + 1 /\ 2 * b <= q
      /\ Len(s) = 2 + q - b
      /\ \A i \in 1 .. b : s[2 + i] = Body(r)[i]
      /\ \A i \in 1 .. q - 2 * b : s[2 + b + i] = Chunked(r)[2 * b + i]
  BY DEF Heard
<1>2. q \in Nat /\ b \in Nat /\ 2 * b <= q
  BY <1>1, ChunkedIs
<1>3. 2 \in 0 .. Len(s) /\ Len(s) - 2 = q - b
  BY <1>1, <1>2
<1>4. buf \in Seq(Units) /\ Len(buf) = q - b /\ \A i \in 1 .. q - b : buf[i] = s[2 + i]
  BY <1>1, <1>3, AfterUnits
<1> HIDE DEF buf
<1>5. \A i \in 1 .. b : buf[i] = Body(r)[i]
  <2>1. \A i \in 1 .. b : i \in 1 .. q - b
    BY <1>2
  <2> QED
    BY <1>1, <1>4, <2>1
<1>6. ASSUME NEW i \in 1 .. q - 2 * b PROVE buf[b + i] = Chunked(r)[2 * b + i]
  <2>1. b + i \in 1 .. q - b /\ 2 + (b + i) = 2 + b + i
    BY <1>2
  <2> QED
    BY <1>1, <1>4, <2>1
<1> QED
  BY <1>1, <1>4, <1>5, <1>6 DEF Gathered, buf

\* A whole chunk, the last one or neither begins behind the data and j chunks, as d
\* is the number of chunks that are whole.
LEMMA ChunkThere ==
  ASSUME NEW r \in Requests, NEW buf, NEW b, NEW q, Gathered(buf, b, r, q),
         NEW d \in 0 .. r.kind.body, q = 2 * d \/ q = 2 * d + 1, NEW j \in Nat
  PROVE  /\ parse_chunk(After(buf, b + 2 * j)) = 2 <=> b + j < d
         /\ b + j = d => parse_chunk(After(buf, b + 2 * j)) =
                         IF q = 2 * r.kind.body + 1 THEN 1 ELSE 0
<1> DEFINE x == After(buf, b + 2 * j)
           C == Chunked(r)
<1>1. r.kind.body \in 0 .. 2
  BY ChunkedIs
<1>2. PICK m \in Nat : m = r.kind.body
  BY <1>1
<1>3. /\ b \in Nat /\ q \in Nat /\ d \in Nat /\ d <= m /\ 2 * b <= q /\ q <= 2 * m + 1
      /\ (q = 2 * d \/ q = 2 * d + 1)
  BY <1>2 DEF Gathered
<1>4. buf \in Seq(Units) /\ Len(buf) = q - b /\ \A i \in 1 .. q - 2 * b : buf[b + i] = C[2 * b + i]
  BY DEF Gathered
<1> HIDE DEF C
<1>5. CASE b + 2 * j > Len(buf)
  <2>1. x = <<>>
    BY <1>3, <1>4, <1>5, SubSeqEmpty DEF After
  <2>2. parse_chunk(x) = 0
    BY <2>1, EmptySeq DEF parse_chunk
  <2>3. b + j > d
    BY <1>3, <1>4, <1>5
  <2> QED
    BY <1>3, <2>2, <2>3
<1>6. CASE b + 2 * j <= Len(buf)
  <2>1. b + 2 * j \in 0 .. Len(buf)
    BY <1>3, <1>4, <1>6
  <2>2. x \in Seq(Units) /\ Len(x) = Len(buf) - (b + 2 * j)
        /\ \A i \in 1 .. Len(buf) - (b + 2 * j) : x[i] = buf[b + 2 * j + i]
    BY <1>4, <2>1, AfterUnits
  <2> HIDE DEF x
  <2>3. Len(x) \in Nat /\ Len(x) = q - 2 * (b + j)
    BY <1>3, <1>4, <1>6, <2>2
  <2>4. Len(x) >= 1 => x[1] = C[2 * (b + j) + 1]
    <3> SUFFICES ASSUME Len(x) >= 1 PROVE x[1] = C[2 * (b + j) + 1]
      OBVIOUS
    <3>1. 1 \in 1 .. Len(buf) - (b + 2 * j)
      BY <1>3, <1>4, <2>2
    <3>2. PICK i \in 1 .. q - 2 * b : i = 2 * j + 1
      BY <1>3, <2>3
    <3>3. b + 2 * j + 1 = b + i /\ 2 * (b + j) + 1 = 2 * b + i
      BY <1>3, <3>2
    <3>4. x[1] = buf[b + i]
      BY <2>2, <3>1, <3>3
    <3>5. buf[b + i] = C[2 * b + i]
      BY <1>4
    <3> QED
      BY <3>3, <3>4, <3>5
  <2>5. x # <<>> <=> Len(x) >= 1
    BY <2>2, <2>3, EmptySeq
  <2>6. \A i \in 1 .. m : C[2 * i - 1].part = "size"
    BY <1>2, ChunkedIs DEF C
  <2>7. b + j < m => C[2 * (b + j) + 1].part = "size"
    <3> SUFFICES ASSUME b + j < m PROVE C[2 * (b + j) + 1].part = "size"
      OBVIOUS
    <3>1. PICK i \in 1 .. m : i = b + j + 1
      BY <1>3
    <3>2. 2 * i - 1 = 2 * (b + j) + 1
      BY <1>3, <3>1
    <3> QED
      BY <2>6, <3>2
  <2>8. b + j = m => C[2 * (b + j) + 1].part = "zero"
    BY <1>2, ChunkedIs DEF C
  <2>9. CASE b + j < d
    <3>1. Len(x) > 1 /\ b + j < m
      BY <1>3, <2>3, <2>9
    <3>2. x[1].part = "size"
      BY <2>3, <2>4, <2>7, <3>1
    <3>3. parse_chunk(x) = 2
      BY <3>1, <3>2 DEF parse_chunk
    <3>4. ~(b + j = d)
      BY <1>3, <2>9
    <3> QED
      BY <2>9, <3>3, <3>4 DEF x
  <2>10. CASE b + j = d /\ q = 2 * m + 1
    <3>1. Len(x) = 1 /\ b + j = m
      BY <1>3, <2>3, <2>10
    <3>2. x[1].part = "zero" /\ x # <<>>
      BY <2>4, <2>5, <2>8, <3>1
    <3>3. parse_chunk(x) = 1
      BY <3>2 DEF parse_chunk
    <3>4. ~(b + j < d)
      BY <1>3, <2>10
    <3> QED
      BY <1>2, <2>10, <3>3, <3>4 DEF x
  <2>11. CASE b + j = d /\ ~(q = 2 * m + 1)
    <3>1. Len(x) <= 1 /\ (Len(x) >= 1 => b + j < m)
      BY <1>3, <2>3, <2>11
    <3>2. x # <<>> => x[1].part = "size"
      BY <2>4, <2>5, <2>7, <3>1
    <3>3. parse_chunk(x) = 0
      BY <2>3, <3>1, <3>2 DEF parse_chunk
    <3>4. ~(b + j < d)
      BY <1>3, <2>11
    <3> QED
      BY <1>2, <2>11, <3>3, <3>4 DEF x
  <2>12. b + j < d \/ b + j = d
    BY <1>3, <2>3
  <2> QED
    BY <2>9, <2>10, <2>11, <2>12
<1>7. b + 2 * j > Len(buf) \/ b + 2 * j <= Len(buf)
  BY <1>3, <1>4
<1> QED
  BY <1>5, <1>6, <1>7

\* The places where chunks may begin, the one where mg_handle_chunked ends, the data,
\* and what becomes of the buffer.
Places(buf, b) == {b + 2 * j : j \in 0 .. Len(buf)}
EndOf(buf, b) ==
  CHOOSE i \in Places(buf, b) :
    /\ parse_chunk(After(buf, i)) # 2
    /\ \A j \in Places(buf, b) : j < i => parse_chunk(After(buf, j)) = 2
DataFrom(buf, b, n) == Take(buf, b) \o [j \in 1 .. n |-> buf[b + 2 * j]]
Assembly(s, body, e) == Take(s, 2) \o body \o After(After(s, 2), e)
Final(r, q) == IF q = 2 * r.kind.body + 1 THEN 1 ELSE 0

\* So the place that mg_handle_chunked ends at is behind the data and the d whole chunks.
LEMMA EndPlace ==
  ASSUME NEW r \in Requests, NEW buf, NEW b, NEW q, Gathered(buf, b, r, q),
         NEW d \in 0 .. r.kind.body, q = 2 * d \/ q = 2 * d + 1
  PROVE  b <= d /\ EndOf(buf, b) = b + 2 * (d - b)
<1> DEFINE places == Places(buf, b)
           Is(i) == /\ parse_chunk(After(buf, i)) # 2
                    /\ \A j \in places : j < i => parse_chunk(After(buf, j)) = 2
<1>1. r.kind.body \in 0 .. 2
  BY ChunkedIs
<1>2. b \in Nat /\ q \in Nat /\ d \in Nat /\ 2 * b <= q /\ Len(buf) = q - b /\ b <= d
  BY <1>1 DEF Gathered
<1>3. \A j \in Nat : parse_chunk(After(buf, b + 2 * j)) = 2 <=> b + j < d
  BY ChunkThere
<1>4. PICK e \in places : e = b + 2 * (d - b)
  <2>1. d - b \in 0 .. Len(buf)
    BY <1>2
  <2> QED
    BY <2>1 DEF Places
<1>5. Is(e)
  <2>1. parse_chunk(After(buf, e)) # 2
    <3>1. d - b \in Nat /\ ~(b + (d - b) < d)
      BY <1>2
    <3> QED
      BY <1>3, <1>4, <3>1
  <2>2. ASSUME NEW i \in places, i < e PROVE parse_chunk(After(buf, i)) = 2
    <3>1. PICK j \in 0 .. Len(buf) : i = b + 2 * j
      BY DEF Places
    <3>2. j \in Nat /\ b + j < d
      BY <1>2, <1>4, <2>2, <3>1
    <3> QED
      BY <1>3, <3>1, <3>2
  <2> QED
    BY <2>1, <2>2
<1>6. ASSUME NEW i \in places, Is(i) PROVE i = e
  <2>1. PICK j \in 0 .. Len(buf) : i = b + 2 * j
    BY DEF Places
  <2>2. j \in Nat /\ ~(b + j < d)
    BY <1>2, <1>3, <1>6, <2>1
  <2>3. ~(e < i)
    <3>1. parse_chunk(After(buf, e)) # 2
      BY <1>5
    <3> QED
      BY <1>6, <3>1
  <2> QED
    BY <1>2, <1>4, <2>1, <2>2, <2>3
<1>7. EndOf(buf, b) = CHOOSE i \in places : Is(i)
  BY DEF EndOf
<1> HIDE DEF Is
<1>8. EndOf(buf, b) = e
  BY <1>5, <1>6, <1>7
<1> QED
  BY <1>2, <1>4, <1>8

\* The data of the chunks that are whole.
LEMMA DataOf ==
  ASSUME NEW r \in Requests, NEW buf, NEW b, NEW q, Gathered(buf, b, r, q),
         NEW d \in 0 .. r.kind.body, q = 2 * d \/ q = 2 * d + 1, b <= d,
         NEW body, body = DataFrom(buf, b, d - b)
  PROVE  body \in Seq(Units) /\ Len(body) = d /\ \A i \in 1 .. d : body[i] = Body(r)[i]
<1> DEFINE s == Take(buf, b)
           t == [x \in 1 .. d - b |-> buf[b + 2 * x]]
<1>1. r.kind.body \in 0 .. 2
  BY ChunkedIs
<1>2. b \in Nat /\ q \in Nat /\ d \in Nat /\ 2 * b <= q /\ Len(buf) = q - b /\ 2 * d <= q /\ b <= d
      /\ buf \in Seq(Units)
  BY <1>1 DEF Gathered
<1>3. s \in Seq(Units) /\ Len(s) = b /\ \A i \in 1 .. b : s[i] = Body(r)[i]
  <2>1. b \in 0 .. Len(buf)
    BY <1>2
  <2>2. s \in Seq(Units) /\ Len(s) = b /\ \A i \in 1 .. b : s[i] = buf[i]
    BY <1>2, <2>1, TakeUnits
  <2> QED
    BY <2>2 DEF Gathered
<1>4. ASSUME NEW x \in 1 .. d - b PROVE buf[b + 2 * x] = Body(r)[b + x] /\ buf[b + 2 * x] \in Units
  <2>1. 2 * x \in 1 .. q - 2 * b /\ b + 2 * x \in 1 .. Len(buf)
    BY <1>2
  <2>2. buf[b + 2 * x] = Chunked(r)[2 * b + 2 * x]
    BY <2>1 DEF Gathered
  <2>3. PICK y \in 1 .. r.kind.body : y = b + x
    BY <1>1, <1>2
  <2>4. 2 * y = 2 * b + 2 * x
    BY <1>2, <2>3
  <2>5. Chunked(r)[2 * y] = Body(r)[y]
    BY ChunkedIs
  <2>6. buf[b + 2 * x] \in Units
    BY <1>2, <2>1, ElementOfSeq
  <2> QED
    BY <2>2, <2>3, <2>4, <2>5, <2>6
<1>5. t \in Seq(Units) /\ Len(t) = d - b /\ \A x \in 1 .. d - b : t[x] = Body(r)[b + x]
  <2>1. t \in [1 .. d - b -> Units] /\ d - b \in Nat
    BY <1>2, <1>4
  <2>2. \A x \in 1 .. d - b : t[x] = Body(r)[b + x]
    BY <1>4
  <2> HIDE DEF t
  <2> QED
    BY <2>1, <2>2
<1>6. body = s \o t
  BY DEF DataFrom
<1> HIDE DEF s, t
<1>7. /\ body \in Seq(Units) /\ Len(body) = d
      /\ \A i \in 1 .. d : body[i] = IF i <= b THEN s[i] ELSE t[i - b]
  <2>1. /\ s \o t \in Seq(Units) /\ Len(s \o t) = Len(s) + Len(t)
        /\ \A i \in 1 .. Len(s) + Len(t) : (s \o t)[i] = IF i <= Len(s) THEN s[i] ELSE t[i - Len(s)]
    BY <1>3, <1>5, TwoUnits
  <2>2. Len(s) = b /\ Len(s) + Len(t) = d
    BY <1>2, <1>3, <1>5
  <2> QED
    BY <1>6, <2>1, <2>2
<1>8. ASSUME NEW i \in 1 .. d PROVE body[i] = Body(r)[i]
  <2>1. CASE i <= b
    <3>1. i \in 1 .. b
      BY <1>2, <2>1
    <3> QED
      BY <1>3, <1>7, <2>1, <3>1
  <2>2. CASE ~(i <= b)
    <3>1. PICK x \in 1 .. d - b : x = i - b /\ b + x = i
      BY <1>2, <2>2
    <3>2. body[i] = t[x]
      BY <1>7, <2>2, <3>1
    <3>3. t[x] = Body(r)[b + x]
      BY <1>5
    <3> QED
      BY <3>1, <3>2, <3>3
  <2> QED
    BY <2>1, <2>2
<1> QED
  BY <1>7, <1>8

\* The head, the data, and what stays behind them.
LEMMA Assembled ==
  ASSUME NEW r \in Requests, NEW s, NEW b, NEW q, Heard(s, b, r, q),
         NEW d \in 0 .. r.kind.body, q = 2 * d \/ q = 2 * d + 1, b <= d,
         NEW body \in Seq(Units), Len(body) = d, \A i \in 1 .. d : body[i] = Body(r)[i],
         NEW v, v = Assembly(s, body, b + 2 * (d - b) + Final(r, q))
  PROVE  /\ v \in Seq(Units) /\ Len(v) = 2 + q - d - Final(r, q)
         /\ v[1] = Unit(r, "head") /\ v[2] = Unit(r, "blank")
         /\ \A i \in 1 .. d : v[2 + i] = Body(r)[i]
         /\ Final(r, q) = 0 => Heard(v, d, r, q)
<1> DEFINE p == Final(r, q)
           buf == After(s, 2)
           h == Take(s, 2)
           x == h \o body
           e == b + 2 * (d - b) + p
           rest == After(buf, e)
<1>1. r.kind.body \in 0 .. 2
  BY ChunkedIs
<1>2. /\ b \in Nat /\ q \in Nat /\ d \in Nat /\ 2 * b <= q /\ b <= d /\ p \in 0 .. 1
      /\ 2 * d <= q /\ q <= 2 * d + 1 /\ (p = 1 => q = 2 * d + 1)
      /\ q \in 0 .. 2 * r.kind.body + 1
  BY <1>1 DEF Heard, Final
<1> HIDE DEF p
<1>3. buf \in Seq(Units) /\ Len(buf) = q - b
      /\ \A i \in 1 .. q - 2 * b : buf[b + i] = Chunked(r)[2 * b + i]
  BY BehindHead DEF Gathered
<1>4. s \in Seq(Units) /\ Len(s) = 2 + q - b /\ s[1] = Unit(r, "head") /\ s[2] = Unit(r, "blank")
  BY DEF Heard
<1>5. h \in Seq(Units) /\ Len(h) = 2 /\ h[1] = s[1] /\ h[2] = s[2]
  <2>1. 2 \in 0 .. Len(s) /\ 1 \in 1 .. 2 /\ 2 \in 1 .. 2
    BY <1>2, <1>4
  <2> QED
    BY <1>4, <2>1, TakeUnits
<1>6. e \in 0 .. Len(buf) /\ Len(buf) - e = q - 2 * d - p
  <2>1. PICK l \in Int : l = Len(buf) /\ l = q - b
    BY <1>2, <1>3
  <2>2. PICK y \in Int : y = e /\ y = b + 2 * (d - b) + p
    BY <1>2
  <2>3. p = 0 \/ (p = 1 /\ q = 2 * d + 1)
    BY <1>2
  <2> HIDE DEF e, buf, rest
  <2>4. y \in 0 .. l /\ l - y = q - 2 * d - p
    BY <1>2, <2>1, <2>2, <2>3
  <2> QED
    BY <2>1, <2>2, <2>4
<1>7. rest \in Seq(Units) /\ Len(rest) = q - 2 * d - p
      /\ \A i \in 1 .. q - 2 * d - p : rest[i] = buf[e + i]
  <2>1. rest = After(buf, e)
    OBVIOUS
  <2> HIDE DEF buf, e, rest
  <2>2. After(buf, e) \in Seq(Units) /\ Len(After(buf, e)) = Len(buf) - e
        /\ \A i \in 1 .. Len(buf) - e : After(buf, e)[i] = buf[e + i]
    BY <1>3, <1>6, AfterUnits
  <2> QED
    BY <1>6, <2>1, <2>2
<1>8. v = x \o rest
  BY DEF Assembly, p
<1> HIDE DEF buf, h, e, rest
<1>9. /\ x \in Seq(Units) /\ Len(x) = 2 + d
      /\ \A i \in 1 .. 2 : x[i] = h[i]
      /\ \A i \in 1 .. d : x[2 + i] = body[i]
  <2>1. /\ x \in Seq(Units) /\ Len(x) = Len(h) + Len(body)
        /\ \A i \in 1 .. Len(h) : x[i] = h[i]
        /\ \A i \in 1 .. Len(body) : x[Len(h) + i] = body[i]
    BY <1>5, Joined
  <2> HIDE DEF x
  <2> QED
    BY <1>5, <2>1
<1> HIDE DEF x
<1>17. q - 2 * d - p \in Nat /\ 2 + d \in Nat
  BY <1>2
<1>10. /\ v \in Seq(Units) /\ Len(v) = (2 + d) + (q - 2 * d - p)
       /\ \A i \in 1 .. 2 + d : v[i] = x[i]
       /\ \A i \in 1 .. q - 2 * d - p : v[(2 + d) + i] = rest[i]
  <2> DEFINE u == x \o rest
  <2>1. /\ u \in Seq(Units) /\ Len(u) = Len(x) + Len(rest)
        /\ \A i \in 1 .. Len(x) : u[i] = x[i]
        /\ \A i \in 1 .. Len(rest) : u[Len(x) + i] = rest[i]
    <3>1. x \in Seq(Units) /\ rest \in Seq(Units)
      BY <1>7, <1>9
    <3> QED
      BY <3>1, Joined
  <2>2. Len(x) = 2 + d /\ Len(rest) = q - 2 * d - p /\ v = u
    BY <1>7, <1>8, <1>9
  <2> HIDE DEF u
  <2> QED
    BY <2>1, <2>2
<1>11. v \in Seq(Units) /\ Len(v) = 2 + q - d - p
  <2>1. (2 + d) + (q - 2 * d - p) = 2 + q - d - p
    BY <1>2, <1>17
  <2> QED
    BY <1>10, <2>1
<1>12. \A i \in 1 .. 2 + d : v[i] = x[i]
  BY <1>10
<1>13. v[1] = Unit(r, "head") /\ v[2] = Unit(r, "blank")
  <2>1. 1 \in 1 .. 2 + d /\ 2 \in 1 .. 2 + d /\ 1 \in 1 .. 2 /\ 2 \in 1 .. 2
    BY <1>2
  <2> QED
    BY <1>4, <1>5, <1>9, <1>12, <2>1
<1>14. \A i \in 1 .. d : v[2 + i] = Body(r)[i]
  <2>1. \A i \in 1 .. d : 2 + i \in 1 .. 2 + d
    BY <1>2
  <2> QED
    BY <1>9, <1>12, <2>1
<1>15. ASSUME p = 0, NEW i \in 1 .. q - 2 * d PROVE v[2 + d + i] = Chunked(r)[2 * d + i]
  <2>1. i = 1 /\ q = 2 * d + 1
    BY <1>2
  <2>2. v[3 + d] = rest[1]
    <3>1. 1 \in 1 .. q - 2 * d - p /\ (2 + d) + 1 = 3 + d
      BY <1>2, <1>15, <2>1
    <3> QED
      BY <1>8, <1>10, <3>1
  <2>3. rest[1] = buf[e + 1]
    <3>1. 1 \in 1 .. q - 2 * d - p
      BY <1>2, <1>15, <2>1
    <3> QED
      BY <1>7, <3>1
  <2>4. buf[e + 1] = Chunked(r)[2 * d + 1]
    <3>1. PICK y \in 1 .. q - 2 * b : y = 2 * (d - b) + 1
      BY <1>2, <2>1
    <3>2. e + 1 = b + y /\ 2 * b + y = 2 * d + 1
      BY <1>2, <1>15, <3>1 DEF e
    <3> QED
      BY <1>3, <3>2
  <2>5. 2 + d + i = 3 + d
    BY <1>2, <2>1
  <2> QED
    BY <2>1, <2>2, <2>3, <2>4, <2>5
<1>16. ASSUME p = 0 PROVE Heard(v, d, r, q)
  <2>1. Len(v) = 2 + q - d
    BY <1>2, <1>11, <1>16
  <2>2. \A i \in 1 .. q - 2 * d : v[2 + d + i] = Chunked(r)[2 * d + i]
    BY <1>15, <1>16
  <2> QED
    BY <1>2, <1>11, <1>13, <1>14, <2>1, <2>2 DEF Heard
<1> QED
  BY <1>11, <1>13, <1>14, <1>16 DEF p

\* The buffer has a chunk without data, which ends a message.
Ends(buf) == \E u \in ToSet(buf) : u.part = "zero"

\* The chunks without data are counted.
LEMMA ZerosCounted ==
  ASSUME NEW s \in Seq(Units)
  PROVE  Zeros(s) \in Nat /\ (Zeros(s) = 0 <=> ~Ends(s))
<1> DEFINE Z == {i \in DOMAIN s : s[i].part = "zero"}
<1>1. DOMAIN s = 1 .. Len(s) /\ Len(s) \in Nat
  BY LenProperties
<1>2. IsFiniteSet(Z)
  <2>1. IsFiniteSet(1 .. Len(s))
    BY <1>1, FS_Interval
  <2>2. Z \subseteq 1 .. Len(s)
    BY <1>1
  <2> QED
    BY <2>1, <2>2, FS_Subset
<1>3. Cardinality(Z) \in Nat /\ (Cardinality(Z) = 0 <=> Z = {})
  BY <1>2, FS_CardinalityType, FS_EmptySet
<1>4. Z = {} <=> ~Ends(s)
  BY DEF Ends, ToSet
<1> QED
  BY <1>3, <1>4 DEF Zeros

\* The end of the chunks is in the buffer when all units are.
LEMMA HeardEnds ==
  ASSUME NEW r \in Requests, NEW s, NEW b, NEW q, Heard(s, b, r, q)
  PROVE  Ends(s) <=> q = 2 * r.kind.body + 1
<1> DEFINE C == Chunked(r)
           m == r.kind.body
<1>1. m \in 0 .. 2
  BY ChunkedIs
<1>2. /\ s \in Seq(Units) /\ b \in Nat /\ q \in Nat /\ q <= 2 * m + 1 /\ 2 * b <= q
      /\ Len(s) = 2 + q - b
      /\ s[1] = Unit(r, "head") /\ s[2] = Unit(r, "blank")
      /\ \A i \in 1 .. b : s[2 + i] = Body(r)[i]
      /\ \A i \in 1 .. q - 2 * b : s[2 + b + i] = C[2 * b + i]
  BY <1>1 DEF Heard
<1>3. /\ \A i \in 1 .. m : C[2 * i - 1].part = "size" /\ C[2 * i] = Body(r)[i]
                           /\ Body(r)[i].part \in {"body", "more"}
      /\ C[2 * m + 1].part = "zero"
  BY ChunkedIs
<1>4. Unit(r, "head").part = "head" /\ Unit(r, "blank").part = "blank"
  BY DEF Unit
<1>5. ToSet(s) = {s[i] : i \in 1 .. 2 + q - b}
  BY <1>2, LenProperties DEF ToSet
<1> HIDE DEF C, m
<1>6. ASSUME q = 2 * m + 1 PROVE Ends(s)
  <2>1. PICK i \in 1 .. q - 2 * b : i = q - 2 * b
    BY <1>1, <1>2, <1>6
  <2>2. 2 * b + i = 2 * m + 1 /\ 2 + b + i \in 1 .. 2 + q - b
    BY <1>1, <1>2, <1>6, <2>1
  <2>3. s[2 + b + i].part = "zero"
    BY <1>2, <1>3, <2>2
  <2> QED
    BY <1>5, <2>2, <2>3 DEF Ends
<1>7. ASSUME ~(q = 2 * m + 1) PROVE ~Ends(s)
  <2>1. \A i \in 1 .. 2 * m : C[i].part # "zero"
    <3> SUFFICES ASSUME NEW i \in 1 .. 2 * m PROVE C[i].part # "zero"
      OBVIOUS
    <3>1. PICK j \in 1 .. m : i = 2 * j - 1 \/ i = 2 * j
      BY <1>1
    <3> QED
      BY <1>3, <3>1
  <2>2. ASSUME NEW i \in 1 .. 2 + q - b PROVE s[i].part # "zero"
    <3>1. CASE i = 1 \/ i = 2
      BY <1>2, <1>4, <3>1
    <3>2. CASE i > 2 /\ i <= 2 + b
      <4>1. PICK j \in 1 .. b : i = 2 + j
        BY <1>2, <3>2
      <4>2. j \in 1 .. m
        BY <1>1, <1>2, <1>7
      <4> QED
        BY <1>2, <1>3, <4>1, <4>2
    <3>3. CASE i > 2 + b
      <4>3. b \in Nat /\ q \in Nat /\ 2 * b <= q /\ i \in 1 .. 2 + q - b /\ i > 2 + b
        BY <1>2, <3>3
      <4>4. i - (2 + b) \in 1 .. q - 2 * b /\ i = 2 + b + (i - (2 + b))
        BY <4>3
      <4>1. PICK j \in 1 .. q - 2 * b : i = 2 + b + j
        BY <4>4
      <4>2. 2 * b + j \in 1 .. 2 * m
        BY <1>1, <1>2, <1>7
      <4> QED
        BY <1>2, <2>1, <4>1, <4>2
    <3> QED
      BY <1>2, <3>1, <3>2, <3>3
  <2> QED
    BY <1>5, <2>2 DEF Ends
<1> QED
  BY <1>6, <1>7 DEF m

\* All units have come: what is reassembled is the body, and the end is not left.
LEMMA AssembledAll ==
  ASSUME NEW r \in Requests, NEW v \in Seq(Units), NEW d, d = r.kind.body, Len(v) = 2 + d,
         v[1] = Unit(r, "head"), v[2] = Unit(r, "blank"),
         \A i \in 1 .. d : v[2 + i] = Body(r)[i]
  PROVE  SubSeq(v, 3, 2 + d) = Body(r) /\ ~Ends(v)
<1>1. d \in Nat /\ Len(Body(r)) = d /\ Body(r) \in Seq(Units)
      /\ \A i \in 1 .. d : Body(r)[i].part \in {"body", "more"}
  BY BodyUnits, ChunkedIs
<1>2. SubSeq(v, 3, 2 + d) = Body(r)
  <2> DEFINE x == After(v, 2)
  <2>1. x = SubSeq(v, 3, 2 + d)
    BY <1>1 DEF After
  <2>2. 2 \in 0 .. Len(v)
    BY <1>1
  <2>3. x \in Seq(Units) /\ Len(x) = Len(v) - 2 /\ \A i \in 1 .. Len(v) - 2 : x[i] = v[2 + i]
    BY <2>2, AfterUnits
  <2> HIDE DEF x
  <2>4. Len(v) - 2 = d
    BY <1>1
  <2>5. Len(x) = Len(Body(r)) /\ \A i \in 1 .. Len(x) : x[i] = Body(r)[i]
    BY <1>1, <2>3, <2>4
  <2>6. x = Body(r)
    BY <1>1, <2>3, <2>5, SeqEqual
  <2> QED
    BY <2>1, <2>6
<1>3. ~Ends(v)
  <2>1. ToSet(v) = {v[i] : i \in 1 .. 2 + d}
    BY LenProperties DEF ToSet
  <2>2. ASSUME NEW i \in 1 .. 2 + d PROVE v[i].part # "zero"
    <3>1. CASE i = 1 \/ i = 2
      BY <3>1 DEF Unit
    <3>2. CASE ~(i = 1 \/ i = 2)
      <4>1. i - 2 \in 1 .. d /\ i = 2 + (i - 2)
        BY <1>1, <3>2
      <4>2. PICK y \in 1 .. d : i = 2 + y
        BY <4>1
      <4> QED
        BY <1>1, <4>2
    <3> QED
      BY <3>1, <3>2
  <2> QED
    BY <2>1, <2>2 DEF Ends
<1> QED
  BY <1>2, <1>3

\* What mg_handle_chunked leaves of k in j, when q units of r have come: what is whole is
\* reassembled, and with the last chunk the body is.
Reassembled(k, j, r, q) ==
  /\ DOMAIN j = Fields /\ j.send = k.send /\ j.file = k.file /\ j.close = k.close
  /\ j.data = k.data /\ j.finish = k.finish /\ j.recv \in Seq(Units)
  /\ Ends(k.recv) <=> q = 2 * r.kind.body + 1
  /\ ~Ends(k.recv) => Heard(j.recv, j.body_len, r, q)
  /\ Ends(k.recv) => /\ ~Ends(j.recv)
                     /\ SubSeq(j.recv, 2 + 1, 2 + j.body_len) = Body(r)

\* mg_handle_chunked takes all whole chunks out, and at the empty one ends the body.
LEMMA ChunksHandled ==
  ASSUME NEW r \in Requests, NEW k, DOMAIN k = Fields, NEW q, Heard(k.recv, k.body_len, r, q)
  PROVE  Reassembled(k, mg_handle_chunked(k, 2), r, q)
<1> DEFINE j == mg_handle_chunked(k, 2)
           s == k.recv
           b == k.body_len
           buf == After(s, 2)
           end == EndOf(buf, b)
           body == DataFrom(buf, b, (end - b) \div 2)
           p == parse_chunk(After(buf, end))
           v == Assembly(s, body, end + p)
<1>1. j = [k EXCEPT !.recv = v, !.body_len = Len(body)]
  BY DEF mg_handle_chunked, EndOf, Places, DataFrom, Assembly
<1>2. r.kind.body \in 0 .. 2
  BY ChunkedIs
<1>3. b \in Nat /\ q \in Nat /\ 2 * b <= q /\ q <= 2 * r.kind.body + 1
  BY <1>2 DEF Heard
<1>4. PICK d \in 0 .. r.kind.body : q = 2 * d \/ q = 2 * d + 1
  BY <1>2, <1>3
<1> HIDE DEF j, s, b, v, body
<1>5. /\ DOMAIN j = Fields /\ j.send = k.send /\ j.file = k.file /\ j.close = k.close
      /\ j.data = k.data /\ j.finish = k.finish /\ j.recv = v /\ j.body_len = Len(body)
  BY <1>1 DEF Fields
<1>6. Heard(s, b, r, q)
  BY DEF s, b
<1>7. Gathered(buf, b, r, q)
  BY <1>6, BehindHead
<1> HIDE DEF buf
<1>8. b <= d /\ end = b + 2 * (d - b)
  BY <1>4, <1>7, EndPlace
<1> HIDE DEF end
<1>9. p = Final(r, q)
  <2>1. d - b \in Nat /\ b + (d - b) = d
    BY <1>2, <1>3, <1>8
  <2>2. parse_chunk(After(buf, b + 2 * (d - b))) = IF q = 2 * r.kind.body + 1 THEN 1 ELSE 0
    BY <1>4, <1>7, <2>1, ChunkThere
  <2> QED
    BY <1>8, <2>2 DEF Final
<1>10. body = DataFrom(buf, b, d - b)
  <2>1. (end - b) \div 2 = d - b
    BY <1>2, <1>3, <1>8
  <2> QED
    BY <2>1 DEF body
<1>11. body \in Seq(Units) /\ Len(body) = d /\ \A i \in 1 .. d : body[i] = Body(r)[i]
  BY <1>4, <1>7, <1>8, <1>10, DataOf
<1>12. v = Assembly(s, body, b + 2 * (d - b) + Final(r, q))
  BY <1>8, <1>9 DEF v
<1> HIDE DEF p
<1>13. /\ v \in Seq(Units) /\ Len(v) = 2 + q - d - p
       /\ v[1] = Unit(r, "head") /\ v[2] = Unit(r, "blank")
       /\ \A i \in 1 .. d : v[2 + i] = Body(r)[i]
       /\ p = 0 => Heard(v, d, r, q)
  <2>1. /\ v \in Seq(Units) /\ Len(v) = 2 + q - d - Final(r, q)
        /\ v[1] = Unit(r, "head") /\ v[2] = Unit(r, "blank")
        /\ \A i \in 1 .. d : v[2 + i] = Body(r)[i]
        /\ Final(r, q) = 0 => Heard(v, d, r, q)
    BY <1>4, <1>6, <1>8, <1>11, <1>12, Assembled
  <2> QED
    BY <1>9, <2>1
<1>14. Ends(s) <=> q = 2 * r.kind.body + 1
  BY <1>6, HeardEnds
<1>15. ~Ends(s) => Heard(v, d, r, q)
  BY <1>9, <1>13, <1>14 DEF Final
<1>16. Ends(s) => SubSeq(v, 2 + 1, 2 + d) = Body(r) /\ ~Ends(v)
  <2> SUFFICES ASSUME Ends(s) PROVE SubSeq(v, 2 + 1, 2 + d) = Body(r) /\ ~Ends(v)
    OBVIOUS
  <2>1. q = 2 * r.kind.body + 1 /\ p = 1
    BY <1>9, <1>14 DEF Final
  <2>4. PICK m \in Nat : m = r.kind.body
    BY <1>2
  <2>5. d \in Nat /\ d = m
    BY <1>4, <2>1, <2>4
  <2>6. Len(v) = 2 + q - d - 1
    BY <1>13, <2>1
  <2>2. d = r.kind.body /\ Len(v) = 2 + d
    <3>1. q = 2 * m + 1
      BY <2>1, <2>4
    <3>2. 2 + q - d - 1 = 2 + d
      BY <2>5, <3>1
    <3> QED
      BY <2>4, <2>5, <2>6, <3>2
  <2>3. SubSeq(v, 3, 2 + d) = Body(r) /\ ~Ends(v)
    BY <1>13, <2>2, AssembledAll
  <2> QED
    BY <2>3
<1> QED
  BY <1>5, <1>11, <1>13, <1>14, <1>15, <1>16 DEF s, j, Reassembled

-----------------------------------------------------------------------------
(* The RESTful server and a request that comes in pieces.                  *)

\* The head of a request that has come so far.
LEMMA HeadComes ==
  ASSUME NEW r \in Requests, NEW s \in Seq(Units), NEW w \in Seq(Units), s \o w = Bytes(r)
  PROVE  /\ Len(s) >= 1 => s[1] = Unit(r, "head")
         /\ Len(s) <= 1 => get_request_len(s) = 0
         /\ Len(s) >= 2 => /\ get_request_len(s) = 2
                           /\ s[1] = Unit(r, "head") /\ s[2] = Unit(r, "blank") /\ s[2].r = r
                           /\ After(s, 2) \o w = Behind(r)
<1>1. Len(s) \in Nat /\ Len(w) \in Nat
  BY LenProperties
<1>2. /\ Bytes(r)[1] = Unit(r, "head") /\ Bytes(r)[2] = Unit(r, "blank")
      /\ After(Bytes(r), 2) = Behind(r)
      /\ Unit(r, "head").part = "head" /\ Unit(r, "blank").part = "blank"
      /\ Unit(r, "blank").r = r
  BY BytesAre DEF Unit
<1>3. \A i \in 1 .. Len(s) : s[i] = Bytes(r)[i]
  <2>1. \A i \in 1 .. Len(s) : (s \o w)[i] = s[i]
    BY Joined
  <2> QED
    BY <2>1
<1>4. ASSUME Len(s) <= 1 PROVE get_request_len(s) = 0
  <2>1. \A i \in 1 .. Len(s) : i = 1
    BY <1>1, <1>4
  <2>2. \A i \in 1 .. Len(s) : s[i].part # "blank"
    BY <1>2, <1>3, <2>1
  <2> QED
    BY <1>1, <2>2, HeadAtTwo
<1>5. ASSUME Len(s) >= 2
      PROVE  /\ get_request_len(s) = 2 /\ s[1] = Unit(r, "head") /\ s[2] = Unit(r, "blank")
             /\ s[2].r = r /\ After(s, 2) \o w = Behind(r)
  <2>1. 1 \in 1 .. Len(s) /\ 2 \in 1 .. Len(s) /\ 2 \in 0 .. Len(s)
    BY <1>1, <1>5
  <2>2. s[1] = Unit(r, "head") /\ s[2] = Unit(r, "blank") /\ s[2].r = r
    BY <1>2, <1>3, <2>1
  <2>3. get_request_len(s) = 2
    BY <1>1, <1>2, <1>5, <2>2, HeadAtTwo
  <2>4. After(s \o w, 2) = After(s, 2) \o w
    BY <2>1, AfterConcat
  <2> QED
    BY <1>2, <2>2, <2>3, <2>4
<1>6. ASSUME Len(s) >= 1 PROVE s[1] = Unit(r, "head")
  <2>1. 1 \in 1 .. Len(s)
    BY <1>1, <1>6
  <2> QED
    BY <1>2, <1>3, <2>1
<1> QED
  BY <1>4, <1>5, <1>6

\* The head is there.
LEMMA HeadHeard ==
  ASSUME NEW r \in Requests, NEW s, NEW b, NEW q, Heard(s, b, r, q)
  PROVE  get_request_len(s) = 2 /\ s[2].r = r /\ s[1] = Unit(r, "head") /\ s \in Seq(Units)
<1>1. /\ Unit(r, "head").part = "head" /\ Unit(r, "blank").part = "blank"
      /\ Unit(r, "blank").r = r
  BY DEF Unit
<1>2. b \in Nat /\ q \in Nat /\ 2 * b <= q /\ s \in Seq(Units) /\ Len(s) = 2 + q - b
      /\ s[1] = Unit(r, "head") /\ s[2] = Unit(r, "blank")
  BY ChunkedIs DEF Heard
<1>3. Len(s) \in Nat /\ Len(s) >= 2
  BY <1>2
<1> QED
  BY <1>1, <1>2, <1>3, HeadAtTwo

\* The server refuses no head of a polite client but a long one that comes in pieces.
LEMMA NotRefused ==
  ASSUME NEW r \in Requests, r.kind.head \in {"good", "long"}, NEW s \in Seq(Units),
         Len(s) >= 1 => s[1] = Unit(r, "head"),
         get_request_len(s) = 2 \/ (get_request_len(s) = 0 /\ Len(s) <= 1)
  PROVE  Refused(s) => r.kind.head = "long" /\ get_request_len(s) = 0
<1> DEFINE n == get_request_len(s)
<1> SUFFICES ASSUME Refused(s) PROVE r.kind.head = "long" /\ n = 0
  OBVIOUS
<1>1. PICK i \in DOMAIN s :
        \/ s[i].r.kind.head = "control" /\ (n = 0 \/ i < n)
        \/ s[i].r.kind.head = "line" /\ i < n
        \/ s[i].r.kind.head = "long" /\ n = 0
  BY DEF Refused
<1>2. Len(s) \in Nat /\ i \in 1 .. Len(s)
  BY LenProperties
<1> HIDE DEF n
<1>3. n = 2 \/ (n = 0 /\ Len(s) <= 1)
  BY DEF n
<1>4. i = 1
  BY <1>1, <1>2, <1>3
<1>5. s[1].r = r
  BY <1>2, <1>4 DEF Unit
<1> QED
  BY <1>1, <1>3, <1>4, <1>5

\* The head of a request in chunks is there: some units behind it are.
LEMMA HeardFirst ==
  ASSUME NEW r \in Requests, r.kind.length = "chunked", NEW s \in Seq(Units),
         NEW w \in Seq(Units), s \o w = Bytes(r), Len(s) >= 2
  PROVE  \E q \in 0 .. 2 * r.kind.body + 1 : Heard(s, 0, r, q) /\ w = After(Chunked(r), q)
<1> DEFINE t == After(s, 2)
           C == Chunked(r)
<1>1. s[1] = Unit(r, "head") /\ s[2] = Unit(r, "blank") /\ t \o w = C
  BY HeadComes DEF Behind
<1>2. PICK q \in Nat : q = Len(s) - 2
  <2>1. Len(s) \in Nat
    BY LenProperties
  <2>2. Len(s) - 2 \in Nat
    BY <2>1
  <2> QED
    BY <2>2
<1>3. 2 \in 0 .. Len(s)
  BY <1>2
<1>4. t \in Seq(Units) /\ Len(t) = q /\ \A i \in 1 .. q : t[i] = s[2 + i]
  BY <1>2, <1>3, AfterUnits
<1>5. C \in Seq(Units) /\ Len(C) = 2 * r.kind.body + 1 /\ r.kind.body \in 0 .. 2
  BY ChunkedIs
<1> HIDE DEF t, C
<1>6. /\ Len(t \o w) = Len(t) + Len(w) /\ Len(w) \in Nat
      /\ \A i \in 1 .. Len(t) : (t \o w)[i] = t[i]
  BY <1>4, Joined, LenProperties
<1>7. q \in 0 .. 2 * r.kind.body + 1
  BY <1>1, <1>2, <1>4, <1>5, <1>6
<1>8. \A i \in 1 .. q : s[2 + i] = C[i]
  BY <1>1, <1>4, <1>6
<1>9. w = After(C, q)
  <2>1. q \in 0 .. Len(t)
    BY <1>2, <1>4
  <2>2. After(t \o w, q) = After(t, q) \o w
    BY <1>4, <2>1, AfterConcat
  <2>3. After(t, q) = <<>>
    BY <1>2, <1>4, SubSeqEmpty DEF After
  <2>4. <<>> \o w = w
    BY ConcatEmptySeq
  <2> QED
    BY <1>1, <2>2, <2>3, <2>4
<1>10. Heard(s, 0, r, q)
  <2>1. Len(s) = 2 + q - 0 /\ 2 * 0 <= q /\ 0 \in Nat
    BY <1>2
  <2>2. \A i \in 1 .. q - 2 * 0 : s[2 + 0 + i] = Chunked(r)[2 * 0 + i]
    BY <1>2, <1>8 DEF C
  <2> QED
    BY <1>1, <1>7, <2>1, <2>2 DEF Heard
<1> QED
  BY <1>7, <1>9, <1>10 DEF C

\* The event handler answers a request of a polite client.
LEMMA Handled ==
  ASSUME NEW k, DOMAIN k = Fields, k.send = <<>>, k.file = -1,
         NEW r \in Requests, r.kind.server = "rest", r.kind.page # "print",
         NEW j, j = ev_handler(k, r, Body(r))
  PROVE  /\ DOMAIN j = Fields /\ j.send \in Seq(AnswerParts) /\ FileOK(j)
         /\ j.send = <<>> => j.file = -1
         /\ j.send \o Left(j) = Answer(r)
         /\ j.recv = k.recv /\ j.close = k.close /\ j.data = k.data
         /\ j.body_len = k.body_len \/ j.body_len = 0
         /\ j.finish => k.finish \/ r.kind.page = "listing"
<1>1. Answer(r) \in Seq(AnswerParts) /\ Len(Answer(r)) \in Nat /\ Len(Answer(r)) > 0
      /\ Answer(r) = AnswerAbout(r, Body(r))
  BY Answering DEF Answer, Text
<1>2. r.kind.page \in {"rating", "listing", "file"}
  BY DEF Requests, Kinds
<1>3. CASE r.kind.page = "rating"
  <2>1. j = [k EXCEPT !.send = @ \o AnswerAbout(r, Body(r))]
    BY <1>3 DEF ev_handler
  <2>2. /\ DOMAIN j = Fields /\ j.send = <<>> \o Answer(r) /\ j.file = -1 /\ j.recv = k.recv
        /\ j.close = k.close /\ j.data = k.data /\ j.body_len = k.body_len
        /\ j.finish = k.finish
    BY <1>1, <2>1 DEF Fields
  <2>3. j.send = Answer(r)
    BY <1>1, <2>2, ConcatEmptySeq
  <2>4. Left(j) = <<>> /\ FileOK(j)
    BY <2>2 DEF Left, FileOK
  <2>5. Answer(r) \o <<>> = Answer(r)
    BY <1>1, ConcatEmptySeq
  <2> QED
    BY <1>1, <2>2, <2>3, <2>4, <2>5
<1>5. CASE r.kind.page = "listing"
  <2>1. j = [k EXCEPT !.send = @ \o Answer(r), !.finish = TRUE]
    BY <1>5 DEF ev_handler, send_directory_listing
  <2>2. /\ DOMAIN j = Fields /\ j.send = <<>> \o Answer(r) /\ j.file = -1 /\ j.recv = k.recv
        /\ j.close = k.close /\ j.data = k.data /\ j.body_len = k.body_len
    BY <1>1, <2>1 DEF Fields
  <2>3. j.send = Answer(r)
    BY <1>1, <2>2, ConcatEmptySeq
  <2>4. Left(j) = <<>> /\ FileOK(j)
    BY <2>2 DEF Left, FileOK
  <2>5. Answer(r) \o <<>> = Answer(r)
    BY <1>1, ConcatEmptySeq
  <2> QED
    BY <1>1, <1>5, <2>2, <2>3, <2>4, <2>5
<1>4. CASE r.kind.page = "file"
  <2> DEFINE e == [k EXCEPT !.send = Append(@, Answer(r)[1]), !.file = 2, !.request = r,
                            !.body_len = 0]
             A == Answer(r)
  <2>1. j = transfer_file_data(e)
    BY <1>4 DEF ev_handler, mg_send_http_file
  <2>2. A \in Seq(AnswerParts) /\ Len(A) = 3
    BY <1>4, Answering
  <2>3. /\ DOMAIN e = Fields /\ e.send = <<A[1]>> /\ e.file = 2 /\ e.request = r
        /\ e.recv = k.recv /\ e.close = k.close /\ e.data = k.data /\ e.body_len = 0
        /\ e.finish = k.finish
    BY DEF Fields
  <2> HIDE DEF e
  <2>4. FileOK(e)
    BY <1>4, <2>3 DEF FileOK
  <2>5. Left(e) = SubSeq(A, 1 + 1, Len(A))
    BY <2>2, <2>3 DEF Left
  <2>6. SubSeq(A, 1, 1) = <<A[1]>>
    <3>1. SubSeq(A, 1, 1) \in Seq(AnswerParts) /\ Len(SubSeq(A, 1, 1)) = 1 /\ SubSeq(A, 1, 1)[1] = A[1]
      <4>1. 1 \in 0 .. Len(A) /\ 1 \in 1 .. 1
        BY <2>2
      <4>2. Take(A, 1) \in Seq(AnswerParts) /\ Len(Take(A, 1)) = 1 /\ Take(A, 1)[1] = A[1]
        BY <2>2, <4>1, Parted, TakeAfter
      <4> QED
        BY <4>2 DEF Take
    <3> DEFINE x == SubSeq(A, 1, 1)
               a == A[1]
    <3>2. a \in AnswerParts
      BY <2>2, ElementOfSeq
    <3>3. x \in Seq(AnswerParts) /\ Len(x) = 1 /\ x[1] = a
      BY <3>1
    <3> HIDE DEF x, a
    <3>4. <<a>> \in Seq(AnswerParts) /\ Len(<<a>>) = 1 /\ <<a>>[1] = a
      BY <3>2
    <3>5. x = <<a>>
      BY <3>3, <3>4, SeqEqual
    <3> QED
      BY <3>5 DEF x, a
  <2>7. SubSeq(A, 1, 1) \o SubSeq(A, 1 + 1, Len(A)) = SubSeq(A, 1, Len(A))
        /\ SubSeq(A, 1, 1) \in Seq(AnswerParts)
    <3>1. 1 \in 1 .. Len(A) + 1 /\ 1 \in 1 - 1 .. Len(A)
      BY <2>2
    <3> QED
      BY <2>2, <3>1, PartOf
  <2>8. SubSeq(A, 1, Len(A)) = A
    BY <2>2, SubSeqFull
  <2>9. e.send \in Seq(AnswerParts) /\ e.send \o Left(e) = A
    BY <2>3, <2>5, <2>6, <2>7, <2>8
  <2>10. Moves(e, j)
    BY <2>1, <2>3, <2>4, <2>9, Transferred
  <2> QED
    BY <2>3, <2>9, <2>10 DEF Moves
<1> QED
  BY <1>2, <1>3, <1>4, <1>5

\* What the server has of r and what is on the wire make r up: as it was sent, or with
\* some of its chunks reassembled.
OnItsWay(k, r, w) ==
  \/ k.recv \in Seq(Units) /\ k.recv \o w = Bytes(r) /\ k.body_len = 0
  \/ /\ r.kind.length = "chunked"
     /\ \E q \in 0 .. 2 * r.kind.body + 1 :
          w = After(Chunked(r), q) /\ Heard(k.recv, k.body_len, r, q)

\* A request is answered when all of it is there, and not before; the connection is to
\* close at once for a long head, and when all is sent for a listing.
Progress(k, j, r, w) ==
  /\ DOMAIN j = Fields /\ j.send \in Seq(AnswerParts) /\ FileOK(j)
  /\ \/ /\ j.send = <<>> /\ j.file = -1 /\ OnItsWay(j, r, w)
        /\ j.finish = k.finish /\ (j.close => k.close \/ r.kind.head = "long")
     \/ /\ w = <<>> /\ j.send \o Left(j) = Answer(r)
        /\ j.send = <<>> => j.file = -1
        /\ (j.recv = <<>> /\ j.body_len = 0) \/ r.kind.length = "chunked"
        /\ j.close = k.close /\ (j.finish => k.finish \/ r.kind.page = "listing")

\* on_recv_data keeps a request that is on its way, or answers it when it is complete.
LEMMA RestHears ==
  ASSUME NEW k, DOMAIN k = Fields, k.send = <<>>, k.file = -1,
         NEW r \in Requests, r.kind.server = "rest", r.kind.length # "none", r.kind.page # "print",
         r.kind.head \in {"good", "long"}, NEW w \in Seq(Units), OnItsWay(k, r, w)
  PROVE  Progress(k, Dispatch(k), r, w)
<1> SUFFICES ASSUME NEW j, j = Dispatch(k)
             PROVE  /\ DOMAIN j = Fields /\ j.send \in Seq(AnswerParts) /\ FileOK(j)
                    /\ \/ /\ j.send = <<>> /\ j.file = -1 /\ OnItsWay(j, r, w)
                          /\ j.finish = k.finish /\ (j.close => k.close \/ r.kind.head = "long")
                       \/ /\ w = <<>> /\ j.send \o Left(j) = Answer(r)
                          /\ j.send = <<>> => j.file = -1
                          /\ (j.recv = <<>> /\ j.body_len = 0) \/ r.kind.length = "chunked"
                          /\ j.close = k.close /\ (j.finish => k.finish \/ r.kind.page = "listing")
  BY DEF Progress
<1> DEFINE s == k.recv
           n == get_request_len(s)
           len == n + r.kind.body
           m == mg_handle_chunked(k, n)
<1>1. <<>> \in Seq(AnswerParts) /\ FileOK(k)
  BY EmptySeq DEF FileOK
<1>2. ASSUME s \in Seq(Units), s \o w = Bytes(r), k.body_len = 0, Len(s) <= 1
      PROVE  j = k \/ (r.kind.head = "long" /\ j = [k EXCEPT !.close = TRUE])
  <2>1. n = 0 /\ (Len(s) >= 1 => s[1] = Unit(r, "head"))
    BY <1>2, HeadComes
  <2>2. Refused(s) => r.kind.head = "long"
    BY <1>2, <2>1, NotRefused
  <2> QED
    BY <2>1, <2>2 DEF Dispatch
<1>3. ASSUME s \in Seq(Units), s \o w = Bytes(r), k.body_len = 0, Len(s) >= 2,
             r.kind.length # "chunked"
      PROVE  \/ j = k
             \/ /\ w = <<>> /\ DOMAIN j = Fields /\ j.send \in Seq(AnswerParts) /\ FileOK(j)
                /\ j.close = k.close /\ (j.finish => k.finish \/ r.kind.page = "listing")
                /\ j.send \o Left(j) = Answer(r) /\ (j.send = <<>> => j.file = -1)
                /\ j.recv = <<>> /\ j.body_len = 0
  <2>1. n = 2 /\ s[2].r = r /\ After(s, 2) \o w = Body(r) /\ s[1] = Unit(r, "head")
    BY <1>3, HeadComes DEF Behind
  <2>6. ~Refused(s)
    BY <1>3, <2>1, NotRefused
  <2>2. Len(s) \in Nat /\ r.kind.body \in 0 .. 2 /\ Len(Body(r)) = r.kind.body
    BY <1>3, LenProperties, ChunkedIs
  <2>3. j = IF len > Len(s) THEN k
            ELSE [ev_handler(k, r, SubSeq(s, n + 1, len)) EXCEPT !.recv = After(@, len)]
    BY <1>3, <2>1, <2>6 DEF Dispatch
  <2>4. CASE len > Len(s)
    BY <2>3, <2>4
  <2>5. CASE ~(len > Len(s))
    <3>1. After(s, 2) \in Seq(Units) /\ Len(After(s, 2)) = Len(s) - 2
      <4>1. 2 \in 0 .. Len(s)
        BY <1>3, <2>2
      <4> QED
        BY <1>3, <4>1, AfterUnits
    <3>2. Len(After(s, 2)) >= Len(After(s, 2) \o w)
      BY <2>1, <2>2, <2>5, <3>1
    <3>3. w = <<>> /\ After(s, 2) = Body(r)
      BY <2>1, <3>1, <3>2, NothingLeft
    <3>4. len = Len(s)
      BY <2>1, <2>2, <3>1, <3>3
    <3>5. SubSeq(s, n + 1, len) = Body(r)
      BY <2>1, <3>3, <3>4 DEF After
    <3> DEFINE h == ev_handler(k, r, Body(r))
    <3>6. j = [h EXCEPT !.recv = After(@, len)]
      BY <2>3, <2>5, <3>5
    <3>7. /\ DOMAIN h = Fields /\ h.send \in Seq(AnswerParts) /\ FileOK(h)
          /\ h.send = <<>> => h.file = -1
          /\ h.send \o Left(h) = Answer(r)
          /\ h.recv = k.recv /\ h.close = k.close
          /\ h.finish => k.finish \/ r.kind.page = "listing"
          /\ h.body_len = k.body_len \/ h.body_len = 0
      BY Handled
    <3> HIDE DEF h
    <3>8. After(s, len) = <<>>
      BY <2>2, <3>4, SubSeqEmpty DEF After
    <3> HIDE DEF s, len
    <3>9. /\ DOMAIN j = Fields /\ j.send = h.send /\ j.file = h.file /\ j.request = h.request
          /\ j.close = h.close /\ j.finish = h.finish /\ j.body_len = h.body_len
          /\ j.recv = <<>>
      BY <3>6, <3>7, <3>8 DEF Fields, s
    <3>10. Left(j) = Left(h) /\ FileOK(j)
      BY <3>7, <3>9 DEF Left, FileOK
    <3> QED
      BY <1>3, <3>3, <3>7, <3>9, <3>10
  <2> QED
    BY <2>4, <2>5
<1>4. ASSUME r.kind.length = "chunked", NEW q \in 0 .. 2 * r.kind.body + 1,
             w = After(Chunked(r), q), Heard(s, k.body_len, r, q)
      PROVE  /\ DOMAIN j = Fields /\ j.send \in Seq(AnswerParts) /\ FileOK(j)
             /\ j.close = k.close
             /\ \/ /\ j.send = <<>> /\ j.file = -1 /\ Heard(j.recv, j.body_len, r, q)
                   /\ j.finish = k.finish
                \/ /\ w = <<>> /\ j.send \o Left(j) = Answer(r)
                   /\ j.send = <<>> => j.file = -1
                   /\ j.finish => k.finish \/ r.kind.page = "listing"
  <2>1. n = 2 /\ s[2].r = r /\ s[1] = Unit(r, "head") /\ s \in Seq(Units)
    BY <1>4, HeadHeard
  <2>9. ~Refused(s)
    BY <2>1, NotRefused
  <2>6. PICK i : i = mg_handle_chunked(k, 2)
    OBVIOUS
  <2> DEFINE h == ev_handler(i, r, Body(r))
  <2>7. Heard(k.recv, k.body_len, r, q)
    BY <1>4
  <2>2. /\ DOMAIN i = Fields /\ i.send = k.send /\ i.file = k.file /\ i.close = k.close
        /\ i.finish = k.finish /\ i.recv \in Seq(Units)
        /\ Ends(s) <=> q = 2 * r.kind.body + 1
        /\ ~Ends(s) => Heard(i.recv, i.body_len, r, q)
        /\ Ends(s) => ~Ends(i.recv) /\ SubSeq(i.recv, 2 + 1, 2 + i.body_len) = Body(r)
    <3>1. Reassembled(k, i, r, q)
      BY <2>6, <2>7, ChunksHandled
    <3> QED
      BY <3>1 DEF Reassembled
  <2>3. j = IF Zeros(i.recv) < Zeros(s)
            THEN [ev_handler(i, r, SubSeq(i.recv, 2 + 1, 2 + i.body_len))
                    EXCEPT !.recv = After(@, Len(@) - 2)]
            ELSE i
    BY <1>4, <2>1, <2>6, <2>9 DEF Dispatch
  <2>8. s \in Seq(Units)
    BY <1>4 DEF Heard
  <2>4. CASE ~Ends(s)
    <3>6. Zeros(s) = 0 /\ Zeros(i.recv) \in Nat
      BY <2>2, <2>4, <2>8, ZerosCounted
    <3>1. j = i
      BY <2>3, <3>6
    <3>2. FileOK(j)
      BY <2>2, <3>1 DEF FileOK
    <3> QED
      BY <1>1, <2>2, <2>4, <3>1, <3>2
  <2>5. CASE Ends(s)
    <3>6. Zeros(s) \in Nat /\ Zeros(s) # 0 /\ Zeros(i.recv) = 0
      BY <2>2, <2>5, <2>8, ZerosCounted
    <3>1. j = [h EXCEPT !.recv = After(@, Len(@) - 2)]
      <4>1. Zeros(i.recv) < Zeros(s)
        BY <3>6
      <4>2. SubSeq(i.recv, 2 + 1, 2 + i.body_len) = Body(r)
        BY <2>2, <2>5
      <4>3. j = [ev_handler(i, r, SubSeq(i.recv, 2 + 1, 2 + i.body_len))
                   EXCEPT !.recv = After(@, Len(@) - 2)]
        BY <2>3, <4>1
      <4> QED
        BY <4>2, <4>3
    <3>2. /\ DOMAIN h = Fields /\ h.send \in Seq(AnswerParts) /\ FileOK(h)
          /\ h.send = <<>> => h.file = -1
          /\ h.send \o Left(h) = Answer(r)
          /\ h.close = i.close /\ (h.finish => i.finish \/ r.kind.page = "listing")
      BY <2>2, Handled
    <3> HIDE DEF h
    <3>3. /\ DOMAIN j = Fields /\ j.send = h.send /\ j.file = h.file /\ j.request = h.request
          /\ j.close = h.close /\ j.finish = h.finish
      BY <3>1, <3>2 DEF Fields
    <3>4. Left(j) = Left(h) /\ FileOK(j)
      BY <3>2, <3>3 DEF Left, FileOK
    <3>5. w = <<>>
      <4>1. Len(Chunked(r)) = q /\ Chunked(r) \in Seq(Units) /\ q \in Nat
        BY <2>2, <2>5, ChunkedIs
      <4> QED
        BY <1>4, <4>1, SubSeqEmpty DEF After
    <3> QED
      BY <2>2, <3>2, <3>3, <3>4, <3>5
  <2> QED
    BY <2>4, <2>5
<1>5. CASE s \in Seq(Units) /\ s \o w = Bytes(r) /\ k.body_len = 0
  <2>1. Len(s) \in Nat
    BY <1>5, LenProperties
  <2>2. CASE Len(s) <= 1
    <3>1. j = k \/ (r.kind.head = "long" /\ j = [k EXCEPT !.close = TRUE])
      BY <1>2, <1>5, <2>2
    <3>2. /\ DOMAIN j = Fields /\ j.send = k.send /\ j.file = k.file /\ j.recv = k.recv
          /\ j.finish = k.finish /\ j.body_len = k.body_len
          /\ j.close => k.close \/ r.kind.head = "long"
      BY <3>1 DEF Fields
    <3>3. FileOK(j) /\ OnItsWay(j, r, w)
      BY <3>2 DEF FileOK, OnItsWay
    <3> QED
      BY <1>1, <3>2, <3>3
  <2>3. CASE Len(s) >= 2 /\ r.kind.length # "chunked"
    <3>1. CASE j = k
      BY <1>1, <3>1
    <3>2. CASE j # k
      BY <1>3, <1>5, <2>3, <3>2
    <3> QED
      BY <3>1, <3>2
  <2>4. CASE Len(s) >= 2 /\ r.kind.length = "chunked"
    <3>1. PICK q \in 0 .. 2 * r.kind.body + 1 : Heard(s, 0, r, q) /\ w = After(Chunked(r), q)
      BY <1>5, <2>4, HeardFirst
    <3>2. Heard(s, k.body_len, r, q)
      BY <1>5, <3>1
    <3> QED
      BY <1>4, <2>4, <3>1, <3>2 DEF OnItsWay
  <2> QED
    BY <2>1, <2>2, <2>3, <2>4
<1>6. CASE /\ r.kind.length = "chunked"
           /\ \E q \in 0 .. 2 * r.kind.body + 1 :
                w = After(Chunked(r), q) /\ Heard(s, k.body_len, r, q)
  BY <1>4, <1>6 DEF OnItsWay
<1> QED
  BY <1>5, <1>6 DEF OnItsWay
-----------------------------------------------------------------------------
(* The RESTful server and a polite client.                                 *)

\* The requests a polite client makes of it.
RestAsks(a) ==
  \A n \in DOMAIN a : /\ a[n].kind.server = "rest" /\ a[n].kind.length # "none"
                      /\ a[n].kind.page # "print" /\ a[n].kind.head \in {"good", "long"}

\* One of the first l requests is for a listing.
Listed(a, l) == \E n \in DOMAIN a : n <= l /\ a[n].kind.page = "listing"

\* The last request has not come as a whole, and its answer is still owed.  What was
\* answered before may have been a listing.
RestWaits(k, a, w, g) ==
  /\ a # <<>> /\ k.send = <<>> /\ k.file = -1
  /\ g \o Answer(Last(a)) = Owed(a)
  /\ OnItsWay(k, Last(a), w)
  /\ k.finish => Listed(a, Len(a) - 1)

\* All requests are answered, or the last one is being answered with a file.  The
\* client may have shut its side, when it has all.
RestDone(k, a, w, g) ==
  /\ k.send \in Seq(AnswerParts) /\ FileOK(k) /\ (k.send = <<>> => k.file = -1)
  /\ g \o (k.send \o Left(k)) = Owed(a)
  /\ w = <<>> \/ (w = <<FIN>> /\ g = Owed(a))
  /\ (k.recv = <<>> /\ k.body_len = 0) \/ (a # <<>> /\ Last(a).kind.length = "chunked")
  /\ k.finish => Listed(a, Len(a))

\* One of the two; it is to close at once only at the end of the input, or for a long
\* head.
RestOK(k, a, w, g) ==
  /\ RestWaits(k, a, w, g) \/ RestDone(k, a, w, g)
  /\ k.close => \/ w = <<FIN>> /\ g = Owed(a)
                \/ RestWaits(k, a, w, g) /\ Last(a).kind.head = "long"

\* It goes on with a file.
LEMMA RestMoves ==
  ASSUME NEW k, DOMAIN k = Fields, NEW a, NEW w, NEW g, RestDone(k, a, w, g)
                                                      \/ RestWaits(k, a, w, g)
  PROVE  LET j == transfer_file_data(k) IN
         /\ DOMAIN j = Fields /\ j.close = k.close
         /\ RestDone(k, a, w, g) => RestDone(j, a, w, g)
         /\ RestWaits(k, a, w, g) => j = k
<1>1. ASSUME RestWaits(k, a, w, g) PROVE transfer_file_data(k) = k
  BY <1>1 DEF RestWaits, transfer_file_data
<1>2. ASSUME RestDone(k, a, w, g), NEW j, j = transfer_file_data(k)
      PROVE  RestDone(j, a, w, g) /\ DOMAIN j = Fields /\ j.close = k.close
  <2>1. Moves(k, j)
    BY <1>2, Transferred DEF RestDone
  <2> QED
    BY <1>2, <2>1 DEF RestDone, Moves
<1> QED
  BY <1>1, <1>2

\* mg_poll disturbs none of it.
LEMMA RestPolls ==
  ASSUME NEW k, DOMAIN k = Fields, NEW a, NEW w, NEW g, RestOK(k, a, w, g)
  PROVE  RestOK(http_handler(k, "poll"), a, w, g)
<1>1. http_handler(k, "poll") = transfer_file_data(k)
  BY DEF http_handler
<1> QED
  BY <1>1, RestMoves DEF RestOK

\* What is left of a file are parts of an answer.
LEMMA LeftParts ==
  ASSUME NEW k, FileOK(k) PROVE Left(k) \in Seq(AnswerParts)
<1>1. CASE k.file > 0
  <2> DEFINE A == Answer(k.request)
  <2>1. A \in Seq(AnswerParts) /\ Len(A) = 3 /\ k.file \in 1 .. 2
    BY <1>1, Answering DEF FileOK
  <2>2. 4 - k.file \in 1 .. 3 + 1 /\ 3 \in (4 - k.file) - 1 .. 3
    BY <2>1
  <2>3. Left(k) = SubSeq(A, 4 - k.file, 3)
    BY <1>1 DEF Left
  <2> HIDE DEF A
  <2>4. SubSeq(A, 4 - k.file, 3) \in Seq(AnswerParts)
    BY <2>1, <2>2, PartOf
  <2> QED
    BY <2>3, <2>4
<1>2. CASE ~(k.file > 0)
  BY <1>2, EmptySeq DEF Left
<1> QED
  BY <1>1, <1>2

\* It sends.
LEMMA RestWrites ==
  ASSUME NEW k, DOMAIN k = Fields, k.send \in Seq(AnswerParts), NEW a, NEW w,
         NEW g \in Seq(AnswerParts), RestOK(k, a, w, g), NEW n \in 1 .. Len(k.send)
  PROVE  RestOK(http_handler([k EXCEPT !.send = After(@, n)], "send"), a, w,
                g \o Take(k.send, n))
<1> DEFINE t == Take(k.send, n)
           v == After(k.send, n)
           b == [k EXCEPT !.send = v]
           j == transfer_file_data(b)
           h == g \o t
<1>1. n \in 0 .. Len(k.send) /\ k.send # <<>>
  BY LenProperties, EmptySeq
<1>2. RestDone(k, a, w, g) /\ ~RestWaits(k, a, w, g)
  BY <1>1 DEF RestOK, RestWaits
<1>14. Left(k) \in Seq(AnswerParts)
  BY <1>2, LeftParts DEF RestDone
<1>3. v \in Seq(AnswerParts) /\ h \in Seq(AnswerParts) /\ h \o v = g \o k.send
  BY <1>1, Regroup, Parted, ConcatProperties
<1>4. /\ DOMAIN b = Fields /\ b.send = v /\ b.recv = k.recv /\ b.file = k.file
      /\ b.request = k.request /\ b.close = k.close /\ b.body_len = k.body_len
      /\ b.finish = k.finish
  BY DEF Fields
<1>5. b = [k EXCEPT !.send = After(@, n)]
  OBVIOUS
<1> HIDE DEF b, h, v
<1>6. Left(b) = Left(k) /\ FileOK(b)
  BY <1>2, <1>4 DEF Left, FileOK, RestDone
<1>7. h \o (v \o Left(k)) = g \o (k.send \o Left(k))
  <2>1. (h \o v) \o Left(k) = h \o (v \o Left(k))
    BY <1>3, <1>14, ThreeParts
  <2>2. (g \o k.send) \o Left(k) = g \o (k.send \o Left(k))
    BY <1>14, ThreeParts
  <2> QED
    BY <1>3, <2>1, <2>2
<1>8. Moves(b, j)
  BY <1>3, <1>4, <1>6, Transferred
<1>9. g # Owed(a)
  <2>1. k.send \o Left(k) \in Seq(AnswerParts) /\ k.send \o Left(k) # <<>>
    <3>1. Len(k.send \o Left(k)) = Len(k.send) + Len(Left(k)) /\ Len(Left(k)) \in Nat
          /\ k.send \o Left(k) \in Seq(AnswerParts) /\ Len(k.send) \in Nat /\ Len(k.send) # 0
      BY <1>1, <1>14, ConcatProperties, LenProperties, EmptySeq
    <3> QED
      BY <3>1, EmptySeq
  <2> QED
    BY <1>2, <2>1, NothingMore DEF RestDone
<1>10. w = <<>> /\ ~k.close
  BY <1>2, <1>9 DEF RestDone, RestOK
<1> HIDE DEF j
<1>11. RestDone(j, a, w, h)
  BY <1>2, <1>4, <1>6, <1>7, <1>8, <1>10 DEF RestDone, Moves
<1>12. ~j.close
  BY <1>4, <1>8, <1>10 DEF Moves
<1>13. j = http_handler(b, "send")
  BY DEF http_handler, j
<1> QED
  BY <1>5, <1>11, <1>12, <1>13 DEF RestOK, h

\* More of a request arrives.
LEMMA MoreOnItsWay ==
  ASSUME NEW k, DOMAIN k = Fields, NEW r \in Requests, NEW w \in Seq(Units), OnItsWay(k, r, w),
         NEW n \in 1 .. Len(w), NEW b, b = [k EXCEPT !.recv = @ \o Take(w, n)]
  PROVE  OnItsWay(b, r, After(w, n))
<1> DEFINE t == Take(w, n)
           v == After(w, n)
<1>1. n \in 0 .. Len(w) /\ t \in Seq(Units) /\ v \in Seq(Units) /\ t \o v = w
  <2>1. n \in 0 .. Len(w)
    BY LenProperties
  <2> QED
    BY <2>1, Parted, TakeAfter
<1>2. b.recv = k.recv \o t /\ b.body_len = k.body_len
  BY DEF Fields
<1>3. CASE k.recv \in Seq(Units) /\ k.recv \o w = Bytes(r) /\ k.body_len = 0
  <2> HIDE DEF t, v
  <2>1. (k.recv \o t) \o v = k.recv \o (t \o v) /\ k.recv \o t \in Seq(Units)
    BY <1>1, <1>3, ThreeUnits, TwoUnits
  <2> QED
    BY <1>1, <1>2, <1>3, <2>1 DEF OnItsWay, v
<1>4. ASSUME r.kind.length = "chunked", NEW q \in 0 .. 2 * r.kind.body + 1,
             w = After(Chunked(r), q), Heard(k.recv, k.body_len, r, q)
      PROVE  OnItsWay(b, r, v)
  <2>3. Heard(k.recv \o Take(w, n), k.body_len, r, q + n) /\ After(w, n) = After(Chunked(r), q + n)
    BY <1>4, HeardMore
  <2>1. Heard(b.recv, k.body_len, r, q + n) /\ v = After(Chunked(r), q + n)
    BY <1>2, <2>3
  <2>2. q + n \in 0 .. 2 * r.kind.body + 1
    BY <2>1 DEF Heard
  <2> QED
    BY <1>2, <1>4, <2>1, <2>2 DEF OnItsWay
<1> QED
  BY <1>3, <1>4 DEF OnItsWay

\* It reads.
LEMMA RestReceives ==
  ASSUME NEW k, DOMAIN k = Fields, NEW a \in Seq(Requests), RestAsks(a), NEW w \in Seq(Units),
         NEW g \in Seq(AnswerParts), RestOK(k, a, w, g), ~k.close, NEW n \in 1 .. Len(w),
         ~Contains(Take(w, n), FIN), NEW b, b = [k EXCEPT !.recv = @ \o Take(w, n)]
  PROVE  RestOK(http_handler(b, "recv"), a, After(w, n), g)
<1> DEFINE t == Take(w, n)
           v == After(w, n)
           j == Dispatch(b)
           r == Last(a)
<1>1. /\ Len(w) \in Nat /\ n \in 0 .. Len(w) /\ t \in Seq(Units) /\ Len(t) = n /\ v \in Seq(Units)
      /\ t \o v = w /\ t[1] = w[1]
  <2>1. Len(w) \in Nat /\ n \in 0 .. Len(w) /\ 1 \in 1 .. n
    BY LenProperties
  <2> QED
    BY <2>1, Parted, TakeAfter
<1>2. w # <<FIN>> /\ w # <<>>
  <2>1. w # <<>>
    BY <1>1, EmptySeq
  <2>2. t[1] # FIN
    <3>1. 1 \in 1 .. Len(t)
      BY <1>1
    <3> QED
      BY <3>1 DEF Contains
  <2> QED
    BY <1>1, <2>1, <2>2
<1>3. RestWaits(k, a, w, g) /\ ~k.close
  BY <1>2 DEF RestOK, RestDone
<1>4. /\ r \in Requests /\ r.kind.server = "rest" /\ r.kind.length # "none"
      /\ r.kind.page # "print" /\ a # <<>> /\ r.kind.head \in {"good", "long"}
      /\ Len(a) \in DOMAIN a /\ r = a[Len(a)]
  <2>1. a # <<>>
    BY <1>3 DEF RestWaits
  <2> QED
    BY <2>1, LastOne DEF RestAsks
<1> HIDE DEF r
<1>5. DOMAIN b = Fields /\ b.send = <<>> /\ b.file = -1 /\ b.close = k.close /\ b.finish = k.finish
  BY <1>3 DEF RestWaits, Fields
<1>6. OnItsWay(b, r, v)
  <2>1. OnItsWay(k, r, w)
    BY <1>3 DEF RestWaits, r
  <2> QED
    BY <1>4, <2>1, MoreOnItsWay
<1>7. http_handler(b, "recv") = j
  BY <1>5 DEF http_handler, transfer_file_data
<1> HIDE DEF t, v
<1>8. /\ j.send \in Seq(AnswerParts) /\ FileOK(j)
      /\ \/ /\ j.send = <<>> /\ j.file = -1 /\ OnItsWay(j, r, v)
            /\ j.finish = b.finish /\ (j.close => b.close \/ r.kind.head = "long")
         \/ /\ v = <<>> /\ j.send \o Left(j) = Answer(r)
            /\ j.send = <<>> => j.file = -1
            /\ (j.recv = <<>> /\ j.body_len = 0) \/ r.kind.length = "chunked"
            /\ j.close = b.close /\ (j.finish => b.finish \/ r.kind.page = "listing")
  <2>1. Progress(b, j, r, v)
    BY <1>1, <1>4, <1>5, <1>6, RestHears
  <2> QED
    BY <2>1 DEF Progress
<1> HIDE DEF j
<1>9. g \o Answer(r) = Owed(a)
  BY <1>3 DEF RestWaits, r
<1>11. Len(a) \in Nat /\ (k.finish => Listed(a, Len(a) - 1))
  BY <1>3, LenProperties DEF RestWaits
<1>12. (k.finish => Listed(a, Len(a))) /\ (r.kind.page = "listing" => Listed(a, Len(a)))
  BY <1>4, <1>11, LenProperties DEF Listed
<1>13. (k.finish \/ r.kind.page = "listing") => Listed(a, Len(a))
  BY <1>12
<1>10. \/ RestWaits(j, a, v, g) /\ (j.close => r.kind.head = "long")
       \/ RestDone(j, a, v, g) /\ ~j.close
  <2>1. CASE /\ j.send = <<>> /\ j.file = -1 /\ OnItsWay(j, r, v)
             /\ j.finish = b.finish /\ (j.close => b.close \/ r.kind.head = "long")
    BY <1>3, <1>4, <1>5, <1>9, <1>11, <2>1 DEF RestWaits, r
  <2>2. CASE /\ v = <<>> /\ j.send \o Left(j) = Answer(r)
             /\ j.send = <<>> => j.file = -1
             /\ (j.recv = <<>> /\ j.body_len = 0) \/ r.kind.length = "chunked"
             /\ j.close = b.close /\ (j.finish => b.finish \/ r.kind.page = "listing")
    BY <1>3, <1>4, <1>5, <1>8, <1>9, <1>13, <2>2 DEF RestDone, r
  <2> QED
    BY <1>8, <2>1, <2>2
<1> QED
  BY <1>7, <1>10 DEF RestOK, v, r

\* The end of the input does not come with a request on its way.
LEMMA EndNotOnItsWay ==
  ASSUME NEW k, NEW r \in Requests, NEW w \in Seq(Units), OnItsWay(k, r, w), w # <<>>
  PROVE  w[1] # FIN
<1>1. CASE k.recv \in Seq(Units) /\ k.recv \o w = Bytes(r)
  BY <1>1, EndApart, EndNotFirst
<1>2. ASSUME r.kind.length = "chunked", NEW q \in 0 .. 2 * r.kind.body + 1, w = After(Chunked(r), q)
      PROVE  w[1] # FIN
  <2> DEFINE S == Units \ {FIN}
             C == Chunked(r)
  <2>1. Bytes(r) \in Seq(S) /\ After(Bytes(r), 2) = C /\ Len(Bytes(r)) = 2 + Len(C)
        /\ Len(C) = 2 * r.kind.body + 1 /\ r.kind.body \in 0 .. 2
    BY <1>2, EndApart, BytesAre, ChunkedIs DEF Behind
  <2> HIDE DEF C, S
  <2>2. 2 \in 0 .. Len(Bytes(r)) /\ q \in 0 .. Len(C)
    BY <2>1
  <2>3. C \in Seq(S)
    BY <2>1, <2>2, Parted
  <2>4. w \in Seq(S)
    BY <1>2, <2>2, <2>3, Parted DEF C
  <2>5. 1 \in 1 .. Len(w)
    BY EmptySeq, LenProperties
  <2> QED
    BY <2>4, <2>5, ElementOfSeq DEF S
<1> QED
  BY <1>1, <1>2 DEF OnItsWay

\* The end of the input makes the connection to be closed, when all is received.
LEMMA RestEnds ==
  ASSUME NEW k, DOMAIN k = Fields, NEW a \in Seq(Requests),
         NEW w \in Seq(Units), NEW g \in Seq(AnswerParts), RestOK(k, a, w, g),
         w # <<>>, w[1] = FIN
  PROVE  RestOK([k EXCEPT !.close = TRUE], a, w, g)
<1> DEFINE j == [k EXCEPT !.close = TRUE]
<1>1. ~RestWaits(k, a, w, g)
  BY LastOne, EndNotOnItsWay DEF RestWaits
<1>2. RestDone(k, a, w, g) /\ w = <<FIN>> /\ g = Owed(a)
  BY <1>1 DEF RestOK, RestDone
<1>3. /\ j.send = k.send /\ j.recv = k.recv /\ j.file = k.file /\ j.request = k.request
      /\ j.body_len = k.body_len /\ j.finish = k.finish
  BY DEF Fields
<1> HIDE DEF j
<1>4. RestDone(j, a, w, g)
  BY <1>2, <1>3 DEF RestDone, FileOK, Left
<1> QED
  BY <1>2, <1>4 DEF RestOK, j

\* No request is on its way when the client has all its answers.
LEMMA RestSettled ==
  ASSUME NEW k, NEW a \in Seq(Requests), Numbered(a),
         NEW w, NEW g \in Seq(AnswerParts), RestOK(k, a, w, g), Everything(a, g)
  PROVE  /\ RestDone(k, a, w, g) /\ g = Owed(a) /\ k.send = <<>> /\ k.file = -1
         /\ ~RestWaits(k, a, w, g)
<1>1. ~RestWaits(k, a, w, g)
  <2> SUFFICES ASSUME RestWaits(k, a, w, g) PROVE FALSE
    OBVIOUS
  <2> DEFINE A == Answer(Last(a))
  <2>1. a # <<>> /\ g \o A = Owed(a)
    BY DEF RestWaits
  <2>2. A \in Seq(AnswerParts) /\ Len(A) > 0
    BY <2>1, LastOne, Answering
  <2> HIDE DEF A
  <2>3. A # <<>>
    BY <2>2, EmptySeq
  <2> QED
    BY <2>1, <2>2, <2>3, EverythingIs
<1>2. RestDone(k, a, w, g)
  BY <1>1 DEF RestOK
<1>3. g \o (k.send \o Left(k)) = Owed(a) /\ k.send \in Seq(AnswerParts) /\ Left(k) \in Seq(AnswerParts)
  BY <1>2, LeftParts DEF RestDone
<1>4. k.send \o Left(k) \in Seq(AnswerParts)
  BY <1>3, ConcatProperties
<1>5. k.send \o Left(k) = <<>> /\ g = Owed(a)
  BY <1>3, <1>4, EverythingIs
<1>6. k.send = <<>>
  <2>1. Len(k.send) \in Nat /\ Len(Left(k)) \in Nat /\ Len(<<>>) = 0
        /\ Len(k.send \o Left(k)) = Len(k.send) + Len(Left(k))
    BY <1>3, ConcatProperties, LenProperties, EmptySeq
  <2>2. Len(k.send) = 0
    BY <1>5, <2>1
  <2> QED
    BY <1>3, <2>2, EmptySeq
<1> QED
  BY <1>1, <1>2, <1>5, <1>6 DEF RestDone

\* A client sends its next request; nobody sends one after a request in chunks.
LEMMA RestAsked ==
  ASSUME NEW k, NEW a \in Seq(Requests), Numbered(a),
         NEW w \in Seq(Units), NEW g \in Seq(AnswerParts), RestOK(k, a, w, g),
         Everything(a, g), a # <<>> => Last(a).kind.length # "chunked", ~Contains(w, FIN),
         NEW r \in Requests
  PROVE  RestOK(k, Append(a, r), w \o Bytes(r), g)
<1>1. RestDone(k, a, w, g) /\ g = Owed(a) /\ k.send = <<>> /\ k.file = -1 /\ ~RestWaits(k, a, w, g)
  BY RestSettled
<1>2. w = <<>>
  BY <1>1, Unended DEF RestDone
<1> DEFINE b == Append(a, r)
<1>3. /\ b # <<>> /\ Last(b) = r
      /\ Owed(b) = Owed(a) \o Answer(r)
      /\ Listed(a, Len(a)) => Listed(b, Len(b) - 1)
  <2>1. b \in Seq(Requests) /\ Len(b) = Len(a) + 1 /\ Len(a) \in Nat /\ b[Len(a) + 1] = r
        /\ \A n \in 1 .. Len(a) : b[n] = a[n]
    BY AppendProperties, LenProperties
  <2>2. b # <<>>
    BY <2>1, EmptySeq
  <2>3. DOMAIN a = 1 .. Len(a) /\ DOMAIN b = 1 .. Len(a) + 1
    BY <2>1, LenProperties
  <2> HIDE DEF b
  <2>4. Len(b) - 1 = Len(a)
    BY <2>1
  <2>5. Listed(a, Len(a)) => Listed(b, Len(b) - 1)
    BY <2>1, <2>3, <2>4 DEF Listed
  <2> QED
    BY <2>1, <2>2, <2>5, OwedOne DEF Last, b
<1>7. k.recv = <<>> /\ k.body_len = 0
  BY <1>1 DEF RestDone
<1>4. w \o Bytes(r) = Bytes(r) /\ k.recv \o Bytes(r) = Bytes(r) /\ <<>> \in Seq(Units)
  BY <1>2, <1>7, BytesUnits, ConcatEmptySeq, EmptySeq
<1> HIDE DEF b
<1>8. k.finish => Listed(b, Len(b) - 1)
  BY <1>1, <1>3 DEF RestDone
<1>5. RestWaits(k, b, Bytes(r), g)
  BY <1>1, <1>3, <1>4, <1>7, <1>8 DEF RestWaits, OnItsWay
<1>6. ~k.close
  BY <1>1, <1>2 DEF RestOK
<1> QED
  BY <1>4, <1>5, <1>6 DEF RestOK, b

\* A client that has everything shuts its side.
LEMMA RestShut ==
  ASSUME NEW k, NEW a \in Seq(Requests), Numbered(a),
         NEW w \in Seq(Units), NEW g \in Seq(AnswerParts), RestOK(k, a, w, g),
         Everything(a, g), ~Contains(w, FIN)
  PROVE  RestOK(k, a, Append(Take(w, Len(w) - 0), FIN), g)
<1>1. RestDone(k, a, w, g) /\ g = Owed(a)
  BY RestSettled
<1>2. w = <<>>
  BY <1>1, Unended DEF RestDone
<1>3. Append(Take(w, Len(w) - 0), FIN) = <<FIN>>
  BY <1>1, Unended DEF RestDone
<1>4. RestDone(k, a, <<FIN>>, g)
  BY <1>1 DEF RestDone
<1> QED
  BY <1>1, <1>3, <1>4 DEF RestOK


-----------------------------------------------------------------------------
(* The service and any client.                                             *)

\* Every beginning of an answer is followed by its end.
Paired(out) ==
  \A i \in 1 .. Len(out) :
    out[i].part = "start" => i < Len(out) /\ out[i + 1] = [out[i] EXCEPT !.part = "end"]

\* Answers one after the other.
LEMMA PairedMore ==
  ASSUME NEW s \in Seq(AnswerParts), NEW t \in Seq(AnswerParts), Paired(s), Paired(t)
  PROVE  Paired(s \o t)
<1> DEFINE u == s \o t
<1>1. PICK m \in Nat, l \in Nat : m = Len(s) /\ l = Len(t)
  BY LenProperties
<1>2. Len(u) = m + l /\ \A i \in 1 .. m + l : u[i] = IF i <= m THEN s[i] ELSE t[i - m]
  <2>1. /\ Len(u) = Len(s) + Len(t)
        /\ \A i \in 1 .. Len(s) + Len(t) : u[i] = IF i <= Len(s) THEN s[i] ELSE t[i - Len(s)]
    BY ConcatProperties
  <2> HIDE DEF u
  <2> QED
    BY <1>1, <2>1
<1> HIDE DEF u
<1>3. ASSUME NEW i \in 1 .. m + l, u[i].part = "start"
      PROVE  i < m + l /\ u[i + 1] = [u[i] EXCEPT !.part = "end"]
  <2>1. CASE i <= m
    <3>1. i \in 1 .. m /\ u[i] = s[i]
      BY <1>2, <2>1
    <3>2. i < m /\ s[i + 1] = [s[i] EXCEPT !.part = "end"]
      BY <1>1, <1>3, <3>1 DEF Paired
    <3>3. i + 1 \in 1 .. m + l /\ i + 1 <= m
      BY <3>1, <3>2
    <3>4. u[i + 1] = s[i + 1]
      BY <1>2, <3>3
    <3> QED
      BY <3>1, <3>2, <3>4
  <2>2. CASE ~(i <= m)
    <3>1. PICK x \in 1 .. l : x = i - m
      BY <2>2
    <3>2. u[i] = t[x]
      BY <1>2, <2>2, <3>1
    <3>3. x < l /\ t[x + 1] = [t[x] EXCEPT !.part = "end"]
      BY <1>1, <1>3, <3>2 DEF Paired
    <3>4. i + 1 \in 1 .. m + l /\ ~(i + 1 <= m) /\ i + 1 - m = x + 1
      BY <2>2, <3>1, <3>3
    <3>5. u[i + 1] = t[x + 1]
      BY <1>2, <3>4
    <3> QED
      BY <3>1, <3>2, <3>3, <3>4, <3>5
  <2> QED
    BY <2>1, <2>2
<1>4. Len(u) = m + l
  BY <1>2
<1> QED
  BY <1>3, <1>4 DEF Paired, u

\* A rating, an error and nothing are so.
LEMMA PairOf ==
  ASSUME NEW r \in Requests, r.kind.page = "rating", NEW text \in Seq(Units)
  PROVE  AnswerAbout(r, text) \in Seq(AnswerParts) /\ Paired(AnswerAbout(r, text))
<1> DEFINE A == AnswerAbout(r, text)
           parts == <<"start", "end">>
<1>1. A = [i \in DOMAIN parts |-> [n |-> r.n, part |-> parts[i], of |-> text]]
  BY DEF AnswerAbout
<1>2. DOMAIN parts = 1 .. 2 /\ parts[1] = "start" /\ parts[2] = "end"
  OBVIOUS
<1>3. /\ A[1] = [n |-> r.n, part |-> "start", of |-> text]
      /\ A[2] = [n |-> r.n, part |-> "end", of |-> text]
  BY <1>1, <1>2
<1>4. A \in Seq(AnswerParts) /\ Len(A) = 2
  BY AnswerIs
<1> HIDE DEF A
<1>5. \A i \in 1 .. 2 : i = 1 \/ i = 2
  OBVIOUS
<1>6. A[1 + 1] = [A[1] EXCEPT !.part = "end"] /\ A[2].part = "end"
  BY <1>3
<1> QED
  BY <1>4, <1>5, <1>6 DEF Paired, A

\* A failure alone, and nothing.
LEMMA PairedFew ==
  /\ <<Failure>> \in Seq(AnswerParts) /\ Paired(<<Failure>>)
  /\ <<>> \in Seq(AnswerParts) /\ Paired(<<>>)
<1>1. Failure \in AnswerParts /\ Failure.part = "end"
  BY EmptySeq DEF Failure, AnswerParts
<1>2. <<Failure>> \in Seq(AnswerParts) /\ Len(<<Failure>>) = 1 /\ <<Failure>>[1] = Failure
  BY <1>1
<1>3. Paired(<<Failure>>)
  BY <1>1, <1>2 DEF Paired
<1> QED
  BY <1>2, <1>3, EmptySeq DEF Paired

\* What is sent to the service.
ServiceRequests == {r \in Requests : r.kind.server = "service"}
ServiceUnits == {FIN} \cup {Unit(r, part) : r \in ServiceRequests,
                            part \in {"head", "blank", "size", "body", "more", "zero"}}

\* They are units, and requests to the service are about ratings.
LEMMA ServiceUnitsAre ==
  /\ ServiceUnits \subseteq Units
  /\ \A s \in Seq(ServiceUnits) : s \in Seq(Units)
  /\ \A u \in ServiceUnits : u.part = "blank" => u.r \in ServiceRequests
  /\ \A r \in ServiceRequests : r \in Requests /\ r.kind.page = "rating"
                                /\ Bytes(r) \in Seq(ServiceUnits)
<1>1. ServiceUnits \subseteq Units
  BY DEF ServiceUnits, Units, ServiceRequests
<1>2. ASSUME NEW s \in Seq(ServiceUnits) PROVE s \in Seq(Units)
  BY <1>1
<1>3. ASSUME NEW u \in ServiceUnits, u.part = "blank" PROVE u.r \in ServiceRequests
  BY <1>3 DEF ServiceUnits, Unit, FIN
<1>4. ASSUME NEW r \in ServiceRequests
      PROVE  r \in Requests /\ r.kind.page = "rating" /\ Bytes(r) \in Seq(ServiceUnits)
  <2>1. r \in Requests /\ r.kind.page = "rating"
    BY DEF ServiceRequests, Requests, Kinds
  <2>2. \A part \in {"head", "blank", "size", "body", "more", "zero"} : Unit(r, part) \in ServiceUnits
    BY DEF ServiceUnits
  <2> QED
    BY <2>1, <2>2, BytesOf
<1> QED
  BY <1>1, <1>2, <1>3, <1>4

\* The bytes that are there are those of requests to the service, and the answers are
\* whole and apart.
Coherent(k, w, g) ==
  /\ k.recv \in Seq(ServiceUnits) /\ w \in Seq(ServiceUnits)
  /\ k.request_len # 0 => k.request \in ServiceRequests
  /\ k.send \in Seq(AnswerParts) /\ g \in Seq(AnswerParts) /\ Paired(g \o k.send)

\* What comes of k is this too, with at most one answer more.
Replies(k, j) ==
  /\ j.recv \in Seq(ServiceUnits) /\ (j.request_len # 0 => j.request \in ServiceRequests)
  /\ \E x \in Seq(AnswerParts) : Paired(x) /\ j.send = k.send \o x

\* A head is parsed.
Parsed(k, j) ==
  /\ DOMAIN j = Fields /\ j.recv \in Seq(ServiceUnits) /\ j.send = k.send
  /\ j.request_len \notin {0, -1} => j.request \in ServiceRequests

\* try_parse takes the head of a request to the service out, and sends nothing.
LEMMA ParsedCoherent ==
  ASSUME NEW k, DOMAIN k = Fields, k.recv \in Seq(ServiceUnits),
         k.request_len # 0 => k.request \in ServiceRequests
  PROVE  Parsed(k, try_parse(k))
<1> SUFFICES ASSUME NEW j, j = try_parse(k) PROVE Parsed(k, j)
  OBVIOUS
<1> DEFINE n == get_request_len(k.recv)
           s == k.recv
<1>1. Len(s) \in Nat
  BY LenProperties
<1>2. n \in 0 .. Len(s) /\ (n # 0 => s[n].part = "blank")
  <2> DEFINE I == {i \in 1 .. Len(s) : s[i].part = "blank"}
  <2>1. n = IF I # {} THEN Min(I) ELSE 0
    BY DEF get_request_len, SelectInSeq
  <2>2. I \in SUBSET Nat
    OBVIOUS
  <2>3. I # {} => Min(I) \in I
    BY <2>2, MinOf
  <2> HIDE DEF n
  <2> QED
    BY <1>1, <2>1, <2>3
<1>3. After(s, n) \in Seq(ServiceUnits)
  BY <1>2, Parted
<1>4. n # 0 => s[n].r \in ServiceRequests
  <2> SUFFICES ASSUME n # 0 PROVE s[n].r \in ServiceRequests
    OBVIOUS
  <2>1. n \in 1 .. Len(s)
    BY <1>1, <1>2
  <2>2. s[n] \in ServiceUnits
    BY <2>1, ElementOfSeq
  <2> QED
    BY <1>2, <2>2, ServiceUnitsAre
<1> HIDE DEF n
<1>5. \/ j = k
      \/ /\ n # 0
         /\ \/ j = [k EXCEPT !.recv = After(@, n), !.request_len = n, !.request = s[n].r,
                    !.cl = IF s[n].r.kind.length = "given" THEN s[n].r.kind.body ELSE 0]
            \/ j = [k EXCEPT !.recv = After(@, n), !.request_len = -1]
  BY DEF try_parse, n
<1>6. CASE j = k
  BY <1>6 DEF Parsed
<1>7. CASE n # 0 /\ j = [k EXCEPT !.recv = After(@, n), !.request_len = n, !.request = s[n].r,
                    !.cl = IF s[n].r.kind.length = "given" THEN s[n].r.kind.body ELSE 0]
  <2>1. /\ DOMAIN j = Fields /\ j.recv = After(s, n) /\ j.send = k.send /\ j.request = s[n].r
    BY <1>7 DEF Fields
  <2> QED
    BY <1>3, <1>4, <1>7, <2>1 DEF Parsed
<1>8. CASE n # 0 /\ j = [k EXCEPT !.recv = After(@, n), !.request_len = -1]
  <2>1. DOMAIN j = Fields /\ j.recv = After(s, n) /\ j.send = k.send /\ j.request_len = -1
    BY <1>8 DEF Fields
  <2> QED
    BY <1>3, <2>1 DEF Parsed
<1> QED
  BY <1>5, <1>6, <1>7, <1>8

\* The end of a request leaves the answers.
LEMMA ClosedCoherent ==
  ASSUME NEW k, DOMAIN k = Fields, NEW j, j = close_local_endpoint(k)
  PROVE  j.recv = <<>> /\ j.request_len = 0 /\ j.send = k.send /\ DOMAIN j = Fields
BY DEF close_local_endpoint, Fields

\* Bytes reach the service.
LEMMA CoherentHears ==
  ASSUME NEW k, DOMAIN k = Fields, k.recv \in Seq(ServiceUnits),
         k.request_len # 0 => k.request \in ServiceRequests, k.send \in Seq(AnswerParts)
  PROVE  Replies(k, on_recv_data(k))
<1> DEFINE p == try_parse(k)
           e == [p EXCEPT !.send = Append(@, Failure)]
           u == [p EXCEPT !.user = TRUE]
           a == [u EXCEPT !.send = @ \o AnswerAbout(u.request, Asked(u))]
           j == on_recv_data(k)
<1>1. /\ DOMAIN p = Fields /\ p.recv \in Seq(ServiceUnits) /\ p.send = k.send
      /\ p.request_len \notin {0, -1} => p.request \in ServiceRequests
  <2>1. Parsed(k, p)
    BY ParsedCoherent
  <2> QED
    BY <2>1 DEF Parsed
<1>2. \/ j = close_local_endpoint(e)
      \/ j = p /\ p.request_len = 0
      \/ j = close_local_endpoint(a) /\ p.request_len # 0 /\ ~(p.request_len < 0)
      \/ j = u /\ p.request_len # 0 /\ ~(p.request_len < 0)
  BY DEF on_recv_data, send_http_error, call_request_handler_if_data_is_buffered,
     call_request_handler
<1> HIDE DEF p, j
<1>3. ~(p.request_len < 0) => p.request_len # -1
  OBVIOUS
<1>4. <<>> \in Seq(ServiceUnits)
  BY EmptySeq
<1>5. k.send \o <<>> = k.send /\ Append(k.send, Failure) = k.send \o <<Failure>>
  BY ConcatEmptySeq, PairedFew, AppendIsConcat DEF AnswerParts
<1>6. CASE j = close_local_endpoint(e)
  <2>1. DOMAIN e = Fields /\ e.send = k.send \o <<Failure>>
    BY <1>1, <1>5 DEF Fields
  <2> HIDE DEF e
  <2>2. j.recv = <<>> /\ j.request_len = 0 /\ j.send = e.send
    BY <1>6, <2>1, ClosedCoherent
  <2> QED
    BY <1>4, <2>1, <2>2, PairedFew DEF Replies, j
<1>7. CASE j = p /\ p.request_len = 0
  <2>1. \E x \in Seq(AnswerParts) : Paired(x) /\ j.send = k.send \o x
    BY <1>1, <1>5, <1>7, PairedFew
  <2> QED
    BY <1>1, <1>7, <2>1 DEF Replies, j
<1>8. CASE j = close_local_endpoint(a) /\ p.request_len # 0 /\ ~(p.request_len < 0)
  <2> DEFINE x == AnswerAbout(u.request, Asked(u))
  <2>1. /\ DOMAIN u = Fields /\ u.recv = p.recv /\ u.request = p.request /\ u.send = k.send
    BY <1>1 DEF Fields
  <2> HIDE DEF u
  <2>2. u.request \in ServiceRequests
    BY <1>1, <1>3, <1>8, <2>1
  <2>3. Asked(u) \in Seq(Units)
    <3>1. Unit(u.request, "head") \in Units
      BY <2>2, ServiceUnitsAre DEF Units
    <3>2. u.recv \in Seq(Units)
      BY <1>1, <2>1, ServiceUnitsAre
    <3> QED
      BY <3>1, <3>2 DEF Asked
  <2>4. x \in Seq(AnswerParts) /\ Paired(x)
    BY <2>2, <2>3, ServiceUnitsAre, PairOf
  <2>5. DOMAIN a = Fields /\ a.send = k.send \o x
    BY <2>1 DEF Fields
  <2> HIDE DEF a, x
  <2>6. j.recv = <<>> /\ j.request_len = 0 /\ j.send = a.send
    BY <1>8, <2>5, ClosedCoherent
  <2> QED
    BY <1>4, <2>4, <2>5, <2>6 DEF Replies, j
<1>9. CASE j = u /\ p.request_len # 0 /\ ~(p.request_len < 0)
  <2>1. u.recv = p.recv /\ u.request = p.request /\ u.send = k.send /\ u.request_len = p.request_len
    BY <1>1 DEF Fields
  <2> HIDE DEF u
  <2>2. \E x \in Seq(AnswerParts) : Paired(x) /\ j.send = k.send \o x
    BY <1>5, <1>9, <2>1, PairedFew
  <2> QED
    BY <1>1, <1>3, <1>9, <2>1, <2>2 DEF Replies, j
<1> QED
  BY <1>2, <1>6, <1>7, <1>8, <1>9

\* The service reads what any client sent.
LEMMA CoherentReceives ==
  ASSUME NEW k, DOMAIN k = Fields, k.data, NEW w, NEW g, Coherent(k, w, g),
         NEW n \in 1 .. Len(w), NEW b, b = [k EXCEPT !.recv = @ \o Take(w, n)]
  PROVE  Coherent(ns_recv(b, n), After(w, n), g)
<1> DEFINE h == [b EXCEPT !.num_bytes_recv = @ + n]
           j == ns_recv(b, n)
           t == Take(w, n)
<1>1. t \in Seq(ServiceUnits) /\ After(w, n) \in Seq(ServiceUnits) /\ k.recv \in Seq(ServiceUnits)
  <2>1. n \in 0 .. Len(w) /\ w \in Seq(ServiceUnits)
    BY LenProperties DEF Coherent
  <2> QED
    BY <2>1, Parted DEF Coherent
<1> HIDE DEF t
<1>2. k.recv \o t \in Seq(ServiceUnits)
  BY <1>1, ConcatProperties
<1>3. /\ DOMAIN h = Fields /\ h.recv = k.recv \o t /\ h.request_len = k.request_len
      /\ h.request = k.request /\ h.send = k.send
  BY DEF Fields, t
<1>4. j = on_recv_data(h)
  BY DEF ns_recv, Fields
<1> HIDE DEF h, j
<1>5. Replies(h, j)
  BY <1>2, <1>3, <1>4, CoherentHears DEF Coherent
<1>6. PICK x \in Seq(AnswerParts) : Paired(x) /\ j.send = k.send \o x
  BY <1>3, <1>5 DEF Replies
<1>7. j.send \in Seq(AnswerParts) /\ (g \o k.send) \o x = g \o (k.send \o x)
      /\ g \o k.send \in Seq(AnswerParts)
  <2>1. k.send \in Seq(AnswerParts) /\ g \in Seq(AnswerParts)
    BY DEF Coherent
  <2>2. k.send \o x \in Seq(AnswerParts) /\ g \o k.send \in Seq(AnswerParts)
    BY <2>1, ConcatProperties
  <2>3. (g \o k.send) \o x = g \o (k.send \o x)
    BY <2>1, ThreeParts
  <2> QED
    BY <1>6, <2>2, <2>3
<1>8. Paired((g \o k.send) \o x)
  BY <1>6, <1>7, PairedMore DEF Coherent
<1> QED
  BY <1>1, <1>5, <1>6, <1>7, <1>8 DEF Coherent, Replies, j

\* The service sends.
LEMMA CoherentWrites ==
  ASSUME NEW k, DOMAIN k = Fields, NEW w, NEW g, Coherent(k, w, g), NEW n \in 1 .. Len(k.send)
  PROVE  Coherent([k EXCEPT !.send = After(@, n)], w, g \o Take(k.send, n))
<1> DEFINE t == Take(k.send, n)
           v == After(k.send, n)
           b == [k EXCEPT !.send = After(@, n)]
<1>1. k.send \in Seq(AnswerParts) /\ g \in Seq(AnswerParts) /\ n \in 0 .. Len(k.send)
  BY LenProperties DEF Coherent
<1>2. t \in Seq(AnswerParts) /\ v \in Seq(AnswerParts) /\ (g \o t) \o v = g \o k.send
  BY <1>1, Parted, Regroup
<1>3. /\ b.send = v /\ b.recv = k.recv /\ b.request_len = k.request_len /\ b.request = k.request
  BY DEF Fields
<1> HIDE DEF b, v, t
<1>4. g \o t \in Seq(AnswerParts)
  BY <1>1, <1>2, ConcatProperties
<1> QED
  BY <1>2, <1>3, <1>4 DEF Coherent, b, t


-----------------------------------------------------------------------------
(* The invariant.                                                          *)

\* A polite client of either server.
Served(p, a, w, g, k) ==
  IF p = "service" THEN ServiceAsks(a) /\ ServiceOK(k, a, w, g)
                   ELSE RestAsks(a) /\ RestOK(k, a, w, g)

\* A connection: what is kept for it is new as long as it is not open, and when it is
\* closed nothing is left of it.
Orderly(p, pol, a, w, g, st, k) ==
  /\ pol => g \in Seq(AnswerParts) /\ Served(p, a, w, g, k)
  /\ p = "service" => Coherent(k, w, g)
  /\ Numbered(a)
  /\ st # "open" => k = Fresh /\ g = <<>>
  /\ st \in {"none", "closed"} => a = <<>> /\ w = <<>>

\* All connections are in order: the inductive invariant.
OInv ==
  /\ got = [c \in Conns |-> got[c]]
  /\ \A c \in Conns :
       Orderly(program, polite(c), asked[c], wire[c], got[c], state[c], conn[c])

\* A connection on which nothing was sent.
LEMMA OrderlyFresh ==
  ASSUME NEW p, NEW pol, NEW st PROVE Orderly(p, pol, <<>>, <<>>, <<>>, st, Fresh)
<1>1. <<>> \in Seq(AnswerParts) /\ <<>> \in Seq(Units) /\ <<>> \in Seq(ServiceUnits) /\ DOMAIN <<>> = {}
  BY EmptySeq
<1>2. <<>> \o <<>> = <<>>
  BY <1>1, ConcatEmptySeq
<1>3. /\ Fresh.send = <<>> /\ Fresh.recv = <<>> /\ Fresh.request_len = 0 /\ ~Fresh.finish
      /\ ~Fresh.close /\ Fresh.file = -1 /\ Fresh.body_len = 0
  BY DEF Fresh
<1>4. Owed(<<>>) = <<>>
  BY OwedNothing
<1>5. Numbered(<<>>)
  BY <1>1, <1>4 DEF Numbered
<1>6. ServiceAsks(<<>>) /\ RestAsks(<<>>)
  BY <1>1 DEF ServiceAsks, RestAsks
<1>7. ServiceOK(Fresh, <<>>, <<>>, <<>>)
  BY <1>2, <1>3, <1>4 DEF ServiceOK, ServiceDone
<1>8. Left(Fresh) = <<>> /\ FileOK(Fresh)
  BY <1>3 DEF Left, FileOK
<1>9. RestOK(Fresh, <<>>, <<>>, <<>>)
  BY <1>1, <1>2, <1>3, <1>4, <1>8 DEF RestOK, RestDone
<1>10. Coherent(Fresh, <<>>, <<>>)
  BY <1>1, <1>2, <1>3, PairedFew DEF Coherent
<1> QED
  BY <1>1, <1>5, <1>6, <1>7, <1>9, <1>10 DEF Orderly, Served

\* One that is accepted; the service may have no memory for it.
LEMMA OrderlyAccepted ==
  ASSUME NEW p, NEW pol, NEW a, NEW w, NEW g, NEW k, Orderly(p, pol, a, w, g, "backlog", k),
         NEW memory \in BOOLEAN, p # "service" => memory
  PROVE  Orderly(p, pol, a, w, g, "open", [Fresh EXCEPT !.data = memory, !.close = ~memory])
<1> DEFINE j == [Fresh EXCEPT !.data = memory, !.close = ~memory]
<1>1. k = Fresh
  BY DEF Orderly
<1>2. /\ j.send = k.send /\ j.recv = k.recv /\ j.request_len = k.request_len /\ j.cl = k.cl
      /\ j.finish = k.finish /\ j.file = k.file /\ j.body_len = k.body_len
      /\ j.request = k.request /\ j.data = memory /\ j.close = ~memory
  BY <1>1 DEF Fresh
<1> HIDE DEF j
<1>3. ServiceOK(k, a, w, g) => ServiceOK(j, a, w, g)
  <2>1. ServiceWaits(k, a, w, g) => ServiceWaits(j, a, w, g)
    BY <1>2 DEF ServiceWaits
  <2>2. ServiceDone(k, a, w, g) => ServiceDone(j, a, w, g)
    BY <1>2 DEF ServiceDone
  <2>3. ~(j.data /\ j.close)
    BY <1>2
  <2> QED
    BY <2>1, <2>2, <2>3 DEF ServiceOK
<1>4. p # "service" /\ RestOK(k, a, w, g) => RestOK(j, a, w, g)
  <2>1. RestWaits(k, a, w, g) => RestWaits(j, a, w, g)
    BY <1>2 DEF RestWaits, OnItsWay
  <2>2. RestDone(k, a, w, g) => RestDone(j, a, w, g)
    BY <1>2 DEF RestDone, Left, FileOK
  <2>3. p # "service" => ~j.close
    BY <1>2
  <2> QED
    BY <2>1, <2>2, <2>3 DEF RestOK
<1>5. Coherent(k, w, g) => Coherent(j, w, g)
  BY <1>2 DEF Coherent
<1>6. Orderly(p, pol, a, w, g, "open", j)
  BY <1>3, <1>4, <1>5 DEF Orderly, Served
<1> QED
  BY <1>6 DEF j

\* A client sends a request.
LEMMA OrderlyAsked ==
  ASSUME NEW p \in {"service", "rest"}, NEW pol \in BOOLEAN, NEW a \in Seq(Requests), NEW w \in Seq(Units), NEW g,
         NEW st \in {"backlog", "open"}, NEW k, Orderly(p, pol, a, w, g, st, k),
         NEW r \in Requests, r.n = Len(a) + 1, r.kind.server = p, ~Contains(w, FIN),
         a # <<>> => Last(a).kind.length # "chunked",
         pol => /\ Everything(a, g) /\ r.kind.length # "none" /\ r.kind.page # "print"
                /\ r.kind.head \in {"good", "long"}
                /\ p = "service" => r.kind.length # "chunked"
                /\ a # <<>> => Last(a).kind.keep
  PROVE  Orderly(p, pol, Append(a, r), w \o Bytes(r), g, st, k)
<1> DEFINE b == Append(a, r)
           v == w \o Bytes(r)
<1>1. Numbered(a) /\ Numbered(b)
  BY NumberedOne DEF Orderly
<1>2. \A n \in DOMAIN b : (n \in DOMAIN a /\ b[n] = a[n]) \/ b[n] = r
  <2>1. b \in Seq(Requests) /\ Len(b) = Len(a) + 1 /\ Len(a) \in Nat /\ DOMAIN a = 1 .. Len(a)
        /\ (\A i \in 1 .. Len(a) : b[i] = a[i]) /\ b[Len(a) + 1] = r
    BY AppendProperties, LenProperties
  <2>2. DOMAIN b = 1 .. Len(a) + 1
    BY <2>1, LenProperties
  <2> HIDE DEF b
  <2> QED
    BY <2>1, <2>2
<1>3. p = "service" => Coherent(k, w, g)
  BY DEF Orderly
<1>4. p = "service" => Coherent(k, v, g)
  <2>1. p = "service" => r \in ServiceRequests
    BY DEF ServiceRequests
  <2>2. p = "service" => Bytes(r) \in Seq(ServiceUnits)
    BY <2>1, ServiceUnitsAre
  <2>3. p = "service" => v \in Seq(ServiceUnits)
    BY <1>3, <2>2, ConcatProperties DEF Coherent
  <2> HIDE DEF v
  <2> QED
    BY <1>3, <2>3 DEF Coherent
<1>5. ASSUME pol, p = "service" PROVE ServiceAsks(b) /\ ServiceOK(k, b, v, g)
  <2>1. /\ g \in Seq(AnswerParts) /\ ServiceAsks(a) /\ ServiceOK(k, a, w, g)
        /\ k.send \in Seq(AnswerParts)
    BY <1>3, <1>5 DEF Orderly, Served, Coherent
  <2>2. ServiceOK(k, b, v, g)
    BY <1>1, <1>5, <2>1, ServiceAsked
  <2>3. r.kind.length = "given"
    BY <1>5 DEF Requests, Kinds
  <2> HIDE DEF b
  <2>4. ServiceAsks(b)
    BY <1>2, <1>5, <2>1, <2>3 DEF ServiceAsks
  <2> QED
    BY <2>2, <2>4
<1>6. ASSUME pol, p = "rest" PROVE RestAsks(b) /\ RestOK(k, b, v, g)
  <2>1. g \in Seq(AnswerParts) /\ RestAsks(a) /\ RestOK(k, a, w, g)
    BY <1>6 DEF Orderly, Served
  <2>2. RestOK(k, b, v, g)
    BY <1>1, <1>6, <2>1, RestAsked
  <2> HIDE DEF b
  <2>4. RestAsks(b)
    BY <1>2, <1>6, <2>1 DEF RestAsks
  <2> QED
    BY <2>2, <2>4
<1> HIDE DEF b, v
<1>7. pol => g \in Seq(AnswerParts) /\ Served(p, b, v, g, k)
  BY <1>5, <1>6 DEF Orderly, Served
<1>8. st # "open" => k = Fresh /\ g = <<>>
  BY DEF Orderly
<1>9. Orderly(p, pol, b, v, g, st, k)
  BY <1>1, <1>4, <1>7, <1>8 DEF Orderly
<1> QED
  BY <1>9 DEF b, v

\* A client shuts its side.
LEMMA OrderlyShut ==
  ASSUME NEW p \in {"service", "rest"}, NEW pol \in BOOLEAN, NEW a \in Seq(Requests), NEW w \in Seq(Units), NEW g,
         NEW st \in {"backlog", "open"}, NEW k, Orderly(p, pol, a, w, g, st, k),
         NEW n \in 0 .. Len(w), ~Contains(w, FIN), pol => Everything(a, g) /\ n = 0
  PROVE  Orderly(p, pol, a, Append(Take(w, Len(w) - n), FIN), g, st, k)
<1> DEFINE v == Append(Take(w, Len(w) - n), FIN)
<1>1. Numbered(a) /\ (st # "open" => k = Fresh /\ g = <<>>) /\ (p = "service" => Coherent(k, w, g))
  BY DEF Orderly
<1>2. p = "service" => Coherent(k, v, g)
  <2>1. Len(w) - n \in 0 .. Len(w)
    BY LenProperties
  <2>2. p = "service" => w \in Seq(ServiceUnits)
    BY <1>1 DEF Coherent
  <2>3. p = "service" => Take(w, Len(w) - n) \in Seq(ServiceUnits)
    BY <2>1, <2>2, Parted
  <2>4. FIN \in ServiceUnits
    BY DEF ServiceUnits
  <2>5. p = "service" => v \in Seq(ServiceUnits)
    BY <2>3, <2>4, AppendProperties
  <2> HIDE DEF v
  <2> QED
    BY <1>1, <2>5 DEF Coherent
<1>3. ASSUME pol, p = "service" PROVE g \in Seq(AnswerParts) /\ ServiceAsks(a) /\ ServiceOK(k, a, v, g)
  <2>1. /\ g \in Seq(AnswerParts) /\ ServiceAsks(a) /\ ServiceOK(k, a, w, g)
        /\ k.send \in Seq(AnswerParts)
    BY <1>1, <1>3 DEF Orderly, Served, Coherent
  <2>2. ServiceOK(k, a, Append(Take(w, Len(w) - 0), FIN), g)
    BY <1>1, <1>3, <2>1, ServiceShut
  <2> QED
    BY <1>3, <2>1, <2>2
<1>4. ASSUME pol, p = "rest" PROVE g \in Seq(AnswerParts) /\ RestAsks(a) /\ RestOK(k, a, v, g)
  <2>1. /\ g \in Seq(AnswerParts) /\ RestAsks(a) /\ RestOK(k, a, w, g)
    BY <1>4 DEF Orderly, Served
  <2>2. RestOK(k, a, Append(Take(w, Len(w) - 0), FIN), g)
    BY <1>1, <1>4, <2>1, RestShut
  <2> QED
    BY <1>4, <2>1, <2>2
<1> HIDE DEF v
<1>5. Orderly(p, pol, a, v, g, st, k)
  BY <1>1, <1>2, <1>3, <1>4 DEF Orderly, Served
<1> QED
  BY <1>5 DEF v

\* The service reads from a connection.
LEMMA OrderlyReceives ==
  ASSUME NEW pol \in BOOLEAN, NEW a \in Seq(Requests), NEW w \in Seq(Units), NEW g, NEW k,
         Orderly("service", pol, a, w, g, "open", k), DOMAIN k = Fields, Counted(k), k.data, ~k.fault,
         NEW n \in 1 .. Len(w), ~Contains(Take(w, n), FIN),
         NEW b, b = [k EXCEPT !.recv = @ \o Take(w, n)]
  PROVE  Orderly("service", pol, a, After(w, n), g, "open", ns_recv(b, n))
<1>1. Numbered(a) /\ Coherent(k, w, g)
  BY DEF Orderly
<1>2. Coherent(ns_recv(b, n), After(w, n), g)
  BY <1>1, CoherentReceives
<1>3. ASSUME pol
      PROVE  g \in Seq(AnswerParts) /\ ServiceAsks(a) /\ ServiceOK(ns_recv(b, n), a, After(w, n), g)
  <2>1. /\ g \in Seq(AnswerParts) /\ ServiceAsks(a) /\ ServiceOK(k, a, w, g)
        /\ k.send \in Seq(AnswerParts)
    BY <1>1, <1>3 DEF Orderly, Served, Coherent
  <2> QED
    BY <2>1, ServiceReceives
<1> QED
  BY <1>1, <1>2, <1>3 DEF Orderly, Served

\* The RESTful server does.
LEMMA OrderlyRestReceives ==
  ASSUME NEW pol \in BOOLEAN, NEW a \in Seq(Requests), NEW w \in Seq(Units), NEW g, NEW k,
         Orderly("rest", pol, a, w, g, "open", k), DOMAIN k = Fields, ~k.close,
         NEW n \in 1 .. Len(w), ~Contains(Take(w, n), FIN),
         NEW b, b = [k EXCEPT !.recv = @ \o Take(w, n)]
  PROVE  Orderly("rest", pol, a, After(w, n), g, "open", http_handler(b, "recv"))
<1> DEFINE j == http_handler(b, "recv")
<1>1. Numbered(a)
  BY DEF Orderly
<1>2. ASSUME pol
      PROVE  g \in Seq(AnswerParts) /\ RestAsks(a) /\ RestOK(j, a, After(w, n), g)
  <2>1. g \in Seq(AnswerParts) /\ RestAsks(a) /\ RestOK(k, a, w, g)
    BY <1>2 DEF Orderly, Served
  <2> QED
    BY <2>1, RestReceives
<1> HIDE DEF j
<1>3. Orderly("rest", pol, a, After(w, n), g, "open", j)
  BY <1>1, <1>2 DEF Orderly, Served
<1> QED
  BY <1>3 DEF j

\* A server finds the end of the input.
LEMMA OrderlyEnds ==
  ASSUME NEW p \in {"service", "rest"}, NEW pol \in BOOLEAN, NEW a \in Seq(Requests), NEW w \in Seq(Units), NEW g, NEW k,
         Orderly(p, pol, a, w, g, "open", k), DOMAIN k = Fields, p = "service" => Counted(k),
         w # <<>>, w[1] = FIN
  PROVE  Orderly(p, pol, a, w, g, "open", [k EXCEPT !.close = TRUE])
<1> DEFINE j == [k EXCEPT !.close = TRUE]
<1>1. Numbered(a) /\ (p = "service" => Coherent(k, w, g))
  BY DEF Orderly
<1>2. ASSUME pol, p = "service" PROVE g \in Seq(AnswerParts) /\ ServiceAsks(a) /\ ServiceOK(j, a, w, g)
  <2>1. g \in Seq(AnswerParts) /\ ServiceAsks(a) /\ ServiceOK(k, a, w, g)
    BY <1>2 DEF Orderly, Served
  <2> QED
    BY <1>2, <2>1, ServiceEnds
<1>3. ASSUME pol, p = "rest" PROVE g \in Seq(AnswerParts) /\ RestAsks(a) /\ RestOK(j, a, w, g)
  <2>1. g \in Seq(AnswerParts) /\ RestAsks(a) /\ RestOK(k, a, w, g)
    BY <1>3 DEF Orderly, Served
  <2> QED
    BY <2>1, RestEnds
<1>4. /\ j.recv = k.recv /\ j.request_len = k.request_len /\ j.request = k.request /\ j.send = k.send
  BY DEF Fields
<1> HIDE DEF j
<1>5. p = "service" => Coherent(j, w, g)
  BY <1>1, <1>4 DEF Coherent
<1>6. Orderly(p, pol, a, w, g, "open", j)
  BY <1>1, <1>2, <1>3, <1>5 DEF Orderly, Served
<1> QED
  BY <1>6 DEF j

\* The service writes.
LEMMA OrderlyWrites ==
  ASSUME NEW pol \in BOOLEAN, NEW a, NEW w, NEW g, NEW k, Orderly("service", pol, a, w, g, "open", k),
         DOMAIN k = Fields, NEW n \in 1 .. Len(k.send)
  PROVE  Orderly("service", pol, a, w, g \o Take(k.send, n), "open", [k EXCEPT !.send = After(@, n)])
<1> DEFINE j == [k EXCEPT !.send = After(@, n)]
           h == g \o Take(k.send, n)
<1>1. Numbered(a) /\ Coherent(k, w, g)
  BY DEF Orderly
<1>2. Coherent(j, w, h)
  BY <1>1, CoherentWrites
<1>3. ASSUME pol PROVE ServiceAsks(a) /\ ServiceOK(j, a, w, h)
  <2>1. /\ g \in Seq(AnswerParts) /\ ServiceAsks(a) /\ ServiceOK(k, a, w, g)
        /\ k.send \in Seq(AnswerParts)
    BY <1>1, <1>3 DEF Orderly, Served, Coherent
  <2> QED
    BY <2>1, ServiceWrites
<1> HIDE DEF j, h
<1>4. h \in Seq(AnswerParts)
  BY <1>2 DEF Coherent
<1>5. Orderly("service", pol, a, w, h, "open", j)
  BY <1>1, <1>2, <1>3, <1>4 DEF Orderly, Served
<1> QED
  BY <1>5 DEF j, h

\* The RESTful server does.
LEMMA OrderlyRestWrites ==
  ASSUME NEW pol \in BOOLEAN, NEW a, NEW w, NEW g, NEW k, Orderly("rest", pol, a, w, g, "open", k),
         DOMAIN k = Fields, NEW n \in 1 .. Len(k.send)
  PROVE  Orderly("rest", pol, a, w, g \o Take(k.send, n), "open",
                 http_handler([k EXCEPT !.send = After(@, n)], "send"))
<1> DEFINE j == http_handler([k EXCEPT !.send = After(@, n)], "send")
           h == g \o Take(k.send, n)
<1>1. Numbered(a)
  BY DEF Orderly
<1>3. ASSUME pol PROVE h \in Seq(AnswerParts) /\ RestAsks(a) /\ RestOK(j, a, w, h)
  <2>1. g \in Seq(AnswerParts) /\ RestAsks(a) /\ RestOK(k, a, w, g)
    BY <1>3 DEF Orderly, Served
  <2>2. k.send \in Seq(AnswerParts)
    BY <2>1, EmptySeq DEF RestOK, RestWaits, RestDone
  <2>3. RestOK(j, a, w, h)
    BY <2>1, <2>2, RestWrites
  <2>4. n \in 0 .. Len(k.send)
    BY <2>2, LenProperties
  <2>5. h \in Seq(AnswerParts)
    BY <2>1, <2>2, <2>4, Parted, ConcatProperties
  <2> QED
    BY <2>1, <2>3, <2>5
<1> HIDE DEF j, h
<1>5. Orderly("rest", pol, a, w, h, "open", j)
  BY <1>1, <1>3 DEF Orderly, Served
<1> QED
  BY <1>5 DEF j, h

\* The RESTful server polls.
LEMMA OrderlyRestPolls ==
  ASSUME NEW pol \in BOOLEAN, NEW a, NEW w, NEW g, NEW k, Orderly("rest", pol, a, w, g, "open", k),
         DOMAIN k = Fields
  PROVE  Orderly("rest", pol, a, w, g, "open", http_handler(k, "poll"))
<1>1. pol => RestOK(k, a, w, g)
  BY DEF Orderly, Served
<1>2. pol => RestOK(http_handler(k, "poll"), a, w, g)
  BY <1>1, RestPolls
<1> QED
  BY <1>2 DEF Orderly, Served


\* What select found readable has something to read.
There == \A c \in Conns : ready[c] = "read" => wire[c] # <<>>

\* What the RESTful server is to close at once has no event before the next poll.
Ending ==
  program = "rest" => \A c \in Conns : conn[c].close => ready[c] = "no" /\ ~writable[c]

-----------------------------------------------------------------------------
(* The steps.                                                              *)

\* A step of one connection.
LEMMA OneKeepsOrder ==
  ASSUME OInv, UNCHANGED <<program, clients>>, got' = [d \in Conns |-> got'[d]], NEW c \in Conns,
         \A d \in Conns \ {c} : /\ asked'[d] = asked[d] /\ wire'[d] = wire[d] /\ got'[d] = got[d]
                                /\ state'[d] = state[d] /\ conn'[d] = conn[d],
         Orderly(program, polite(c), asked'[c], wire'[c], got'[c], state'[c], conn'[c])
  PROVE  OInv'
<1>1. ASSUME NEW d \in Conns
      PROVE  Orderly(program, polite(d), asked'[d], wire'[d], got'[d], state'[d], conn'[d])
  <2>1. CASE d = c
    BY <2>1
  <2>2. CASE d # c
    BY <2>2 DEF OInv
  <2> QED
    BY <2>1, <2>2
<1>2. \A d \in Conns : polite(d)' = polite(d)
  BY DEF polite
<1> QED
  BY <1>1, <1>2 DEF OInv

\* What is known of a connection.
LEMMA Known ==
  ASSUME HInv, OInv, NEW c \in Conns
  PROVE  /\ Orderly(program, polite(c), asked[c], wire[c], got[c], state[c], conn[c])
         /\ program \in {"service", "rest"} /\ polite(c) \in BOOLEAN
         /\ asked[c] \in Seq(Requests) /\ wire[c] \in Seq(Units)
         /\ DOMAIN conn[c] = Fields /\ ~conn[c].fault /\ (program = "service" => Counted(conn[c]))
BY CrowdsAssumption DEF HInv, Ranges, OInv, Sound, polite, Conns

\* A client counts what it has.
LEMMA DoneIs == \A c \in Conns : Done(c) => Everything(asked[c], got[c])
BY DEF Done, Answered, Everything, For

\* A client connects, sends or shuts its side.
LEMMA ClientKeepsOrder ==
  ASSUME HInv, OInv, NEW c \in Conns, Client(c) PROVE OInv'
<1>1. CASE Connect(c)
  <2>1. /\ state[c] = "none" /\ state' = [state EXCEPT ![c] = "backlog"]
        /\ UNCHANGED <<client, wire, got, conn>>
    BY <1>1 DEF Connect
  <2>2. state'[c] = "backlog" /\ \A d \in Conns \ {c} : state'[d] = state[d]
    BY <2>1 DEF HInv, Ranges
  <2>3. Orderly(program, polite(c), asked[c], wire[c], got[c], "backlog", conn[c])
    BY <2>1, Known DEF Orderly
  <2>4. got' = [d \in Conns |-> got'[d]]
    BY <2>1 DEF OInv
  <2> QED
    BY <2>1, <2>2, <2>3, <2>4, OneKeepsOrder DEF client
<1>2. ASSUME NEW kind \in clients[c].kinds, Send(c, kind) PROVE OInv'
  <2> DEFINE r == Request(kind, Len(asked[c]) + 1)
  <2>1. /\ asked' = [asked EXCEPT ![c] = Append(@, r)]
        /\ wire' = [wire EXCEPT ![c] = @ \o Bytes(r)]
        /\ UNCHANGED <<program, clients, got, state, conn>>
    BY <1>2 DEF Send
  <2>2. /\ Up(c) /\ kind.server = program
        /\ asked[c] # <<>> => Last(asked[c]).kind.length # "chunked"
        /\ polite(c) => /\ Done(c) /\ kind.length # "none" /\ kind.page # "print"
                        /\ kind.head \in {"good", "long"}
                        /\ asked[c] # <<>> => Last(asked[c]).kind.keep
    BY <1>2 DEF Send
  <2>3. state[c] \in {"backlog", "open"} /\ ~Contains(wire[c], FIN)
    BY <2>2 DEF Up
  <2>4. kind \in Kinds /\ (polite(c) /\ kind.server = "service" => kind.length # "chunked")
    BY CrowdsAssumption, MannersAssumption DEF HInv, Ranges, polite, Conns
  <2>5. r \in Requests /\ r.n = Len(asked[c]) + 1 /\ r.kind = kind
    BY <2>4, Known, LenProperties DEF Requests, Request
  <2>6. polite(c) => Everything(asked[c], got[c])
    BY <2>2, DoneIs
  <2> HIDE DEF r
  <2>7. Orderly(program, polite(c), Append(asked[c], r), wire[c] \o Bytes(r), got[c], state[c], conn[c])
    <3>1. /\ r.kind.server = program /\ (asked[c] # <<>> => Last(asked[c]).kind.length # "chunked")
          /\ polite(c) => /\ Everything(asked[c], got[c])
                          /\ r.kind.length # "none" /\ r.kind.page # "print"
                          /\ r.kind.head \in {"good", "long"}
                          /\ program = "service" => r.kind.length # "chunked"
                          /\ asked[c] # <<>> => Last(asked[c]).kind.keep
      BY <2>2, <2>4, <2>5, <2>6
    <3>2. /\ Orderly(program, polite(c), asked[c], wire[c], got[c], state[c], conn[c])
          /\ program \in {"service", "rest"} /\ polite(c) \in BOOLEAN
          /\ asked[c] \in Seq(Requests) /\ wire[c] \in Seq(Units)
      BY Known
    <3> QED
      BY <2>3, <2>5, <3>1, <3>2, OrderlyAsked
  <2>8. /\ asked'[c] = Append(asked[c], r) /\ wire'[c] = wire[c] \o Bytes(r)
        /\ \A d \in Conns \ {c} : asked'[d] = asked[d] /\ wire'[d] = wire[d]
    BY <2>1 DEF HInv, Ranges
  <2>9. got' = [d \in Conns |-> got'[d]]
    BY <2>1 DEF OInv
  <2> QED
    BY <2>1, <2>7, <2>8, <2>9, OneKeepsOrder
<1>3. ASSUME NEW n \in 0 .. Len(wire[c]), Shut(c, n) PROVE OInv'
  <2> DEFINE v == Append(Take(wire[c], Len(wire[c]) - n), FIN)
  <2>1. /\ wire' = [wire EXCEPT ![c] = v]
        /\ UNCHANGED <<client, got, state, conn>>
        /\ Up(c) /\ (polite(c) => Done(c) /\ n = 0)
    BY <1>3 DEF Shut
  <2>2. state[c] \in {"backlog", "open"} /\ ~Contains(wire[c], FIN)
    BY <2>1 DEF Up
  <2>3. Orderly(program, polite(c), asked[c], v, got[c], state[c], conn[c])
    BY <2>1, <2>2, Known, DoneIs, OrderlyShut
  <2> HIDE DEF v
  <2>4. wire'[c] = v /\ \A d \in Conns \ {c} : wire'[d] = wire[d]
    BY <2>1 DEF HInv, Ranges
  <2>5. got' = [d \in Conns |-> got'[d]]
    BY <2>1 DEF OInv
  <2> QED
    BY <2>1, <2>3, <2>4, <2>5, OneKeepsOrder DEF client
<1> QED
  BY <1>1, <1>2, <1>3 DEF Client

\* Time passes.
LEMMA AgeKeepsOrder ==
  ASSUME OInv, NEW c \in Conns, Age(c) PROVE OInv'
BY DEF Age, OInv, client, polite

\* The connections that go are as new; those that stay are in order as polled and as in
\* idle.
LEMMA PollKeepsOrder ==
  ASSUME HInv, OInv, NEW m \in Managers, NEW gone \in SUBSET Owned(m), NEW polled, NEW idle,
         Poll(m, gone, polled, idle),
         \A c \in Owned(m) \ gone : \A k \in {polled[c], idle[c]} :
           Orderly(program, polite(c), asked[c], wire[c], got[c], "open", k)
  PROVE  OInv'
<1> DEFINE stay == Owned(m) \ gone
           write == {c \in stay : polled[c].send # <<>>}
           read == {c \in stay : wire[c] # <<>>}
<1>1. /\ state' = [c \in Conns |-> IF c \in gone THEN "closed" ELSE state[c]]
      /\ wire' = [c \in Conns |-> IF c \in gone THEN <<>> ELSE wire[c]]
      /\ conn' = [c \in Conns |->
                   CASE c \in gone -> Fresh
                     [] c \in stay \ (read \cup write) -> idle[c]
                     [] c \in read \cup write -> polled[c]
                     [] OTHER -> conn[c]]
      /\ asked' = [c \in Conns |-> IF c \in gone THEN <<>> ELSE asked[c]]
      /\ got' = [c \in Conns |-> IF c \in gone THEN <<>> ELSE got[c]]
      /\ UNCHANGED <<program, clients>>
  BY DEF Poll
<1>2. \A c \in Conns :
        /\ c \in gone => conn'[c] = Fresh
        /\ c \in stay => conn'[c] \in {polled[c], idle[c]}
        /\ c \notin Owned(m) => conn'[c] = conn[c]
  BY <1>1
<1>3. \A c \in Owned(m) : state[c] = "open"
  BY ManagersAssumption DEF HInv, Managed, Owned
<1> HIDE DEF stay, write, read
<1>4. ASSUME NEW c \in Conns
      PROVE  Orderly(program, polite(c), asked'[c], wire'[c], got'[c], state'[c], conn'[c])
  <2>1. CASE c \in gone
    <3>1. /\ asked'[c] = <<>> /\ wire'[c] = <<>> /\ got'[c] = <<>> /\ conn'[c] = Fresh
      BY <1>1, <1>2, <2>1
    <3> QED
      BY <3>1, OrderlyFresh
  <2>2. CASE c \notin gone
    <3>1. /\ asked'[c] = asked[c] /\ wire'[c] = wire[c] /\ got'[c] = got[c] /\ state'[c] = state[c]
      BY <1>1, <2>2
    <3>2. CASE c \in stay
      BY <1>2, <1>3, <3>1, <3>2 DEF stay
    <3>3. CASE c \notin stay
      <4>1. conn'[c] = conn[c]
        BY <1>2, <2>2, <3>3 DEF stay
      <4> QED
        BY <3>1, <4>1 DEF OInv
    <3> QED
      BY <3>2, <3>3
  <2> QED
    BY <2>1, <2>2
<1>5. \A c \in Conns : polite(c)' = polite(c)
  BY <1>1 DEF polite
<1>6. got' = [c \in Conns |-> got'[c]]
  BY <1>1
<1> QED
  BY <1>1, <1>4, <1>5, <1>6 DEF OInv

\* The head of the backlog is accepted, or another manager was faster.
LEMMA AcceptKeepsOrder ==
  ASSUME HInv, OInv, NEW m \in Managers, Accept(m) PROVE OInv'
<1>1. CASE backlog = <<>> /\ UNCHANGED <<state, backlog, owner, conn>>
  <2>1. UNCHANGED <<program, clients, asked, wire, got, state, conn>>
    BY <1>1 DEF Accept, client
  <2> QED
    BY <2>1 DEF OInv, polite
<1>2. CASE backlog # <<>>
  <2>1. PICK c \in Conns : c = backlog[1] /\ c = Head(backlog)
    <3>1. backlog \in Seq(Conns)
      BY DEF HInv, Ranges
    <3>2. Head(backlog) \in Conns /\ Head(backlog) = backlog[1]
      BY <1>2, <3>1, HeadTailProperties
    <3> QED
      BY <3>2
  <2>2. PICK memory \in IF program = "service" THEN BOOLEAN ELSE {TRUE} :
          conn' = [conn EXCEPT ![c] = [Fresh EXCEPT !.data = memory, !.close = ~memory]]
    BY <1>2, <2>1 DEF Accept
  <2>3. /\ state' = [state EXCEPT ![c] = "open"]
        /\ UNCHANGED <<program, clients, asked, wire, got>>
    BY <1>2, <2>1 DEF Accept, client
  <2>4. state[c] = "backlog"
    <3>1. 1 \in 1 .. Len(backlog)
      BY <1>2, EmptySeq, LenProperties DEF HInv, Ranges
    <3> QED
      BY <2>1, <3>1 DEF HInv, Managed
  <2> DEFINE k == [Fresh EXCEPT !.data = memory, !.close = ~memory]
  <2>5. Orderly(program, polite(c), asked[c], wire[c], got[c], "open", k)
    <3>1. memory \in BOOLEAN /\ (program # "service" => memory)
      BY <2>2
    <3>2. Orderly(program, polite(c), asked[c], wire[c], got[c], "backlog", conn[c])
      BY <2>4, Known
    <3> QED
      BY <3>1, <3>2, OrderlyAccepted
  <2>6. conn' = [conn EXCEPT ![c] = k]
    BY <2>2
  <2> HIDE DEF k
  <2>7. /\ conn'[c] = k /\ state'[c] = "open"
        /\ \A d \in Conns \ {c} : conn'[d] = conn[d] /\ state'[d] = state[d]
    BY <2>3, <2>6 DEF HInv, Ranges
  <2>8. got' = [d \in Conns |-> got'[d]]
    BY <2>3 DEF OInv
  <2> QED
    BY <2>3, <2>5, <2>7, <2>8, OneKeepsOrder
<1> QED
  BY <1>1, <1>2 DEF Accept

\* An event for one connection that has something to read or to write.
LEMMA EventKeepsOrder ==
  ASSUME HInv, OInv, NEW m \in Managers, NEW c \in Conns, Turn(m, c), NEW k, NEW w, NEW g,
         conn' = [conn EXCEPT ![c] = k], wire' = [wire EXCEPT ![c] = w],
         got' = [got EXCEPT ![c] = g], UNCHANGED <<client, state>>,
         Orderly(program, polite(c), asked[c], w, g, "open", k)
  PROVE  OInv'
<1>1. state[c] = "open"
  BY ManagersAssumption DEF HInv, Managed, Turn, Pending, Owned
<1>2. /\ conn'[c] = k /\ wire'[c] = w
      /\ \A d \in Conns \ {c} : conn'[d] = conn[d] /\ wire'[d] = wire[d]
  BY DEF HInv, Ranges
<1>3. got = [d \in Conns |-> got[d]]
  BY DEF OInv
<1>4. got'[c] = g /\ (\A d \in Conns \ {c} : got'[d] = got[d]) /\ got' = [d \in Conns |-> got'[d]]
  BY <1>3
<1> QED
  BY <1>1, <1>2, <1>4, OneKeepsOrder DEF client

\* A connection that has an event is open and known to the HTTP layer.
LEMMA EventKnown ==
  ASSUME HInv, OInv, NEW m \in Managers, NEW c \in Conns, Turn(m, c)
  PROVE  /\ Orderly(program, polite(c), asked[c], wire[c], got[c], "open", conn[c])
         /\ polite(c) \in BOOLEAN /\ conn[c].data
         /\ asked[c] \in Seq(Requests) /\ wire[c] \in Seq(Units)
         /\ DOMAIN conn[c] = Fields /\ ~conn[c].fault /\ (program = "service" => Counted(conn[c]))
         /\ got = [got EXCEPT ![c] = got[c]] /\ wire = [wire EXCEPT ![c] = wire[c]]
         /\ conn = [conn EXCEPT ![c] = conn[c]]
<1>1. state[c] = "open"
  BY ManagersAssumption DEF HInv, Managed, Turn, Pending, Owned
<1>2. got = [got EXCEPT ![c] = got[c]] /\ wire = [wire EXCEPT ![c] = wire[c]]
      /\ conn = [conn EXCEPT ![c] = conn[c]]
  BY DEF OInv, HInv, Ranges
<1> QED
  BY <1>1, <1>2, Known, EventSound

\* The service reads.
LEMMA ServiceReadKeepsOrder ==
  ASSUME HInv, OInv, program = "service", NEW m \in Managers, NEW c \in Conns, ServiceRead(m, c)
  PROVE  OInv'
<1>1. PICK n \in 1 .. Len(wire[c]) : Receive(c, n, ns_recv(Received(c, n), n))
  BY DEF ServiceRead
<1> DEFINE b == Received(c, n)
           k == ns_recv(b, n)
           w == After(wire[c], n)
<1>2. /\ Turn(m, c) /\ UNCHANGED <<client, state, got>>
      /\ conn' = [conn EXCEPT ![c] = k] /\ wire' = [wire EXCEPT ![c] = w]
      /\ ~Contains(Take(wire[c], n), FIN)
  BY <1>1 DEF ServiceRead, Receive
<1>3. /\ Orderly("service", polite(c), asked[c], wire[c], got[c], "open", conn[c])
      /\ polite(c) \in BOOLEAN /\ conn[c].data
      /\ asked[c] \in Seq(Requests) /\ wire[c] \in Seq(Units)
      /\ DOMAIN conn[c] = Fields /\ ~conn[c].fault /\ Counted(conn[c])
      /\ got = [got EXCEPT ![c] = got[c]]
  BY <1>2, EventKnown
<1>4. b = [conn[c] EXCEPT !.recv = @ \o Take(wire[c], n)]
  BY DEF Received
<1> HIDE DEF b
<1>5. Orderly("service", polite(c), asked[c], w, got[c], "open", k)
  BY <1>2, <1>3, <1>4, OrderlyReceives
<1> HIDE DEF k, w
<1> QED
  BY <1>2, <1>3, <1>5, EventKeepsOrder

\* It finds nothing more to read, or the end.
LEMMA ServiceReadEndsKeepsOrder ==
  ASSUME HInv, OInv, program = "service", NEW m \in Managers, NEW c \in Conns, ServiceReadEnds(m, c)
  PROVE  OInv'
<1>1. Turn(m, c) /\ UNCHANGED <<client, wire, got, state>>
  BY DEF ServiceReadEnds
<1>2. CASE wire[c] # <<>> /\ wire[c][1] = FIN /\ conn' = [conn EXCEPT ![c].close = TRUE]
  <2> DEFINE k == [conn[c] EXCEPT !.close = TRUE]
  <2>1. Orderly(program, polite(c), asked[c], wire[c], got[c], "open", k)
    BY <1>1, <1>2, EventKnown, OrderlyEnds
  <2>2. conn' = [conn EXCEPT ![c] = k]
    BY <1>2
  <2> HIDE DEF k
  <2>3. got' = [got EXCEPT ![c] = got[c]] /\ wire' = [wire EXCEPT ![c] = wire[c]]
    BY <1>1, EventKnown
  <2> QED
    BY <1>1, <2>1, <2>2, <2>3, EventKeepsOrder
<1>3. CASE UNCHANGED conn
  BY <1>1, <1>3 DEF OInv, client, polite
<1> QED
  BY <1>2, <1>3 DEF ServiceReadEnds

\* It writes.
LEMMA ServiceWriteKeepsOrder ==
  ASSUME HInv, OInv, program = "service", NEW m \in Managers, NEW c \in Conns,
         NEW n \in 1 .. Len(conn[c].send), Write(m, c, n, Sent(c, n))
  PROVE  OInv'
<1> DEFINE k == [conn[c] EXCEPT !.send = After(@, n)]
           g == got[c] \o Take(conn[c].send, n)
<1>1. /\ Turn(m, c) /\ UNCHANGED <<client, wire, state>>
      /\ conn' = [conn EXCEPT ![c] = k] /\ got' = [got EXCEPT ![c] = g]
  BY DEF Write, Sent
<1>2. Orderly("service", polite(c), asked[c], wire[c], g, "open", k)
  BY <1>1, EventKnown, OrderlyWrites
<1> HIDE DEF k, g
<1>3. wire' = [wire EXCEPT ![c] = wire[c]]
  BY <1>1, EventKnown
<1> QED
  BY <1>1, <1>2, <1>3, EventKeepsOrder

\* The RESTful server reads.
LEMMA RestReadKeepsOrder ==
  ASSUME HInv, OInv, There, Ending, program = "rest", NEW m \in Managers, NEW c \in Conns,
         RestRead(m, c)
  PROVE  OInv'
<1>1. Turn(m, c) /\ UNCHANGED <<client, got, state>>
  BY DEF RestRead
<1>2. got' = [got EXCEPT ![c] = got[c]]
  BY <1>1, EventKnown
<1>5. wire[c] # <<>> /\ ~conn[c].close
  BY DEF RestRead, There, Ending
<1>3. CASE wire[c][1] = FIN /\ conn' = [conn EXCEPT ![c].close = TRUE] /\ wire' = wire
  <2> DEFINE k == [conn[c] EXCEPT !.close = TRUE]
  <2>1. Orderly(program, polite(c), asked[c], wire[c], got[c], "open", k)
    BY <1>1, <1>3, <1>5, EventKnown, OrderlyEnds
  <2>2. conn' = [conn EXCEPT ![c] = k]
    BY <1>3
  <2> HIDE DEF k
  <2>3. wire' = [wire EXCEPT ![c] = wire[c]]
    BY <1>1, <1>3, EventKnown
  <2> QED
    BY <1>1, <1>2, <2>1, <2>2, <2>3, EventKeepsOrder
<1>4. ASSUME NEW n \in 1 .. Len(wire[c]), Receive(c, n, http_handler(Received(c, n), "recv"))
      PROVE  OInv'
  <2> DEFINE b == Received(c, n)
             k == http_handler(b, "recv")
             w == After(wire[c], n)
  <2>1. /\ conn' = [conn EXCEPT ![c] = k] /\ wire' = [wire EXCEPT ![c] = w]
        /\ ~Contains(Take(wire[c], n), FIN)
    BY <1>4 DEF Receive
  <2>2. b = [conn[c] EXCEPT !.recv = @ \o Take(wire[c], n)]
    BY DEF Received
  <2> HIDE DEF b
  <2>3. Orderly("rest", polite(c), asked[c], w, got[c], "open", k)
    BY <1>1, <1>5, <2>1, <2>2, EventKnown, OrderlyRestReceives
  <2> HIDE DEF k, w
  <2> QED
    BY <1>1, <1>2, <2>1, <2>3, EventKeepsOrder
<1> QED
  BY <1>3, <1>4 DEF RestRead

\* It writes.
LEMMA RestWriteKeepsOrder ==
  ASSUME HInv, OInv, program = "rest", NEW m \in Managers, NEW c \in Conns,
         NEW n \in 1 .. Len(conn[c].send), Write(m, c, n, http_handler(Sent(c, n), "send"))
  PROVE  OInv'
<1> DEFINE k == http_handler([conn[c] EXCEPT !.send = After(@, n)], "send")
           g == got[c] \o Take(conn[c].send, n)
<1>1. /\ Turn(m, c) /\ UNCHANGED <<client, wire, state>>
      /\ conn' = [conn EXCEPT ![c] = k] /\ got' = [got EXCEPT ![c] = g]
  BY DEF Write, Sent
<1>2. Orderly("rest", polite(c), asked[c], wire[c], g, "open", k)
  BY <1>1, EventKnown, OrderlyRestWrites
<1> HIDE DEF k, g
<1>3. wire' = [wire EXCEPT ![c] = wire[c]]
  BY <1>1, EventKnown
<1> QED
  BY <1>1, <1>2, <1>3, EventKeepsOrder

\* mg_mgr_poll of the service.
LEMMA ServicePollKeepsOrder ==
  ASSUME HInv, OInv, NEW m \in Managers, ServicePoll(m) PROVE OInv'
<1> DEFINE reaped == {c \in Owned(m) : conn[c].close \/ (conn[c].finish /\ conn[c].send = <<>>)}
           polled == [c \in Owned(m) |-> Expire(c)]
           gone == reaped \cup {c \in Owned(m) : polled[c].close}
<1>1. Poll(m, gone, polled, polled) /\ gone \in SUBSET Owned(m)
  BY DEF ServicePoll
<1>2. ASSUME NEW c \in Owned(m) \ gone
      PROVE  Orderly(program, polite(c), asked[c], wire[c], got[c], "open", polled[c])
  <2>1. c \in Conns /\ polled[c] = Expire(c) /\ ~conn[c].close /\ ~Expire(c).close
    BY DEF Owned
  <2>2. Sound(conn[c]) /\ conn[c].data
    BY <2>1 DEF HInv, Doomed
  <2>3. Sound(close_local_endpoint(conn[c]))
    BY <2>2, CloseLocal DEF Sound
  <2>4. CASE old[c]
    <3>1. Expire(c) = [close_local_endpoint(conn[c]) EXCEPT !.data = FALSE, !.close = TRUE]
      BY <2>2, <2>4 DEF Expire
    <3>2. Expire(c).close = TRUE
      BY <2>3, <3>1 DEF Sound, Fields
    <3> QED
      BY <2>1, <3>2
  <2>5. CASE ~old[c]
    <3>1. polled[c] = conn[c]
      BY <2>1, <2>5 DEF Expire
    <3>2. state[c] = "open"
      BY ManagersAssumption DEF HInv, Managed, Owned
    <3> QED
      BY <2>1, <3>1, <3>2, Known
  <2> QED
    BY <2>4, <2>5
<1> HIDE DEF gone, polled
<1> QED
  BY <1>1, <1>2, PollKeepsOrder

\* mg_mgr_poll of the RESTful server.
LEMMA RestPollKeepsOrder ==
  ASSUME HInv, OInv, program = "rest", NEW m \in Managers, RestPoll(m) PROVE OInv'
<1> DEFINE gone == {c \in Owned(m) : conn[c].close \/ (conn[c].finish /\ conn[c].send = <<>>)}
           idle == [c \in Owned(m) |-> http_handler(conn[c], "poll")]
<1>1. Poll(m, gone, conn, idle) /\ gone \in SUBSET Owned(m)
  BY DEF RestPoll
<1>2. ASSUME NEW c \in Owned(m) \ gone
      PROVE  /\ Orderly(program, polite(c), asked[c], wire[c], got[c], "open", conn[c])
             /\ Orderly(program, polite(c), asked[c], wire[c], got[c], "open", idle[c])
  <2>1. c \in Conns /\ idle[c] = http_handler(conn[c], "poll")
    BY DEF Owned
  <2>2. state[c] = "open"
    BY ManagersAssumption DEF HInv, Managed, Owned
  <2>3. /\ Orderly("rest", polite(c), asked[c], wire[c], got[c], "open", conn[c])
        /\ polite(c) \in BOOLEAN /\ DOMAIN conn[c] = Fields
    BY <2>1, <2>2, Known
  <2>4. Orderly("rest", polite(c), asked[c], wire[c], got[c], "open", http_handler(conn[c], "poll"))
    BY <2>3, OrderlyRestPolls
  <2> QED
    BY <2>1, <2>3, <2>4
<1> HIDE DEF gone, idle
<1> QED
  BY <1>1, <1>2, PollKeepsOrder

\* Nobody takes from a connection that was found readable but who reads it.
LEMMA StepThere == HInv /\ There /\ [Next]_vars => There'
<1> SUFFICES ASSUME HInv, There, [Next]_vars PROVE There'
  OBVIOUS
<1>1. ASSUME UNCHANGED <<wire, ready>> PROVE There'
  BY <1>1 DEF There
<1>2. ASSUME NEW c \in Conns, NEW w, wire' = [wire EXCEPT ![c] = w], UNCHANGED ready,
             wire[c] # <<>> => w # <<>>
      PROVE  There'
  BY <1>2 DEF There, HInv, Ranges
<1>3. ASSUME NEW c \in Conns, ready' = [ready EXCEPT ![c] = "no"] \/ ready' = [ready EXCEPT ![c] = "more"],
             \A d \in Conns \ {c} : wire'[d] = wire[d]
      PROVE  There'
  BY <1>3 DEF There, HInv, Ranges
<1>4. ASSUME NEW c \in Conns, Client(c) PROVE There'
  <2>1. CASE Connect(c)
    BY <1>1, <2>1 DEF Connect
  <2>2. ASSUME NEW kind \in clients[c].kinds, Send(c, kind) PROVE There'
    <3> DEFINE r == Request(kind, Len(asked[c]) + 1)
               w == wire[c] \o Bytes(r)
    <3>1. wire' = [wire EXCEPT ![c] = w] /\ UNCHANGED ready
      BY <2>2 DEF Send
    <3>2. asked[c] \in Seq(Requests) /\ wire[c] \in Seq(Units) /\ clients[c].kinds \subseteq Kinds
      BY CrowdsAssumption DEF HInv, Ranges, Conns
    <3>3. r \in Requests
      BY <2>2, <3>2, LenProperties DEF Request, Requests
    <3> HIDE DEF r
    <3>4. wire[c] \in Seq(Units) /\ Bytes(r) \in Seq(Units) /\ Len(Bytes(r)) > 0
      <4>1. Bytes(r) \in Seq(Units) /\ Len(Bytes(r)) = 2 + Len(Behind(r)) /\ Len(Behind(r)) \in Nat
        BY <3>3, BytesAre, LenProperties
      <4> QED
        BY <3>2, <4>1
    <3>5. w # <<>>
      BY <3>4, NotEmptied
    <3> QED
      BY <1>2, <3>1, <3>5
  <2>3. ASSUME NEW n \in 0 .. Len(wire[c]), Shut(c, n) PROVE There'
    <3> DEFINE t == Take(wire[c], Len(wire[c]) - n)
    <3>1. wire' = [wire EXCEPT ![c] = Append(t, FIN)] /\ UNCHANGED ready
      BY <2>3 DEF Shut
    <3>2. wire[c] \in Seq(Units) /\ Len(wire[c]) - n \in 0 .. Len(wire[c])
      BY LenProperties DEF HInv, Ranges
    <3>3. t \in Seq(Units)
      BY <3>2, Parted
    <3> HIDE DEF t
    <3>4. Append(t, FIN) # <<>>
      BY <3>3, LenProperties, EmptySeq, AppendProperties DEF Units
    <3> QED
      BY <1>2, <3>1, <3>4
  <2> QED
    BY <1>4, <2>1, <2>2, <2>3 DEF Client
<1>5. ASSUME NEW c \in Conns, Age(c) PROVE There'
  BY <1>1, <1>5 DEF Age
<1>6. ASSUME NEW m \in Managers, NEW gone \in SUBSET Owned(m), NEW polled, NEW idle,
             Poll(m, gone, polled, idle)
      PROVE  There'
  <2> DEFINE read == {c \in Owned(m) \ gone : wire[c] # <<>>}
  <2>1. /\ Pending(m) = {}
        /\ wire' = [c \in Conns |-> IF c \in gone THEN <<>> ELSE wire[c]]
        /\ ready' = [c \in Conns |-> IF c \in read THEN "read" ELSE ready[c]]
    BY <1>6 DEF Poll
  <2>2. \A c \in gone : ready[c] = "no"
    BY <2>1 DEF Pending, HInv, Ranges, Owned
  <2> QED
    BY <2>1, <2>2 DEF There
<1>7. ASSUME NEW m \in Managers, Accept(m) PROVE There'
  BY <1>1, <1>7 DEF Accept
<1>8. ASSUME NEW m \in Managers, NEW c \in Conns, NEW n, NEW k, Write(m, c, n, k) PROVE There'
  BY <1>1, <1>8 DEF Write
<1>9. ASSUME NEW m \in Managers, NEW c \in Conns,
             ServiceRead(m, c) \/ ServiceReadEnds(m, c) \/ RestRead(m, c)
      PROVE  There'
  <2>1. \A d \in Conns \ {c} : wire'[d] = wire[d]
    BY <1>9 DEF ServiceRead, ServiceReadEnds, RestRead, Receive, HInv, Ranges
  <2>2. ready' = [ready EXCEPT ![c] = "no"] \/ ready' = [ready EXCEPT ![c] = "more"]
    BY <1>9 DEF ServiceRead, ServiceReadEnds, RestRead
  <2> QED
    BY <1>3, <2>1, <2>2
<1>10. ASSUME NEW m \in Polling, Step(m) PROVE There'
  <2>1. m \in Managers
    BY OnlyAssumption DEF Polling
  <2>2. CASE ServiceStep(m)
    <3>1. ServicePoll(m) => \E gone \in SUBSET Owned(m) : \E polled, idle : Poll(m, gone, polled, idle)
      BY DEF ServicePoll
    <3> QED
      BY <1>6, <1>7, <1>8, <1>9, <2>1, <2>2, <3>1 DEF ServiceStep
  <2>3. CASE RestStep(m)
    <3>1. RestPoll(m) => \E gone \in SUBSET Owned(m) : \E polled, idle : Poll(m, gone, polled, idle)
      BY DEF RestPoll
    <3> QED
      BY <1>6, <1>7, <1>8, <1>9, <2>1, <2>3, <3>1 DEF RestStep
  <2> QED
    BY <1>10, <2>2, <2>3 DEF Step
<1>11. CASE UNCHANGED vars
  BY <1>1, <1>11 DEF vars
<1> QED
  BY <1>4, <1>5, <1>10, <1>11 DEF Next

\* Going on with a file closes nothing.
LEMMA FileOpen ==
  ASSUME NEW k, DOMAIN k = Fields, NEW ev, ev # "recv"
  PROVE  http_handler(k, ev).close = k.close
BY DEF http_handler, transfer_file_data, Fields

\* What is to be closed at once has just been read from and loses the write that was due;
\* the next poll closes it.
LEMMA StepEnding == HInv /\ Ending /\ [Next]_vars => Ending'
<1> SUFFICES ASSUME HInv, Ending, [Next]_vars PROVE Ending'
  OBVIOUS
<1>1. ASSUME UNCHANGED <<program, conn, ready, writable>> PROVE Ending'
  BY <1>1 DEF Ending
<1>2. ASSUME NEW c \in Conns, NEW k, conn' = [conn EXCEPT ![c] = k], UNCHANGED program,
             k.close => ready'[c] = "no" /\ ~writable'[c],
             \A d \in Conns \ {c} : ready'[d] = ready[d] /\ writable'[d] = writable[d]
      PROVE  Ending'
  <2>1. conn'[c] = k /\ \A d \in Conns \ {c} : conn'[d] = conn[d]
    BY <1>2 DEF HInv, Ranges
  <2> QED
    BY <1>2, <2>1 DEF Ending
<1>3. ASSUME NEW c \in Conns, Client(c) \/ Age(c) PROVE Ending'
  BY <1>1, <1>3 DEF Client, Connect, Send, Shut, Age, client
<1>4. \A c \in Conns : DOMAIN conn[c] = Fields
  BY DEF HInv, Sound
<1>5. ASSUME NEW m \in Managers, program # "rest", ServiceStep(m) PROVE Ending'
  <2>1. UNCHANGED program
    BY <1>5 DEF ServiceStep, ServicePoll, Poll, Accept, ServiceRead, ServiceReadEnds, Write, client
  <2> QED
    BY <1>5, <2>1 DEF Ending
<1>6. ASSUME NEW m \in Managers, program = "rest", Accept(m) PROVE Ending'
  <2>1. UNCHANGED <<program, ready, writable>>
    BY <1>6 DEF Accept, client
  <2>2. CASE UNCHANGED conn
    BY <1>1, <2>1, <2>2
  <2>3. CASE ~(UNCHANGED conn)
    <3>1. backlog # <<>>
      BY <1>6, <2>3 DEF Accept
    <3>2. Head(backlog) \in Conns
      BY <3>1, HeadTailProperties DEF HInv, Ranges
    <3> DEFINE k == [Fresh EXCEPT !.data = TRUE, !.close = FALSE]
    <3>3. conn' = [conn EXCEPT ![Head(backlog)] = k]
      BY <1>6, <2>3 DEF Accept
    <3>4. ~k.close
      BY DEF Fresh
    <3> HIDE DEF k
    <3> QED
      BY <1>2, <2>1, <3>2, <3>3, <3>4
  <2> QED
    BY <2>2, <2>3
<1>7. ASSUME NEW m \in Managers, program = "rest", RestPoll(m) PROVE Ending'
  <2> DEFINE gone == {c \in Owned(m) : conn[c].close \/ (conn[c].finish /\ conn[c].send = <<>>)}
             idle == [c \in Owned(m) |-> http_handler(conn[c], "poll")]
             stay == Owned(m) \ gone
             write == {c \in stay : conn[c].send # <<>>}
             read == {c \in stay : wire[c] # <<>>}
  <2>1. /\ conn' = [c \in Conns |->
                     CASE c \in gone -> Fresh
                       [] c \in stay \ (read \cup write) -> idle[c]
                       [] c \in read \cup write -> conn[c]
                       [] OTHER -> conn[c]]
        /\ writable' = [c \in Conns |-> writable[c] \/ c \in write]
        /\ ready' = [c \in Conns |-> IF c \in read THEN "read" ELSE ready[c]]
        /\ UNCHANGED program
    BY <1>7 DEF RestPoll, Poll
  <2>2. \A c \in stay : ~conn[c].close /\ ~idle[c].close
    <3>1. ASSUME NEW c \in stay PROVE ~conn[c].close /\ ~idle[c].close
      <4>1. c \in Conns /\ ~conn[c].close /\ idle[c] = http_handler(conn[c], "poll")
        BY DEF Owned
      <4> QED
        BY <1>4, <4>1, FileOpen
    <3> QED
      BY <3>1
  <2>3. ~Fresh.close
    BY DEF Fresh
  <2>4. stay \in SUBSET Conns /\ gone \in SUBSET Conns /\ read \in SUBSET stay /\ write \in SUBSET stay
    BY DEF Owned
  <2> HIDE DEF gone, idle, stay, read, write
  <2>5. ASSUME NEW c \in Conns, conn'[c].close PROVE ready'[c] = "no" /\ ~writable'[c]
    <3>1. c \notin gone /\ c \notin stay
      BY <2>1, <2>2, <2>3, <2>4, <2>5
    <3>2. conn'[c] = conn[c] /\ ready'[c] = ready[c] /\ writable'[c] = writable[c]
      BY <2>1, <2>4, <3>1 DEF HInv, Ranges
    <3> QED
      BY <1>7, <2>5, <3>2 DEF Ending
  <2> QED
    BY <2>5 DEF Ending
<1>8. ASSUME NEW m \in Managers, NEW c \in Conns, RestRead(m, c) PROVE Ending'
  <2>1. ready' = [ready EXCEPT ![c] = "no"] /\ UNCHANGED program
    BY <1>8 DEF RestRead, client
  <2>2. ready'[c] = "no" /\ \A d \in Conns \ {c} : ready'[d] = ready[d]
    BY <2>1 DEF HInv, Ranges
  <2>3. CASE conn' = [conn EXCEPT ![c].close = TRUE] /\ writable' = [writable EXCEPT ![c] = FALSE]
    <3> DEFINE k == [conn[c] EXCEPT !.close = TRUE]
    <3>1. conn' = [conn EXCEPT ![c] = k]
      BY <2>3
    <3> HIDE DEF k
    <3>2. ~writable'[c] /\ \A d \in Conns \ {c} : writable'[d] = writable[d]
      BY <2>3 DEF HInv, Ranges
    <3> QED
      BY <1>2, <2>1, <2>2, <3>1, <3>2
  <2>4. ASSUME NEW n, NEW k, Receive(c, n, k), writable' = [writable EXCEPT ![c] = @ /\ ~k.close]
        PROVE  Ending'
    <3>1. conn' = [conn EXCEPT ![c] = k]
      BY <2>4 DEF Receive
    <3>2. writable'[c] = (writable[c] /\ ~k.close) /\ \A d \in Conns \ {c} : writable'[d] = writable[d]
      BY <2>4 DEF HInv, Ranges
    <3> QED
      BY <1>2, <2>1, <2>2, <3>1, <3>2
  <2> QED
    BY <1>8, <2>3, <2>4 DEF RestRead
<1>9. ASSUME NEW m \in Managers, NEW c \in Conns, NEW n, Write(m, c, n, http_handler(Sent(c, n), "send"))
      PROVE  Ending'
  <2> DEFINE k == http_handler(Sent(c, n), "send")
  <2>1. /\ conn' = [conn EXCEPT ![c] = k] /\ writable' = [writable EXCEPT ![c] = FALSE]
        /\ UNCHANGED <<program, ready>> /\ ready[c] = "no"
    BY <1>9 DEF Write, client
  <2> HIDE DEF k
  <2>2. ~writable'[c] /\ \A d \in Conns \ {c} : writable'[d] = writable[d]
    BY <2>1 DEF HInv, Ranges
  <2> QED
    BY <1>2, <2>1, <2>2
<1>10. ASSUME NEW m \in Polling, Step(m) PROVE Ending'
  <2>1. m \in Managers
    BY OnlyAssumption DEF Polling
  <2>2. CASE program = "service"
    BY <1>5, <1>10, <2>1, <2>2 DEF Step
  <2>3. CASE program # "service"
    <3>1. RestStep(m) /\ program = "rest"
      BY <1>10, <2>3 DEF Step, HInv, Ranges
    <3> QED
      BY <1>6, <1>7, <1>8, <1>9, <2>1, <3>1 DEF RestStep
  <2> QED
    BY <2>2, <2>3
<1>11. CASE UNCHANGED vars
  BY <1>1, <1>11 DEF vars
<1> QED
  BY <1>3, <1>10, <1>11 DEF Next

-----------------------------------------------------------------------------
(* The theorems.                                                           *)

\* Nobody has connected yet.
LEMMA InitOrder == Init => OInv /\ There /\ Ending
<1> SUFFICES ASSUME Init PROVE OInv /\ There /\ Ending
  OBVIOUS
<1>1. \A c \in Conns : /\ asked[c] = <<>> /\ wire[c] = <<>> /\ got[c] = <<>> /\ conn[c] = Fresh
                       /\ ready[c] = "no" /\ ~writable[c]
  BY DEF Init, InitConnections
<1>2. got = [c \in Conns |-> got[c]]
  BY DEF Init, InitConnections
<1>3. ASSUME NEW c \in Conns
      PROVE  Orderly(program, polite(c), asked[c], wire[c], got[c], state[c], conn[c])
  BY <1>1, OrderlyFresh
<1> QED
  BY <1>1, <1>2, <1>3 DEF OInv, There, Ending

\* Every step keeps the order.
LEMMA StepOrder == HInv /\ OInv /\ There /\ Ending /\ [Next]_vars => OInv'
<1> SUFFICES ASSUME HInv, OInv, There, Ending, [Next]_vars PROVE OInv'
  OBVIOUS
<1>1. CASE UNCHANGED vars
  BY <1>1 DEF vars, OInv, polite
<1>2. ASSUME NEW c \in Conns, Client(c) \/ Age(c) PROVE OInv'
  BY <1>2, ClientKeepsOrder, AgeKeepsOrder
<1>3. ASSUME NEW m \in Polling, Step(m) PROVE OInv'
  <2>1. m \in Managers
    BY OnlyAssumption DEF Polling
  <2>2. CASE program = "service"
    <3>1. ServiceStep(m)
      BY <1>3, <2>2 DEF Step
    <3> QED
      BY <2>1, <2>2, <3>1, ServicePollKeepsOrder, AcceptKeepsOrder, ServiceReadKeepsOrder,
         ServiceReadEndsKeepsOrder, ServiceWriteKeepsOrder DEF ServiceStep
  <2>3. CASE program # "service"
    <3>1. RestStep(m) /\ program = "rest"
      BY <1>3, <2>3 DEF Step, HInv, Ranges
    <3> QED
      BY <2>1, <3>1, RestPollKeepsOrder, AcceptKeepsOrder, RestReadKeepsOrder,
         RestWriteKeepsOrder DEF RestStep
  <2> QED
    BY <2>2, <2>3
<1> QED
  BY <1>1, <1>2, <1>3 DEF Next

\* What each connection has is in order, for any number of connections and managers,
\* any sizes of the buffers and any crowd.
THEOREM OrderInvariance == Spec => [](HInv /\ OInv /\ There /\ Ending)
<1>1. Init => HInv /\ OInv /\ There /\ Ending
  BY InitHInv, InitOrder
<1>2. HInv /\ OInv /\ There /\ Ending /\ [Next]_vars => (HInv /\ OInv /\ There /\ Ending)'
  BY StepHInv, StepOrder, StepThere, StepEnding
<1> QED
  BY <1>1, <1>2, PTL DEF Spec

\* What the client of a connection has and is to have, from what is known of it.
LEMMA PoliteOutput ==
  ASSUME HInv, OInv, NEW c \in Conns, polite(c) PROVE IsPrefix(Output(c), Owed(asked[c]))
<1> DEFINE k == conn[c]
           a == asked[c]
           g == got[c]
           w == wire[c]
<1>1. g \in Seq(AnswerParts) /\ Served(program, a, w, g, k) /\ a \in Seq(Requests)
      /\ (program = "service" => Coherent(k, w, g))
  BY Known DEF Orderly
<1>2. Output(c) = g \o k.send
  BY DEF Output
<1> HIDE DEF k, a, g, w
<1>3. ASSUME k.send \in Seq(AnswerParts), NEW t \in Seq(AnswerParts), (g \o k.send) \o t = Owed(a)
      PROVE  IsPrefix(g \o k.send, Owed(a))
  <2>1. g \o k.send \in Seq(AnswerParts)
    BY <1>1, <1>3, ConcatProperties
  <2> QED
    BY <1>3, <2>1, PrefixOf
<1>4. <<>> \in Seq(AnswerParts)
  BY EmptySeq
<1>5. a # <<>> => Answer(Last(a)) \in Seq(AnswerParts)
  BY <1>1, LastOne, Answering
<1> SUFFICES IsPrefix(g \o k.send, Owed(a))
  BY <1>2 DEF a
<1>6. CASE program = "service"
  <2>1. ServiceOK(k, a, w, g) /\ k.send \in Seq(AnswerParts)
    BY <1>1, <1>6 DEF Served, Coherent
  <2>2. CASE ServiceWaits(k, a, w, g)
    BY <1>3, <1>5, <2>1, <2>2 DEF ServiceWaits
  <2>3. CASE ServiceDone(k, a, w, g)
    <3>1. g \o k.send \in Seq(AnswerParts)
      BY <1>1, <2>1, ConcatProperties
    <3>2. (g \o k.send) \o <<>> = Owed(a)
      BY <2>3, <3>1, ConcatEmptySeq DEF ServiceDone
    <3> QED
      BY <1>3, <1>4, <2>1, <3>2
  <2> QED
    BY <2>1, <2>2, <2>3 DEF ServiceOK
<1>7. CASE program # "service"
  <2>1. RestOK(k, a, w, g)
    BY <1>1, <1>7 DEF Served
  <2>2. CASE RestWaits(k, a, w, g)
    <3>1. k.send = <<>> /\ a # <<>> /\ g \o Answer(Last(a)) = Owed(a)
      BY <2>2 DEF RestWaits
    <3>2. g \o k.send = g
      BY <1>1, <3>1, ConcatEmptySeq
    <3> QED
      BY <1>3, <1>4, <1>5, <3>1, <3>2
  <2>3. CASE RestDone(k, a, w, g)
    <3>1. k.send \in Seq(AnswerParts) /\ Left(k) \in Seq(AnswerParts)
          /\ g \o (k.send \o Left(k)) = Owed(a)
      BY <2>3, LeftParts DEF RestDone
    <3>2. (g \o k.send) \o Left(k) = Owed(a)
      BY <1>1, <3>1, ThreeParts
    <3> QED
      BY <1>3, <3>1, <3>2
  <2> QED
    BY <2>1, <2>2, <2>3 DEF RestOK
<1> QED
  BY <1>6, <1>7

\* A polite client gets the answers to its requests, in their order and each about all
\* of its request's text, and nothing else: the answers are owed one after the other,
\* and a request is on its way, wholly or in part, only while its answer is owed.  To
\* any client of the service each beginning of an answer is followed by its end.
THEOREM AnswersComeInOrder == Spec => []AnswersInOrder
<1>1. HInv /\ OInv => AnswersInOrder
  <2> SUFFICES ASSUME HInv, OInv, NEW c \in Conns
               PROVE  /\ polite(c) => IsPrefix(Output(c), Owed(asked[c]))
                      /\ program = "service" => \A i \in DOMAIN Output(c) :
                           Output(c)[i].part = "start" /\ i < Len(Output(c)) =>
                             Output(c)[i + 1] = [Output(c)[i] EXCEPT !.part = "end"]
    BY DEF AnswersInOrder, Owed
  <2>1. ASSUME program = "service"
        PROVE  \A i \in DOMAIN Output(c) :
                 Output(c)[i].part = "start" /\ i < Len(Output(c)) =>
                   Output(c)[i + 1] = [Output(c)[i] EXCEPT !.part = "end"]
    <3> DEFINE o == Output(c)
    <3>1. Coherent(conn[c], wire[c], got[c])
      BY <2>1, Known DEF Orderly
    <3>2. o \in Seq(AnswerParts) /\ Paired(o)
      BY <3>1, ConcatProperties DEF Coherent, Output
    <3> HIDE DEF o
    <3>3. DOMAIN o = 1 .. Len(o)
      BY <3>2, LenProperties
    <3>4. \A i \in DOMAIN o : o[i].part = "start" /\ i < Len(o) =>
                                o[i + 1] = [o[i] EXCEPT !.part = "end"]
      BY <3>2, <3>3 DEF Paired
    <3> QED
      BY <3>4 DEF o
  <2> QED
    BY <2>1, PoliteOutput
<1> QED
  BY <1>1, OrderInvariance, PTL

\* A connection that is to be closed and is known to the HTTP layer has got all, or is
\* dismissed.
LEMMA ClosedHasAll ==
  ASSUME HInv, OInv, NEW c \in Conns, polite(c), conn[c].data,
         conn[c].close \/ (conn[c].finish /\ conn[c].send = <<>>)
  PROVE  Done(c) \/ Dismissed(c)
<1> DEFINE k == conn[c]
           a == asked[c]
           g == got[c]
           w == wire[c]
<1>1. g \in Seq(AnswerParts) /\ Served(program, a, w, g, k) /\ a \in Seq(Requests) /\ Numbered(a)
  BY Known DEF Orderly
<1>5. program \in {"service", "rest"}
  BY Known
<1> HIDE DEF k, a, g, w
<1>2. \/ g = Owed(a)
      \/ /\ program = "rest" /\ a # <<>> /\ g \o Answer(Last(a)) = Owed(a)
         /\ Last(a).kind.head = "long" \/ Listed(a, Len(a) - 1)
  <2>1. CASE program = "service" /\ k.close
    BY <1>1, <2>1 DEF Served, ServiceOK, k
  <2>2. CASE program = "service" /\ k.finish /\ k.send = <<>>
    <3>1. g \o k.send = Owed(a)
      BY <1>1, <2>2 DEF Served, ServiceOK, ServiceWaits, ServiceDone
    <3>2. g \o <<>> = g
      BY <1>1, ConcatEmptySeq
    <3> QED
      BY <2>2, <3>1, <3>2
  <2>3. CASE program = "rest" /\ k.close
    BY <1>1, <2>3 DEF Served, RestOK, RestWaits
  <2>4. CASE program = "rest" /\ k.finish /\ k.send = <<>>
    <3>1. CASE RestWaits(k, a, w, g)
      BY <2>4, <3>1 DEF RestWaits
    <3>2. CASE RestDone(k, a, w, g)
      <4>1. g \o (k.send \o Left(k)) = Owed(a) /\ k.send = <<>> /\ Left(k) = <<>>
        BY <2>4, <3>2 DEF RestDone, Left
      <4>2. <<>> \o <<>> = <<>> /\ g \o <<>> = g
        BY <1>1, EmptySeq, ConcatEmptySeq
      <4> QED
        BY <4>1, <4>2
    <3> QED
      BY <1>1, <2>4, <3>1, <3>2 DEF Served, RestOK
  <2> QED
    BY <1>5, <2>1, <2>2, <2>3, <2>4 DEF k
<1>3. CASE g = Owed(a)
  <2>1. \A n \in DOMAIN a : Cardinality({i \in DOMAIN g : g[i].n = n}) = Len(Answer(a[n]))
    BY <1>1, <1>3, AllAnswersCome
  <2> QED
    BY <2>1 DEF Done, Answered, a, g
<1>4. CASE /\ program = "rest" /\ a # <<>> /\ g \o Answer(Last(a)) = Owed(a)
           /\ Last(a).kind.head = "long" \/ Listed(a, Len(a) - 1)
  <2>1. \A i \in DOMAIN g : g[i].n # Len(a)
    BY <1>1, <1>4, NoneOfLast
  <2>2. Last(a) = a[Len(a)] /\ Len(a) \in Nat /\ DOMAIN a = 1 .. Len(a)
    BY <1>1, <1>4, LastOne, LenProperties
  <2>3. Listed(a, Len(a) - 1) => \E n \in 1 .. Len(a) - 1 : a[n].kind.page = "listing"
    BY <2>2 DEF Listed
  <2> QED
    BY <1>4, <2>1, <2>2, <2>3 DEF Dismissed, a, g
<1> QED
  BY <1>2, <1>3, <1>4

\* A server closes the connection of a polite client when the client has all its answers
\* or was idle for too long, or when the RESTful server dismisses it, which never cuts an
\* answer: it is to close at once only after the end of the input, which comes when all
\* is received, or for a long head that came in pieces, and to close when all is sent only
\* after the answer to the last request of the service, or to a listing.
THEOREM NoEarlyClose == Spec => ClosedWhenDone
<1> DEFINE Early(c) == state[c] = "open" /\ state'[c] = "closed" /\ polite(c) /\ conn[c].data
                         => Done(c) \/ old[c] \/ Dismissed(c)
<1>1. ASSUME HInv, OInv, [Next]_vars PROVE [\A c \in Conns : Early(c)]_vars
  <2>1. ASSUME UNCHANGED state PROVE \A c \in Conns : Early(c)
    BY <2>1
  <2>2. ASSUME NEW m \in Managers, NEW gone, NEW polled, NEW idle, Poll(m, gone, polled, idle),
               \A c \in gone \cap Conns :
                 polite(c) /\ conn[c].data => Done(c) \/ old[c] \/ Dismissed(c)
        PROVE  \A c \in Conns : Early(c)
    <3>1. state' = [c \in Conns |-> IF c \in gone THEN "closed" ELSE state[c]]
      BY <2>2 DEF Poll
    <3> QED
      BY <2>2, <3>1
  <2>3. ASSUME NEW c \in Conns, Client(c) \/ Age(c) PROVE \A d \in Conns : Early(d)
    <3>1. CASE Connect(c)
      <4>1. state' = [state EXCEPT ![c] = "backlog"]
        BY <3>1 DEF Connect
      <4> QED
        BY <4>1 DEF HInv, Ranges
    <3>2. CASE ~Connect(c)
      BY <2>1, <2>3, <3>2 DEF Client, Send, Shut, Age
    <3> QED
      BY <3>1, <3>2
  <2>4. ASSUME NEW m \in Managers, Accept(m) PROVE \A c \in Conns : Early(c)
    <3>1. UNCHANGED state \/ state' = [state EXCEPT ![Head(backlog)] = "open"]
      BY <2>4 DEF Accept
    <3>2. CASE UNCHANGED state
      BY <2>1, <3>2
    <3>3. CASE state' = [state EXCEPT ![Head(backlog)] = "open"]
      <4>1. \A c \in Conns : state'[c] = state[c] \/ state'[c] = "open"
        BY <1>1, <3>3 DEF HInv, Ranges
      <4> QED
        BY <4>1
    <3> QED
      BY <3>1, <3>2, <3>3
  <2>5. ASSUME NEW m \in Managers, program = "service", ServiceStep(m) PROVE \A c \in Conns : Early(c)
    <3>1. CASE ServicePoll(m)
      <4> DEFINE reaped == {c \in Owned(m) : conn[c].close \/ (conn[c].finish /\ conn[c].send = <<>>)}
                 polled == [c \in Owned(m) |-> Expire(c)]
                 gone == reaped \cup {c \in Owned(m) : polled[c].close}
      <4>1. Poll(m, gone, polled, polled)
        BY <3>1 DEF ServicePoll
      <4>2. ASSUME NEW c \in gone \cap Conns, polite(c), conn[c].data
            PROVE  Done(c) \/ old[c] \/ Dismissed(c)
        <5>1. c \in Conns
          OBVIOUS
        <5>2. conn[c].close \/ (conn[c].finish /\ conn[c].send = <<>>) \/ Expire(c).close
          OBVIOUS
        <5>3. Expire(c).close => old[c] \/ conn[c].close
          BY DEF Expire
        <5> QED
          BY <1>1, <2>5, <4>2, <5>1, <5>2, <5>3, ClosedHasAll
      <4> HIDE DEF gone, polled
      <4> QED
        BY <2>2, <4>1, <4>2
    <3>2. CASE ~ServicePoll(m) /\ ~Accept(m)
      BY <2>1, <2>5, <3>2 DEF ServiceStep, ServiceRead, ServiceReadEnds, Write
    <3> QED
      BY <2>4, <3>1, <3>2
  <2>6. ASSUME NEW m \in Managers, program # "service", RestStep(m) PROVE \A c \in Conns : Early(c)
    <3>1. CASE RestPoll(m)
      <4> DEFINE gone == {c \in Owned(m) : conn[c].close \/ (conn[c].finish /\ conn[c].send = <<>>)}
                 idle == [c \in Owned(m) |-> http_handler(conn[c], "poll")]
      <4>1. Poll(m, gone, conn, idle)
        BY <3>1 DEF RestPoll
      <4>2. ASSUME NEW c \in gone \cap Conns, polite(c), conn[c].data
            PROVE  Done(c) \/ old[c] \/ Dismissed(c)
        <5>1. conn[c].close \/ (conn[c].finish /\ conn[c].send = <<>>)
          OBVIOUS
        <5> QED
          BY <1>1, <4>2, <5>1, ClosedHasAll
      <4> HIDE DEF gone, idle
      <4> QED
        BY <2>2, <4>1, <4>2
    <3>2. CASE ~RestPoll(m) /\ ~Accept(m)
      BY <2>1, <2>6, <3>2 DEF RestStep, RestRead, Write
    <3> QED
      BY <2>4, <3>1, <3>2
  <2>7. ASSUME NEW m \in Polling, Step(m) PROVE \A c \in Conns : Early(c)
    <3>1. m \in Managers
      BY OnlyAssumption DEF Polling
    <3> QED
      BY <2>5, <2>6, <2>7, <3>1 DEF Step
  <2>8. CASE UNCHANGED vars
    BY <2>8
  <2> QED
    BY <1>1, <2>3, <2>7, <2>8 DEF Next
<1> QED
  BY <1>1, OrderInvariance, PTL DEF Spec, ClosedWhenDone
=============================================================================
