--------------------------- MODULE MCHttpServers ---------------------------
(* Instance of HttpServers for TLC: two polite clients, or one that is not. *)
EXTENDS HttpServers, TLC

Kind(server, body, length, keep, page) ==
  [server |-> server, head |-> "good", body |-> body, length |-> length, keep |-> keep,
   page |-> page]

\* For the service: a text in the query string, and in the body of the last request.
Query == Kind("service", 0, "given", TRUE, "rating")
Final == Kind("service", 1, "given", FALSE, "rating")
\* A text in a body, with and without its length.
Form == Kind("service", 1, "given", TRUE, "rating")
Vague == Kind("service", 1, "none", TRUE, "rating")
\* For the RESTful server also a text in chunks, a page that is not answered and
\* a file.
Sum == Kind("rest", 1, "given", TRUE, "rating")
Endless == Kind("rest", 1, "none", TRUE, "rating")
Pieces == Kind("rest", 2, "chunked", TRUE, "rating")
Page == Kind("rest", 0, "given", TRUE, "print")
File == Kind("rest", 0, "given", TRUE, "file")
\* A page after which it closes, a long head, and bad ones.
Listing == Kind("rest", 0, "given", TRUE, "listing")
Long == [Kind("rest", 0, "given", TRUE, "rating") EXCEPT !.head = "long"]
Control == [Long EXCEPT !.head = "control"]
Line == [Long EXCEPT !.head = "line"]

Who(manners, requests, kinds) ==
  [polite |-> manners, requests |-> requests, kinds |-> kinds]
TheCrowds ==
  {<<Who(TRUE, 1, {Final, Sum, File}), Who(TRUE, 1, {Final, File})>>,
   <<Who(TRUE, 2, {Query, Final, Sum, Pieces, File, Listing, Long}), Who(TRUE, 0, {})>>,
   <<Who(FALSE, 2, {Form, Vague, Sum, Endless, Pieces, Page, File, Listing, Control, Line}),
     Who(TRUE, 0, {})>>}
=============================================================================
