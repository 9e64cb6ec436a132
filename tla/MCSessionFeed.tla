----------------------------- MODULE MCSessionFeed ----------------------------
(* Casters for SessionFeed: for each kind of answer, the words of its       *)
(* header and the bytes of its body                                         *)
EXTENDS SessionFeed

Icy == [header |-> {"ICY 200", "LF"}, maxHeader |-> 3,
        body |-> {"identity", "w", ":", "bin", "LF"}, maxBody |-> 6]
IcyCR == [Icy EXCEPT !.body = @ \cup {"CR"}, !.maxBody = 4]
Chunked == [header |-> {"HTTP 200", "chunked", "LF"}, maxHeader |-> 5,
            body |-> {"0", "1", "LF"}, maxBody |-> 8]
ChunkedExt == [Chunked EXCEPT !.body = @ \cup {";ext", "CR"}, !.maxBody = 6]
V1 == [header |-> {"SOURCETABLE 200", "ICY 200", "w", "LF"}, maxHeader |-> 3,
       body |-> {"END", "w", " ", "CR", "LF"}, maxBody |-> 5]
V2 == [header |-> {"HTTP 200", "length 2", "LF"}, maxHeader |-> 5,
       body |-> {"END", "w", "LF"}, maxBody |-> 5]
V2Chunked == [header |-> {"HTTP 200", "length 2", "chunked", "LF"}, maxHeader |-> 7,
              body |-> {"END", "2", "LF"}, maxBody |-> 5]
Http == [header |-> {"HTTP 200", "HTTP 401", "HTTP 500", "gnss/sourcetable", "text/html", "LF"},
         maxHeader |-> 5, body |-> {"bin", "LF"}, maxBody |-> 2]

Known == {Icy, IcyCR, Chunked, ChunkedExt, V1, V2, V2Chunked, Http}
===============================================================================
