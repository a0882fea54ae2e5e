---------------------------- MODULE MCProxyConn ----------------------------
(* Model-checking instances of ProxyConn: the wires a peer can send and    *)
(* the call sequences an application makes on one accepted Conn.           *)
EXTENDS ProxyConn

CONSTANTS P1, P2   \* two payload chunks

MCPayload == {P1, P2}

(* No header, a PROXY header, a LOCAL header, a malformed header; each    *)
(* followed by two payload chunks so that a chunk can be left buffered.    *)
MCWires == { <<P1, P2>>, <<"HdrProxy", P1, P2>>, <<"HdrLocal", P1, P2>>,
             <<"HdrBad", P1, P2>> }

(* A server goroutine reading the stream, closing it, then copying what   *)
(* is left (a copy that fails on the closed Conn), while a logger         *)
(* goroutine asks for the client address and then bounds the server's     *)
(* reads with a read deadline.                                             *)
ProgramServe == [g \in Goroutines |->
                   IF g = CHOOSE x \in Goroutines : TRUE
                   THEN <<"Read", "Read", "Close", "WriteTo">>
                   ELSE <<"RemoteAddr", "SetReadDeadline">>]

(* Forwarding: the header is examined, then the stream is copied with      *)
(* io.Copy(dst, conn), which calls Conn.WriteTo.                           *)
ProgramForward == [g \in Goroutines |-> <<"RemoteAddr", "WriteTo">>]


(* A reader blocked on the header while another goroutine sets a read      *)
(* deadline to bound (or cancel) that read.                                *)
ProgramDeadlineRace == [g \in Goroutines |->
                   IF g = CHOOSE x \in Goroutines : TRUE
                   THEN <<"Read">>
                   ELSE <<"SetReadDeadline">>]

(* A reader that closes its Conn when done while another goroutine closes  *)
(* it too (shutdown).                                                      *)
ProgramCloseRace == [g \in Goroutines |->
                   IF g = CHOOSE x \in Goroutines : TRUE
                   THEN <<"Read", "Read", "Close">>
                   ELSE <<"Close">>]

(* Closing a Conn that was never read, then logging its address; and a    *)
(* goroutine that reads, closes, then reads again.                         *)
ProgramCloseThenAddr == [g \in Goroutines |->
                   IF g = CHOOSE x \in Goroutines : TRUE
                   THEN <<"Close", "RemoteAddr">>
                   ELSE <<"Read", "Close", "Read">>]

====
