---------------------------- MODULE ListenerConn ----------------------------
(***************************************************************************)
(* Listener.Accept composed with the Conn it hands out (src/v2.go): the   *)
(* accept loop of ProxyListener runs against its clients; the first Conn  *)
(* Accept returns wrapped is served by the application's goroutines as in  *)
(* ProxyConn, with the policy the policy function chose for its upstream   *)
(* and the header timeout the listener resolved.  Before that the Conn     *)
(* holds NewConn's defaults: policy USE, readHeaderTimeout 0.              *)
(***************************************************************************)
EXTENDS ProxyConn

CONSTANTS Upstreams, PolicyOf, PolicyModes, Timeouts, MaxConns

VARIABLES upstream, backlog, raw, phase, held, returned, lnClosed,
          PolicyMode, ReadHeaderTimeout,
          served     \* the connection whose Conn is being served, or 0

Listener == INSTANCE ProxyListener

lvars == <<upstream, backlog, raw, phase, held, returned, lnClosed,
           PolicyMode, ReadHeaderTimeout>>

allvars == <<vars, lvars, served>>

(* Accept's results that are wrapped Conns, by position.                   *)
WrappedAt == {i \in DOMAIN returned : returned[i].kind = "wrapped"}

(* The Conn of the first wrapped result is handed to the application's     *)
(* goroutines, with NewConn's WithPolicy option and the assignment of      *)
(* readHeaderTimeout applied.                                              *)
Serve ==
    /\ served = Listener!NoConn /\ WrappedAt # {}
    /\ LET r == returned[CHOOSE i \in WrappedAt : \A j \in WrappedAt : i <= j]
       IN /\ served' = r.c
          /\ policy' = r.policy
          /\ timeoutOn' = r.timeout
    /\ stage' = Started
    /\ UNCHANGED <<conn, validate, pc, orig, res, lreader, panicked, addr, lvars>>

(* The goroutines wait for Accept; the client may write before that.       *)
SystemInit ==
    /\ InitWith([g \in Goroutines |-> "accept"])
    /\ Listener!Init /\ served = Listener!NoConn

SystemNext ==
    \/ Listener!Next /\ UNCHANGED <<vars, served>>
    \/ Serve
    \/ Next /\ UNCHANGED <<lvars, served>>

(* The server goroutine and the application's goroutines are scheduled;   *)
(* a deadline eventually passes; clients and the peer are unfair.          *)
SystemFairness ==
    /\ WF_allvars(Listener!Server /\ UNCHANGED <<vars, served>>)
    /\ WF_allvars(Serve)
    /\ \A g \in Goroutines : WF_allvars(Step(g) /\ UNCHANGED <<lvars, served>>)
    /\ WF_allvars(Tick /\ UNCHANGED <<lvars, served>>)

SystemSpec == SystemInit /\ [][SystemNext]_allvars /\ SystemFairness

-----------------------------------------------------------------------------
(* Spec 4.6 end to end: once the served Conn's header attempt is settled,  *)
(* its outcome follows the policy the function chose for the client's      *)
(* upstream (not NewConn's default): REQUIRE accepts a stream only with a  *)
(* header, REJECT only a plain one it consumed nothing from, IGNORE never  *)
(* retains the header.                                                     *)
PolicyEnforced ==
    (served # Listener!NoConn /\ once = "done") =>
        LET ans == Listener!Answer(served)
        IN /\ ans = "REQUIRE" /\ readErr = "none" => header # "none"
           /\ ans = "REJECT" /\ readErr = "none" => consumed = 0
           /\ ans = "IGNORE" => header = "none"

(* Spec 4.8: while the served Conn's header parse blocks on the socket,  *)
(* the socket's read deadline is the header deadline exactly when the      *)
(* listener's ReadHeaderTimeout is not negative (zero meaning the 10 s     *)
(* default), and otherwise the deadline the application set is left in     *)
(* force.  Violated if Accept passes the timeout on unresolved, or the     *)
(* Conn never receives it.                                                 *)
HeaderDeadlineFollowsListener ==
    \A g \in Goroutines :
        (served # Listener!NoConn /\ stage[g] = "rh_read" /\ ~closed)
            => (connDeadline = Hdr <=> ReadHeaderTimeout # "neg")
====
