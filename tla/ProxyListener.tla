--------------------------- MODULE ProxyListener ---------------------------
(***************************************************************************)
(* Listener.Accept (src/v2.go): the loop that takes raw connections from  *)
(* the wrapped net.Listener, asks the policy function about each upstream, *)
(* closes the ones it refuses, and hands back either the raw connection    *)
(* (SKIP) or a Conn carrying the policy and the header-read timeout.       *)
(*                                                                         *)
(* Clients connect over time into the kernel backlog; the server closes    *)
(* the listener at any moment from another goroutine.  One server          *)
(* goroutine calls Accept repeatedly, as http.Server.Serve does.           *)
(***************************************************************************)
EXTENDS Naturals, Sequences, FiniteSets

CONSTANTS
    Upstreams,     \* peer addresses clients connect from
    PolicyOf,      \* PolicyOf[u]: what the policy function returns for u
    PolicyModes,   \* which of Policy and ConnPolicy the Listener may have set
    Timeouts,      \* the ReadHeaderTimeout values: "neg", "zero", "pos"
    MaxConns       \* bound on the connections clients open

PolicyAnswers == {"USE", "IGNORE", "REJECT", "REQUIRE", "SKIP",
                  "ErrInvalidUpstream", "ErrOther"}

ASSUME /\ PolicyOf \in [Upstreams -> PolicyAnswers]
       /\ PolicyModes \subseteq {"none", "Policy", "ConnPolicy", "both"}
       /\ Timeouts \subseteq {"neg", "zero", "pos"}
       /\ MaxConns \in Nat

Conns == 1..MaxConns

VARIABLES
    upstream,      \* upstream[c]: where connection c comes from
    backlog,       \* connections established, not yet accepted
    raw,           \* raw[c]: "backlog", "held", "closed", "returned"
    phase,         \* the server: "accept", "decide" (holding `held`),
                   \* "stopped" (Accept returned an error), "panicked"
    held,          \* the connection Accept is deciding about
    returned,      \* what Accept calls have returned, in order
    lnClosed,      \* Listener.Close has been called
    PolicyMode,        \* the Listener's configuration: which policy
    ReadHeaderTimeout  \* function is set, and its ReadHeaderTimeout

vars == <<upstream, backlog, raw, phase, held, returned, lnClosed,
          PolicyMode, ReadHeaderTimeout>>

NoConn == 0

cfg == <<PolicyMode, ReadHeaderTimeout>>

(* Accept's result: a wrapped Conn (with its policy and whether a header  *)
(* timeout applies), the raw connection, or an error; ErrInvalidUpstream   *)
(* is never among the errors, Accept keeps listening past it.              *)
Results == [kind : {"wrapped"}, c : Conns, policy : PolicyAnswers, timeout : BOOLEAN]
           \cup [kind : {"raw"}, c : Conns]
           \cup [kind : {"error"}, err : {"ErrOther", "ListenerClosed"}]

-----------------------------------------------------------------------------
(* The environment: a client connects; the server closes the listener.    *)

Connect ==
    /\ \E c \in Conns, u \in Upstreams :
         /\ raw[c] = "none"
         /\ \A d \in Conns : d < c => raw[d] # "none"
         /\ upstream' = [upstream EXCEPT ![c] = u]
         /\ raw' = [raw EXCEPT ![c] = "backlog"]
         /\ backlog' = Append(backlog, c)
    /\ ~lnClosed
    /\ UNCHANGED <<phase, held, returned, lnClosed, cfg>>

CloseListener ==
    /\ ~lnClosed
    /\ lnClosed' = TRUE
    /\ UNCHANGED <<upstream, backlog, raw, phase, held, returned, cfg>>

-----------------------------------------------------------------------------
(* p.Listener.Accept(): the next established connection.  Once the        *)
(* listener is closed the call returns its error, which ends the server's *)
(* accept loop; on an open listener with an empty backlog it blocks.      *)
AcceptRaw ==
    /\ phase = "accept"
    /\ IF lnClosed
       THEN /\ returned' = Append(returned, [kind |-> "error", err |-> "ListenerClosed"])
            /\ phase' = "stopped"
            /\ UNCHANGED <<backlog, raw, held>>
       ELSE /\ backlog # <<>>
            /\ held' = Head(backlog)
            /\ backlog' = Tail(backlog)
            /\ raw' = [raw EXCEPT ![Head(backlog)] = "held"]
            /\ phase' = "decide"
            /\ UNCHANGED returned
    /\ UNCHANGED <<upstream, lnClosed, cfg>>

(* The policy Accept applies to connection c: USE when no policy function *)
(* is configured, else what the function answers for c's upstream.        *)
Answer(c) == IF PolicyMode = "none" THEN "USE" ELSE PolicyOf[upstream[c]]

(* Mutant of TimeoutApplies: a zero ReadHeaderTimeout is passed on as 0, *)
(* which disables the header deadline instead of selecting the default.  *)
TimeoutAppliesNoDefault == ReadHeaderTimeout = "pos"

(* The header-read timeout the new Conn gets: 0 means the default (10s),  *)
(* a negative value is kept and disables it in readHeader.                *)
TimeoutApplies == ReadHeaderTimeout # "neg"

(* Both Policy and ConnPolicy set: Accept panics after taking the         *)
(* connection, which is neither closed nor returned.                       *)
DecidePanic ==
    /\ phase = "decide" /\ PolicyMode = "both"
    /\ phase' = "panicked"
    /\ UNCHANGED <<upstream, backlog, raw, held, returned, lnClosed, cfg>>

(* Mutant of DecideRefuse: ErrInvalidUpstream is returned like any other  *)
(* error instead of continuing the loop.                                   *)
DecideRefuseNoContinue ==
    /\ phase = "decide" /\ PolicyMode \in {"Policy", "ConnPolicy"}
    /\ Answer(held) \in {"ErrInvalidUpstream", "ErrOther"}
    /\ raw' = [raw EXCEPT ![held] = "closed"]
    /\ returned' = Append(returned, [kind |-> "error", err |-> Answer(held)])
    /\ phase' = "stopped"
    /\ held' = NoConn
    /\ UNCHANGED <<upstream, backlog, lnClosed, cfg>>

(* Mutant of DecideRefuse: the refused connection is not closed.          *)
DecideRefuseNoClose ==
    /\ phase = "decide" /\ PolicyMode \in {"Policy", "ConnPolicy"}
    /\ Answer(held) \in {"ErrInvalidUpstream", "ErrOther"}
    /\ returned' = IF Answer(held) = "ErrInvalidUpstream" THEN returned
                   ELSE Append(returned, [kind |-> "error", err |-> Answer(held)])
    /\ phase' = IF Answer(held) = "ErrInvalidUpstream" THEN "accept" ELSE "stopped"
    /\ held' = NoConn
    /\ UNCHANGED <<upstream, backlog, raw, lnClosed, cfg>>

(* The policy function failed: conn.Close(); on ErrInvalidUpstream the    *)
(* loop continues with the next connection, any other error is returned.  *)
DecideRefuse ==
    /\ phase = "decide" /\ PolicyMode \in {"Policy", "ConnPolicy"}
    /\ Answer(held) \in {"ErrInvalidUpstream", "ErrOther"}
    /\ raw' = [raw EXCEPT ![held] = "closed"]
    /\ returned' = IF Answer(held) = "ErrInvalidUpstream" THEN returned
                   ELSE Append(returned, [kind |-> "error", err |-> Answer(held)])
    /\ phase' = IF Answer(held) = "ErrInvalidUpstream" THEN "accept" ELSE "stopped"
    /\ held' = NoConn
    /\ UNCHANGED <<upstream, backlog, lnClosed, cfg>>

(* Mutant of DecideReturn: a SKIP connection is closed and the loop goes  *)
(* on, as for a refused upstream.                                          *)
DecideReturnSkipDropped ==
    /\ phase = "decide" /\ PolicyMode # "both"
    /\ Answer(held) \notin {"ErrInvalidUpstream", "ErrOther"}
    /\ IF Answer(held) = "SKIP" /\ PolicyMode # "none"
       THEN /\ raw' = [raw EXCEPT ![held] = "closed"]
            /\ UNCHANGED returned
       ELSE /\ raw' = [raw EXCEPT ![held] = "returned"]
            /\ returned' = Append(returned,
                  [kind |-> "wrapped", c |-> held, policy |-> Answer(held),
                   timeout |-> TimeoutApplies])
    /\ phase' = "accept" /\ held' = NoConn
    /\ UNCHANGED <<upstream, backlog, lnClosed, cfg>>

(* Mutant of DecideReturn: the wrapped Conn gets the default policy USE  *)
(* instead of the one the function answered.                              *)
DecideReturnPolicyDropped ==
    /\ phase = "decide" /\ PolicyMode # "both"
    /\ Answer(held) \notin {"ErrInvalidUpstream", "ErrOther"}
    /\ raw' = [raw EXCEPT ![held] = "returned"]
    /\ returned' = Append(returned,
          IF Answer(held) = "SKIP" /\ PolicyMode # "none"
          THEN [kind |-> "raw", c |-> held]
          ELSE [kind |-> "wrapped", c |-> held, policy |-> "USE",
                timeout |-> TimeoutApplies])
    /\ phase' = "accept" /\ held' = NoConn
    /\ UNCHANGED <<upstream, backlog, lnClosed, cfg>>

(* The connection is handed out: raw on SKIP, otherwise NewConn with the  *)
(* policy and the validator, and the listener's header timeout.            *)
DecideReturn ==
    /\ phase = "decide" /\ PolicyMode # "both"
    /\ Answer(held) \notin {"ErrInvalidUpstream", "ErrOther"}
    /\ raw' = [raw EXCEPT ![held] = "returned"]
    /\ returned' = Append(returned,
          IF Answer(held) = "SKIP" /\ PolicyMode # "none"
          THEN [kind |-> "raw", c |-> held]
          ELSE [kind |-> "wrapped", c |-> held, policy |-> Answer(held),
                timeout |-> TimeoutApplies])
    /\ phase' = "accept" /\ held' = NoConn
    /\ UNCHANGED <<upstream, backlog, lnClosed, cfg>>

Init ==
    /\ upstream = [c \in Conns |-> CHOOSE u \in Upstreams : TRUE]
    /\ backlog = <<>>
    /\ raw = [c \in Conns |-> "none"]
    /\ phase = "accept" /\ held = NoConn
    /\ returned = <<>>
    /\ lnClosed = FALSE
    /\ PolicyMode \in PolicyModes
    /\ ReadHeaderTimeout \in Timeouts

(* One call of the server loop: an Accept step or one of its decisions.   *)
Server == AcceptRaw \/ DecidePanic \/ DecideRefuse \/ DecideReturn

Next == Connect \/ CloseListener \/ Server

(* The Go scheduler keeps running the server goroutine; clients and the   *)
(* closing of the listener get no fairness.                                *)
Spec == Init /\ [][Next]_vars /\ WF_vars(Server)

-----------------------------------------------------------------------------
TypeOK ==
    /\ upstream \in [Conns -> Upstreams]
    /\ backlog \in Seq(Conns)
    /\ raw \in [Conns -> {"none", "backlog", "held", "closed", "returned"}]
    /\ phase \in {"accept", "decide", "stopped", "panicked"}
    /\ held \in Conns \cup {NoConn}
    /\ returned \in Seq(Results)
    /\ lnClosed \in BOOLEAN
    /\ PolicyMode \in PolicyModes /\ ReadHeaderTimeout \in Timeouts

(* Every connection Accept took from the listener ends up either handed   *)
(* to the caller or closed by Accept: none is dropped open when the       *)
(* policy refuses it, and none is handed out twice.                       *)
NoConnectionLeaked ==
    /\ \A c \in Conns : raw[c] = "held" <=> (phase \in {"decide", "panicked"} /\ held = c)
    /\ \A c \in Conns :
         raw[c] = "returned" <=>
            Cardinality({i \in 1..Len(returned) :
                           returned[i].kind \in {"wrapped", "raw"} /\ returned[i].c = c}) = 1

(* Refused upstreams cannot stop the server: a connection from an         *)
(* accepted upstream that is waiting in the backlog is eventually handed  *)
(* to the caller, unless the listener is closed or the policy function    *)
(* failed with an error other than ErrInvalidUpstream.                    *)
BacklogDrains ==
    \A c \in Conns :
        (raw[c] = "backlog" /\ Answer(c) \notin {"ErrInvalidUpstream", "ErrOther"}
                           /\ PolicyMode # "both")
          ~> (raw[c] = "returned" \/ lnClosed
              \/ \E i \in 1..Len(returned) : returned[i] = [kind |-> "error", err |-> "ErrOther"])

====
