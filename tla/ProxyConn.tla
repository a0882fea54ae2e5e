----------------------------- MODULE ProxyConn -----------------------------
(***************************************************************************)
(* The interception wrapper proxyproto.Conn (src/v2.go, the protocol.go    *)
(* part) used by several goroutines at once, over an accepted socket whose *)
(* peer writes a wire: an optional PROXY header followed by payload.       *)
(*                                                                         *)
(* The wire is a sequence of items.  A header is one item (its bytes are   *)
(* abstracted: the v1/v2 codec is modelled in its own module); payload     *)
(* items are model values.  The socket holds the items the peer has sent   *)
(* and the server has not yet taken; bufReader is the pooled bufio.Reader  *)
(* that the header parser fills and Read drains first.                     *)
(*                                                                         *)
(* Each goroutine runs a fixed sequence of calls on the Conn (Program).    *)
(* sync.Once is the variable `once`; the goroutine that runs readHeader    *)
(* goes through its three steps: install the header deadline, parse, then  *)
(* restore the deadline and apply the policy.  Time is the set `passed` of *)
(* deadlines whose instant has gone by.                                    *)
(***************************************************************************)
EXTENDS Naturals, Sequences, SequencesExt, FiniteSets

CONSTANTS
    Goroutines,   \* goroutines calling methods of one Conn
    Program,      \* Program[g]: the calls goroutine g makes, in order
    Wires,        \* the wires the peer may send (header item, then payload)
    Payload,      \* payload items (model values)
    Policies,     \* ProxyHeaderPolicy values the Conn may be built with
    TimeoutOn,    \* subset of BOOLEAN: readHeaderTimeout > 0 ?
    Validators    \* subset of {"none", "accept", "reject"}: the Validate hook

HeaderItems == {"HdrProxy", "HdrLocal", "HdrBad"}
Calls == {"Read", "ProxyHeader", "LocalAddr", "RemoteAddr",
          "SetReadDeadline", "SetDeadline", "Close", "WriteTo"}
AllPolicies == {"USE", "IGNORE", "REJECT", "REQUIRE", "SKIP"}
Errors == {"none", "NoProxy", "Timeout", "EOF", "Closed", "Malformed",
           "Superfluous", "Invalid"}

ASSUME /\ Program \in [Goroutines -> Seq(Calls)]
       /\ Wires \subseteq Seq(HeaderItems \cup Payload)
       /\ Policies \subseteq AllPolicies
       /\ TimeoutOn \subseteq BOOLEAN
       /\ Validators \subseteq {"none", "accept", "reject"}

VARIABLES
    wire, sent, peerEOF,   \* peer: what it writes, how much so far, FIN sent
    taken,                 \* items the server has read out of the socket
    buf, bufState,         \* bufReader content; its life (FieldSet)
    reader,                \* p.reader: "multi" (bufReader then conn), "direct", "nil"
    connDeadline,          \* read deadline installed on the socket
    stored,                \* p.readDeadline: the deadline the user asked for
    passed,                \* deadlines whose instant has gone by
    once, readErr, header, \* sync.Once state, p.readErr, p.header
    consumed,              \* wire items consumed by the header parser
    closed,                \* p.conn has been closed
    delivered,             \* items handed to the application as payload
    policy, timeoutOn, validate,
    pc, stage,             \* per goroutine: index into Program, step within a call
    orig, res, lreader,    \* per goroutine locals: origDeadline, parse result, reader
    panicked,              \* a nil dereference crashed the process
    addr                   \* what the last LocalAddr/RemoteAddr returned

conn == <<wire, sent, peerEOF, taken, buf, bufState, reader, connDeadline,
          stored, passed, once, readErr, header, consumed, closed, delivered>>
locals == <<pc, stage, orig, res, lreader>>
cfg == <<policy, timeoutOn, validate>>
vars == <<conn, cfg, locals, panicked, addr>>

(* A deadline is an instant: none (time.Time{}), the header read's        *)
(* now+readHeaderTimeout, or the instant asked for by call pc of g.        *)
Zero == <<"zero", 0>>
Hdr == <<"hdr", 0>>
Deadlines == {Zero, Hdr} \cup (Goroutines \X (1..10))
Stages == {"accept", "call", "rh_set", "rh_read", "rh_finish", "sd_conn", "io",
           "copy", "cl_put", "cl_finish", "done"}

(* The bufReader's life: owned by the Conn, Reset and Put but still in     *)
(* p.bufReader, Put and the field nilled, or Put into readerPool twice.    *)
FieldSet == {"conn", "put"}

-----------------------------------------------------------------------------
(* The socket as the server sees it.                                       *)

Avail == SubSeq(wire, taken + 1, sent)

Fired == connDeadline # Zero /\ connDeadline \in passed

(* Outcomes of one blocking read on the socket (netFD.Read): a closed fd   *)
(* fails first, then an expired deadline, then data, then EOF; with none   *)
(* of these the read blocks (the set is empty).                            *)
SocketReads ==
    IF closed THEN {[err |-> "Closed", data |-> <<>>]}
    ELSE IF Fired THEN {[err |-> "Timeout", data |-> <<>>]}
    ELSE IF Avail # <<>>
         THEN {[err |-> "none", data |-> SubSeq(Avail, 1, k)] : k \in 1..Len(Avail)}
    ELSE IF peerEOF THEN {[err |-> "EOF", data |-> <<>>]}
    ELSE {}

(* Read (header.go) peeks at the buffered bytes and dispatches on the      *)
(* signature to parseVersion1 / parseVersion2; anything else is            *)
(* ErrNoProxyProtocol and consumes nothing.                                *)
ParseItem(item) ==
    CASE item = "HdrProxy" -> [err |-> "none", hdr |-> "proxy", eat |-> 1]
      [] item = "HdrLocal" -> [err |-> "none", hdr |-> "local", eat |-> 1]
      [] item = "HdrBad"   -> [err |-> "Malformed", hdr |-> "none", eat |-> 1]
      [] OTHER             -> [err |-> "NoProxy", hdr |-> "none", eat |-> 0]

(* Mutant of HeaderOutcome: IGNORE keeps the header like USE.            *)
HeaderOutcomeIgnoreKeeps(r) ==
    LET err == IF timeoutOn /\ r.err = "Timeout" THEN "NoProxy" ELSE r.err
    IN CASE err = "NoProxy" ->
              [err |-> IF policy = "REQUIRE" THEN "NoProxy" ELSE "none", hdr |-> "none"]
         [] err = "none" /\ policy = "REJECT" ->
              [err |-> "Superfluous", hdr |-> "none"]
         [] err = "none" /\ policy \in {"USE", "REQUIRE", "IGNORE"} /\ validate = "reject" ->
              [err |-> "Invalid", hdr |-> "none"]
         [] err = "none" /\ policy \in {"USE", "REQUIRE", "IGNORE"} ->
              [err |-> "none", hdr |-> r.hdr]
         [] OTHER -> [err |-> err, hdr |-> "none"]

(* readHeader after Read returned: timeout translation, then the policy.   *)
HeaderOutcome(r) ==
    LET err == IF timeoutOn /\ r.err = "Timeout" THEN "NoProxy" ELSE r.err
    IN CASE err = "NoProxy" ->
              [err |-> IF policy = "REQUIRE" THEN "NoProxy" ELSE "none", hdr |-> "none"]
         [] err = "none" /\ policy = "REJECT" ->
              [err |-> "Superfluous", hdr |-> "none"]
         [] err = "none" /\ policy \in {"USE", "REQUIRE"} /\ validate = "reject" ->
              [err |-> "Invalid", hdr |-> "none"]
         [] err = "none" /\ policy \in {"USE", "REQUIRE"} ->
              [err |-> "none", hdr |-> r.hdr]
         [] OTHER -> [err |-> err, hdr |-> "none"]

Call(g) == Program[g][pc[g]]

NeedsHeader == {"Read", "ProxyHeader", "LocalAddr", "RemoteAddr"}

Running(g) == pc[g] <= Len(Program[g]) /\ ~panicked

Return(g) ==
    /\ pc' = [pc EXCEPT ![g] = @ + 1]
    /\ stage' = [stage EXCEPT ![g] = IF pc[g] + 1 > Len(Program[g]) THEN "done" ELSE "call"]

-----------------------------------------------------------------------------
(* once.Do: the first caller runs readHeader, the others wait for it.      *)
OnceStart(g) ==
    /\ Running(g) /\ stage[g] = "call" /\ Call(g) \in NeedsHeader
    /\ once = "idle"
    /\ once' = "running"
    /\ stage' = [stage EXCEPT ![g] = "rh_set"]
    /\ UNCHANGED <<wire, sent, peerEOF, taken, buf, bufState, reader, connDeadline,
                   stored, passed, readErr, header, consumed, closed, delivered,
                   cfg, addr, pc, orig, res, lreader, panicked>>

(* Mutant: the original deadline is saved but no header deadline is set.  *)
HeaderSetDeadlineMissing(g) ==
    /\ Running(g) /\ stage[g] = "rh_set"
    /\ orig' = [orig EXCEPT ![g] = stored]
    /\ stage' = [stage EXCEPT ![g] = "rh_read"]
    /\ UNCHANGED <<wire, sent, peerEOF, taken, buf, bufState, reader, connDeadline,
                   stored, passed, once, readErr, header, consumed, closed, delivered,
                   cfg, addr, pc, res, lreader, panicked>>

(* readHeader, first step: save p.readDeadline and install now+timeout.    *)
(* SetReadDeadline on a closed socket fails and readHeader returns it.     *)
HeaderSetDeadline(g) ==
    /\ Running(g) /\ stage[g] = "rh_set"
    /\ IF ~timeoutOn
       THEN /\ stage' = [stage EXCEPT ![g] = "rh_read"]
            /\ UNCHANGED <<connDeadline, passed, orig, res>>
       ELSE /\ orig' = [orig EXCEPT ![g] = stored]
            /\ IF closed
               THEN /\ res' = [res EXCEPT ![g] = [err |-> "Closed", hdr |-> "none", eat |-> 0]]
                    /\ stage' = [stage EXCEPT ![g] = "rh_finish"]
                    /\ UNCHANGED <<connDeadline, passed>>
               ELSE /\ connDeadline' = Hdr
                    /\ passed' = passed \ {Hdr}
                    /\ stage' = [stage EXCEPT ![g] = "rh_read"]
                    /\ UNCHANGED res
    /\ UNCHANGED <<wire, sent, peerEOF, taken, buf, bufState, reader, stored, once,
                   readErr, header, consumed, closed, delivered, cfg, addr, pc, lreader, panicked>>

(* Mutant of ReaderFilled: the header bytes are counted as taken twice.   *)
ReaderFilledRecount(s, r) == taken + Len(s.data) + r.eat

(* Bytes taken from the socket once Peek has filled the empty bufReader    *)
(* with the read s, whose first item the dispatch then consumes as r.      *)
ReaderFilled(s, r) == taken + Len(s.data)

(* readHeader, second step: Read(p.bufReader).  Peek fills the buffer from *)
(* the socket when it is empty; the dispatch consumes a header item.  A    *)
(* bufReader that Close has nilled is a nil dereference; one that Close    *)
(* has Reset(nil) but not yet nilled panics in fill on its nil io.Reader.  *)
HeaderParse(g) ==
    /\ Running(g) /\ stage[g] = "rh_read"
    /\ IF bufState # "conn"
       THEN /\ panicked' = TRUE
            /\ UNCHANGED <<taken, buf, consumed, res, stage>>
       ELSE /\ \/ /\ buf # <<>>
                  /\ LET r == ParseItem(Head(buf)) IN
                       /\ res' = [res EXCEPT ![g] = r]
                       /\ buf' = SubSeq(buf, r.eat + 1, Len(buf))
                       /\ consumed' = r.eat
                       /\ UNCHANGED taken
               \/ /\ buf = <<>>
                  /\ \E s \in SocketReads :
                       IF s.err = "none"
                       THEN LET r == ParseItem(Head(s.data)) IN
                              /\ res' = [res EXCEPT ![g] = r]
                              /\ buf' = SubSeq(s.data, r.eat + 1, Len(s.data))
                              /\ consumed' = r.eat
                              /\ taken' = ReaderFilled(s, r)
                       ELSE /\ res' = [res EXCEPT ![g] =
                                  [err |-> IF s.err = "EOF" THEN "NoProxy" ELSE s.err,
                                   hdr |-> "none", eat |-> 0]]
                            /\ UNCHANGED <<buf, consumed, taken>>
            /\ stage' = [stage EXCEPT ![g] = "rh_finish"]
            /\ UNCHANGED panicked
    /\ UNCHANGED <<wire, sent, peerEOF, bufState, reader, connDeadline, stored, passed,
                   once, readErr, header, closed, delivered, cfg, addr, pc, orig, lreader>>

(* Mutant of RestoredDeadline: reset to no deadline, not the saved one.   *)
RestoredDeadlineZero(g) == IF timeoutOn /\ ~closed THEN Zero ELSE connDeadline

(* readHeader's deferred p.conn.SetReadDeadline(origDeadline), whose error *)
(* (a closed socket) is ignored.                                           *)
RestoredDeadline(g) == IF timeoutOn /\ ~closed THEN orig[g] ELSE connDeadline

(* Mutant of ReaderAfter: the socket is read directly with bytes buffered. *)
ReaderAfterBypassBuffered(g, out) ==
    IF Call(g) = "Read" /\ out.err = "none" THEN "direct" ELSE reader

(* Read's closure: with no error and an empty bufReader, p.reader becomes  *)
(* p.conn, bypassing the MultiReader.                                      *)
ReaderAfter(g, out) ==
    IF Call(g) = "Read" /\ out.err = "none" /\ bufState \in FieldSet /\ buf = <<>>
    THEN "direct" ELSE reader

(* readHeader, last step: restore the saved deadline, translate a timeout, *)
(* apply the policy; then Read's closure picks the reader.                 *)
HeaderFinish(g) ==
    /\ Running(g) /\ stage[g] = "rh_finish"
    /\ LET out == HeaderOutcome(res[g])
       IN /\ readErr' = out.err
          /\ header' = out.hdr
          /\ reader' = ReaderAfter(g, out)
    /\ connDeadline' = RestoredDeadline(g)
    /\ once' = "done"
    /\ stage' = [stage EXCEPT ![g] = "call"]
    /\ UNCHANGED <<wire, sent, peerEOF, taken, buf, bufState, stored, passed, consumed,
                   closed, delivered, cfg, addr, pc, orig, res, lreader, panicked>>

(* Read, after once.Do: a stored readErr is returned for good; otherwise  *)
(* the call goes through p.reader, which Close has set to nil.             *)
ReadCall(g) ==
    /\ Running(g) /\ stage[g] = "call" /\ Call(g) = "Read"
    /\ once = "done"
    /\ IF readErr # "none"
       THEN /\ Return(g)
            /\ UNCHANGED <<lreader, panicked>>
       ELSE IF reader = "nil"
       THEN /\ panicked' = TRUE
            /\ UNCHANGED <<pc, stage, lreader>>
       ELSE /\ lreader' = [lreader EXCEPT ![g] = reader]
            /\ stage' = [stage EXCEPT ![g] = "io"]
            /\ UNCHANGED <<pc, panicked>>
    /\ UNCHANGED <<conn, cfg, addr, orig, res>>

(* p.reader.Read(b): the MultiReader drains bufReader first, then reads    *)
(* the socket; the direct reader reads the socket.                         *)
ReadIO(g) ==
    /\ Running(g) /\ stage[g] = "io"
    /\ \/ /\ lreader[g] = "multi" /\ buf # <<>>
          /\ \E k \in 1..Len(buf) :
               /\ delivered' = delivered \o SubSeq(buf, 1, k)
               /\ buf' = SubSeq(buf, k + 1, Len(buf))
          /\ UNCHANGED taken
       \/ /\ lreader[g] = "direct" \/ buf = <<>>
          /\ \E s \in SocketReads :
               /\ delivered' = delivered \o s.data
               /\ taken' = taken + Len(s.data)
          /\ UNCHANGED buf
    /\ Return(g)
    /\ UNCHANGED <<wire, sent, peerEOF, bufState, reader, connDeadline, stored, passed,
                   once, readErr, header, consumed, closed, cfg, addr, orig, res, lreader, panicked>>

(* Mutant of AddrOf: a LOCAL header's addresses are returned too.         *)
AddrOfNoLocalCheck == IF header = "none" \/ readErr # "none" THEN "socket" ELSE "header"

(* LocalAddr / RemoteAddr: the socket's address when p.header is nil, its  *)
(* command is LOCAL or p.readErr is set; the header's otherwise.           *)
AddrOf == IF header \in {"none", "local"} \/ readErr # "none" THEN "socket" ELSE "header"

(* ProxyHeader, LocalAddr, RemoteAddr: once.Do(readHeader), then a read of *)
(* p.header / p.readErr; the address methods answer from them.             *)
AddrCall(g) ==
    /\ Running(g) /\ stage[g] = "call"
    /\ Call(g) \in {"ProxyHeader", "LocalAddr", "RemoteAddr"}
    /\ once = "done"
    /\ addr' = IF Call(g) = "ProxyHeader" THEN addr ELSE AddrOf
    /\ Return(g)
    /\ UNCHANGED <<conn, cfg, orig, res, lreader, panicked>>

(* SetReadDeadline / SetDeadline: p.readDeadline.Store(t), then            *)
(* p.conn.SetReadDeadline(t) (which fails, changing nothing, once closed). *)
(* Each call asks for a fresh instant, named by the call site.             *)
SetDeadlineStore(g) ==
    /\ Running(g) /\ stage[g] = "call"
    /\ Call(g) \in {"SetReadDeadline", "SetDeadline"}
    /\ stored' = <<g, pc[g]>>
    /\ stage' = [stage EXCEPT ![g] = "sd_conn"]
    /\ UNCHANGED <<wire, sent, peerEOF, taken, buf, bufState, reader, connDeadline,
                   passed, once, readErr, header, consumed, closed, delivered,
                   cfg, addr, pc, orig, res, lreader, panicked>>

SetDeadlineConn(g) ==
    /\ Running(g) /\ stage[g] = "sd_conn"
    /\ connDeadline' = IF closed THEN connDeadline ELSE <<g, pc[g]>>
    /\ Return(g)
    /\ UNCHANGED <<wire, sent, peerEOF, taken, buf, bufState, reader, stored, passed,
                   once, readErr, header, consumed, closed, delivered,
                   cfg, addr, orig, res, lreader, panicked>>

(* Close, first step: if p.bufReader != nil.  Close takes no lock, so     *)
(* another goroutine's Close may run between this test and what follows.   *)
CloseCheck(g) ==
    /\ Running(g) /\ stage[g] = "call" /\ Call(g) = "Close"
    /\ stage' = [stage EXCEPT ![g] = IF bufState \in FieldSet THEN "cl_put" ELSE "cl_finish"]
    /\ UNCHANGED <<conn, cfg, addr, pc, orig, res, lreader, panicked>>

(* putReader(p.bufReader): br.Reset(nil) drops the buffered bytes and      *)
(* readerPool.Put(br).  The field is read again without synchronisation:   *)
(* once another Close has nilled it, the build may reuse the value tested  *)
(* (a second Put of the same reader) or load nil (Reset panics).           *)
ClosePut(g) ==
    /\ Running(g) /\ stage[g] = "cl_put"
    /\ \/ bufState = "conn" /\ bufState' = "put" /\ buf' = <<>> /\ UNCHANGED panicked
       \/ bufState # "conn" /\ bufState' = "twice" /\ UNCHANGED <<buf, panicked>>
       \/ bufState = "pool" /\ panicked' = TRUE /\ UNCHANGED <<bufState, buf>>
    /\ stage' = [stage EXCEPT ![g] = "cl_finish"]
    /\ UNCHANGED <<wire, sent, peerEOF, taken, reader, connDeadline, stored, passed, once,
                   readErr, header, consumed, closed, delivered, cfg, addr, pc, orig, res, lreader>>

(* Mutant of CloseFinish: Close also drops p.header for the collector.    *)
CloseFinishDropHeader(g) ==
    /\ Running(g) /\ stage[g] = "cl_finish"
    /\ bufState' = IF bufState = "put" THEN "pool" ELSE bufState
    /\ reader' = "nil" /\ header' = "none" /\ closed' = TRUE
    /\ Return(g)
    /\ UNCHANGED <<wire, sent, peerEOF, taken, buf, connDeadline, stored, passed, once,
                   readErr, consumed, delivered, cfg, addr, orig, res, lreader, panicked>>

(* Mutant of CloseFinish: p.bufReader is left pointing at the pooled reader. *)
CloseFinishKeepField(g) ==
    /\ Running(g) /\ stage[g] = "cl_finish"
    /\ reader' = "nil" /\ closed' = TRUE
    /\ Return(g)
    /\ UNCHANGED <<wire, sent, peerEOF, taken, buf, bufState, connDeadline, stored, passed,
                   once, readErr, header, consumed, delivered, cfg, addr, orig, res, lreader, panicked>>

(* Close, last step: p.bufReader = nil (after a put); p.reader = nil;      *)
(* p.conn.Close().                                                          *)
CloseFinish(g) ==
    /\ Running(g) /\ stage[g] = "cl_finish"
    /\ bufState' = IF bufState = "put" THEN "pool" ELSE bufState
    /\ reader' = "nil" /\ closed' = TRUE
    /\ Return(g)
    /\ UNCHANGED <<wire, sent, peerEOF, taken, buf, connDeadline, stored, passed, once,
                   readErr, header, consumed, delivered, cfg, addr, orig, res, lreader, panicked>>

(* WriteTo(w): io.Copy(w, p.conn) (or ZeroCopy(p.conn, w)), one read of   *)
(* the socket per step until EOF or an error.                              *)
WriteTo(g) ==
    /\ Running(g) /\ Call(g) = "WriteTo" /\ stage[g] \in {"call", "copy"}
    /\ \E s \in SocketReads :
         /\ delivered' = delivered \o s.data
         /\ taken' = taken + Len(s.data)
         /\ IF s.err = "none"
            THEN stage' = [stage EXCEPT ![g] = "copy"] /\ UNCHANGED pc
            ELSE Return(g)
    /\ UNCHANGED <<wire, sent, peerEOF, buf, bufState, reader, connDeadline, stored,
                   passed, once, readErr, header, consumed, closed, cfg, addr, orig, res,
                   lreader, panicked>>

-----------------------------------------------------------------------------
(* The environment: the peer writes the wire and may stop at any point;    *)
(* time passes the installed or requested deadlines.                       *)

PeerSend ==
    /\ sent < Len(wire)
    /\ sent' = sent + 1
    /\ UNCHANGED <<wire, peerEOF, taken, buf, bufState, reader, connDeadline, stored,
                   passed, once, readErr, header, consumed, closed, delivered,
                   cfg, addr, locals, panicked>>

PeerClose ==
    /\ sent = Len(wire) /\ ~peerEOF
    /\ peerEOF' = TRUE
    /\ UNCHANGED <<wire, sent, taken, buf, bufState, reader, connDeadline, stored,
                   passed, once, readErr, header, consumed, closed, delivered,
                   cfg, addr, locals, panicked>>

Tick ==
    /\ ~panicked
    /\ \E d \in {connDeadline, stored} \ ({Zero} \cup passed) :
         passed' = passed \cup {d}
    /\ UNCHANGED <<wire, sent, peerEOF, taken, buf, bufState, reader, connDeadline,
                   stored, once, readErr, header, consumed, closed, delivered,
                   cfg, addr, locals, panicked>>

(* Every goroutine has returned, or the process crashed.                   *)
Terminated ==
    /\ (\A g \in Goroutines : stage[g] = "done") \/ panicked
    /\ UNCHANGED vars

-----------------------------------------------------------------------------
(* Where each goroutine is when it gets the Conn: about to make its first  *)
(* call, or done if it makes none.                                         *)
Started == [g \in Goroutines |-> IF Program[g] = <<>> THEN "done" ELSE "call"]

(* NewConn's state, with the goroutines at the given stages.              *)
InitWith(start) ==
    /\ wire \in Wires
    /\ sent = 0 /\ peerEOF = FALSE /\ taken = 0
    /\ buf = <<>> /\ bufState = "conn" /\ reader = "multi"
    /\ connDeadline = Zero /\ stored = Zero /\ passed = {}
    /\ once = "idle" /\ readErr = "none" /\ header = "none" /\ consumed = 0
    /\ closed = FALSE /\ delivered = <<>>
    /\ policy \in Policies /\ timeoutOn \in TimeoutOn /\ validate \in Validators
    /\ pc = [g \in Goroutines |-> 1]
    /\ stage = start
    /\ orig = [g \in Goroutines |-> Zero]
    /\ res = [g \in Goroutines |-> [err |-> "none", hdr |-> "none", eat |-> 0]]
    /\ lreader = [g \in Goroutines |-> "nil"]
    /\ panicked = FALSE
    /\ addr = "none"

Init == InitWith(Started)

Step(g) ==
    \/ OnceStart(g) \/ HeaderSetDeadline(g) \/ HeaderParse(g) \/ HeaderFinish(g)
    \/ ReadCall(g) \/ ReadIO(g) \/ AddrCall(g)
    \/ SetDeadlineStore(g) \/ SetDeadlineConn(g) \/ WriteTo(g)
    \/ CloseCheck(g) \/ ClosePut(g) \/ CloseFinish(g)

Next ==
    \/ \E g \in Goroutines : Step(g)
    \/ PeerSend \/ PeerClose \/ Tick
    \/ Terminated

(* Go's scheduler runs every runnable goroutine; real time passes every    *)
(* deadline.  The peer gets no fairness: it may go silent for ever.        *)
Fairness ==
    /\ \A g \in Goroutines : WF_vars(Step(g))
    /\ WF_vars(Tick)

Spec == Init /\ [][Next]_vars /\ Fairness

-----------------------------------------------------------------------------
TypeOK ==
    /\ wire \in Wires /\ sent \in 0..Len(wire) /\ peerEOF \in BOOLEAN
    /\ taken \in 0..sent
    /\ buf \in Seq(HeaderItems \cup Payload) /\ bufState \in {"conn", "put", "pool", "twice"}
    /\ reader \in {"multi", "direct", "nil"}
    /\ connDeadline \in Deadlines /\ stored \in Deadlines /\ passed \subseteq Deadlines
    /\ once \in {"idle", "running", "done"}
    /\ readErr \in Errors /\ header \in {"none", "proxy", "local"}
    /\ consumed \in 0..1 /\ closed \in BOOLEAN
    /\ delivered \in Seq(HeaderItems \cup Payload)
    /\ policy \in AllPolicies /\ timeoutOn \in BOOLEAN
    /\ pc \in [Goroutines -> Nat] /\ stage \in [Goroutines -> Stages]
    /\ orig \in [Goroutines -> Deadlines]
    /\ lreader \in [Goroutines -> {"multi", "direct", "nil"}]
    /\ panicked \in BOOLEAN /\ addr \in {"none", "header", "socket"}

(* The application receives the wire after the consumed header, in order,  *)
(* with no item lost or repeated: what bufReader buffered during the       *)
(* header read is returned before anything read later from the socket.     *)
PayloadInOrder ==
    delivered = SubSeq(wire, consumed + 1, consumed + Len(delivered))

(* readHeader restores the read deadline the user asked for: whenever no   *)
(* header read and no SetReadDeadline is in flight on an open Conn, the    *)
(* socket's deadline is the last one stored by SetReadDeadline.            *)
DeadlineRestored ==
    (/\ ~closed
     /\ \A g \in Goroutines : stage[g] \notin {"rh_read", "rh_finish", "sd_conn"})
    => connDeadline = stored

(* No goroutine still holds the MultiReader over bufReader once Close has  *)
(* reset that bufio.Reader and returned it to readerPool, where another    *)
(* connection may take it; and Close, however many goroutines call it,     *)
(* puts that reader into readerPool at most once (a second Put hands one   *)
(* bufio.Reader to two future connections).                                *)
ReleasedReaderUnused ==
    /\ bufState # "twice"
    /\ \A g \in Goroutines :
          (stage[g] = "io" /\ lreader[g] = "multi") => bufState = "conn"

(* No method of Conn dereferences the nil bufReader or reader that Close   *)
(* leaves behind.                                                          *)
NoNilDereference == ~panicked

(* The latch: once the header attempt has finished, p.header and           *)
(* p.readErr never change again, whichever method triggered it.            *)
HeaderLatched ==
    [][once = "done" => UNCHANGED <<header, readErr, consumed>>]_vars

(* With readHeaderTimeout > 0 a started header read always finishes, even  *)
(* when the peer never sends a byte.                                       *)
HeaderReadTerminates ==
    (once = "running" /\ timeoutOn) ~> (once = "done")

(* Spec 4.6: a Conn whose policy is SKIP never attempts to read a header, *)
(* so no part of the wire is ever consumed as one (readHeader applies no   *)
(* policy before calling Read).                                            *)
SkipNeverParses ==
    policy = "SKIP" => consumed = 0

-----------------------------------------------------------------------------
(* The Conn seen through the wrapper state machine of spec 4.7: Fresh     *)
(* until sync.Once has run readHeader, then Failed when p.readErr is set,  *)
(* HeaderRead when p.header is, Bypass otherwise.  The header and what it  *)
(* consumed become visible when the latch closes.                          *)
WrapperState ==
    CASE once # "done" -> "Fresh"
      [] readErr # "none" -> "Failed"
      [] header # "none" -> "HeaderRead"
      [] OTHER -> "Bypass"

Abstract == INSTANCE Interception
              WITH state <- WrapperState,
                   header <- IF once = "done" THEN header ELSE "none",
                   consumed <- IF once = "done" THEN consumed ELSE 0,
                   answer <- addr

(* The Conn implements the wrapper of spec 4.6/4.7 (Interception): one     *)
(* header attempt settles it under the policy table, exactly once whatever *)
(* goroutines race on Read and the address methods; no payload before it;  *)
(* afterwards the rest of the wire in order from just past the header,     *)
(* whether Read drains bufReader or reads the socket directly.             *)
ImplementsInterception == Abstract!Spec
====
