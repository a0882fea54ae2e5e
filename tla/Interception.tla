---------------------------- MODULE Interception ----------------------------
(***************************************************************************)
(* What an interception wrapper promises (spec.md 4.6 and 4.7), with no   *)
(* goroutines, buffers or deadlines: a Conn is Fresh until one header      *)
(* attempt settles it, once, into HeaderRead, Bypass or Failed, following  *)
(* the policy table; after that the application receives the rest of the *)
(* wire, in order, from just after what the attempt consumed, and only in *)
(* HeaderRead or Bypass.                                                   *)
(*                                                                         *)
(* The header may be absent from the attempt's point of view even when it  *)
(* is on the wire: the peer may not have sent it before the header         *)
(* deadline or its FIN, and the spec then treats the stream as plain.      *)
(***************************************************************************)
EXTENDS Naturals, Sequences

CONSTANTS Wires, Policies, Validators

VARIABLES
    wire,       \* the items the peer writes
    policy,     \* the Conn's ProxyHeaderPolicy
    validate,   \* the Validate hook's verdict on any header
    state,      \* "Fresh", "HeaderRead", "Bypass", "Failed"
    header,     \* the header retained: "none", "proxy", "local"
    consumed,   \* wire items the attempt consumed as a header
    delivered,  \* items the application has received as payload
    answer      \* the address the last LocalAddr/RemoteAddr returned

vars == <<wire, policy, validate, state, header, consumed, delivered, answer>>

First == IF wire = <<>> THEN "none" ELSE wire[1]

HeaderOf(item) == IF item = "HdrProxy" THEN "proxy" ELSE "local"

Init ==
    /\ wire \in Wires /\ policy \in Policies /\ validate \in Validators
    /\ state = "Fresh" /\ header = "none" /\ consumed = 0 /\ delivered = <<>>
    /\ answer = "none"

(* A well-formed header is read: the policy table's left column.           *)
ReadHeader ==
    /\ state = "Fresh" /\ First \in {"HdrProxy", "HdrLocal"}
    /\ consumed' = 1
    /\ CASE policy \in {"USE", "REQUIRE"} /\ validate # "reject" ->
              state' = "HeaderRead" /\ header' = HeaderOf(First)
         [] policy = "IGNORE" -> state' = "Bypass" /\ UNCHANGED header
         [] OTHER -> state' = "Failed" /\ UNCHANGED header

(* No header arrives (absent, or not before the deadline or EOF): the     *)
(* right column; nothing is consumed.                                      *)
NoHeader ==
    /\ state = "Fresh"
    /\ state' = IF policy = "REQUIRE" THEN "Failed" ELSE "Bypass"
    /\ UNCHANGED <<header, consumed>>

(* A malformed header, or an I/O error other than the header deadline     *)
(* (a closed socket, a deadline the caller set): the attempt fails.        *)
Fail ==
    /\ state = "Fresh"
    /\ state' = "Failed"
    /\ consumed' \in IF First = "HdrBad" THEN {0, 1} ELSE {0}
    /\ UNCHANGED header

(* The application reads the next items after the header.                 *)
Deliver ==
    /\ state \in {"HeaderRead", "Bypass"}
    /\ LET next == consumed + Len(delivered)
       IN \E k \in 1..(Len(wire) - next) :
            delivered' = delivered \o SubSeq(wire, next + 1, next + k)
    /\ UNCHANGED <<state, header, consumed>>

(* An address query once settled: in HeaderRead the header's source or    *)
(* destination, unless its command is LOCAL; the socket's otherwise.       *)
QueryAddr ==
    /\ state # "Fresh"
    /\ answer' = IF state = "HeaderRead" /\ header = "proxy" THEN "header" ELSE "socket"
    /\ UNCHANGED <<state, header, consumed, delivered>>

Next ==
    \/ (ReadHeader \/ NoHeader \/ Fail) /\ UNCHANGED <<wire, policy, validate, delivered, answer>>
    \/ Deliver /\ UNCHANGED <<wire, policy, validate, answer>>
    \/ QueryAddr /\ UNCHANGED <<wire, policy, validate>>

Spec == Init /\ [][Next]_vars
====
