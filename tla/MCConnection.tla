---------------------------- MODULE MCConnection ----------------------------
(* Values of Connection's constants for model checking.                    *)
EXTENDS Connection, TLC

CONSTANTS c1, c2, b1

(* Nothing but the limits; everything on, with an entry that does not      *)
(* parse; a list of allowed networks with an exception.                    *)
ThreeRules == {
    [tls |-> FALSE, backendTls |-> FALSE, proxyProtocol |-> FALSE,
     limits |-> Maps, allow |-> <<>>, deny |-> <<>>],
    [tls |-> TRUE, backendTls |-> TRUE, proxyProtocol |-> TRUE,
     limits |-> {"client", "backend"}, allow |-> <<Unparsable>>,
     deny |-> <<Single(2)>>],
    [tls |-> FALSE, backendTls |-> FALSE, proxyProtocol |-> TRUE,
     limits |-> {"rate"}, allow |-> <<Unparsable, Cidr(3, 1), Single(2)>>,
     deny |-> <<Cidr(3, 2)>>]}
=============================================================================
