----------------------------- MODULE MCEndpoints -----------------------------
(* The two ends of a request: the handlers of the inbound side, a dial     *)
(* through a native node, dials through Hysteria nodes.  They share no     *)
(* state, so a behaviour is one of the three.                              *)
EXTENDS Server, Handshake, Hysteria, TLC

VARIABLE part   \* which of the three moves

endpointsVars == <<serverVars, handshakeVars, hysteriaVars, part>>

EndpointsInit ==
    /\ ServerInit
    /\ HandshakeInit
    /\ HysteriaInit
    /\ part \in {"server", "dial", "hysteria"}
    /\ part # "dial" => node = [kind |-> "http", auth |-> FALSE]

EndpointsNext ==
    /\ \/ part = "server" /\ ServerNext /\ UNCHANGED <<handshakeVars, hysteriaVars>>
       \/ part = "dial" /\ HandshakeNext /\ UNCHANGED <<serverVars, hysteriaVars>>
       \/ part = "hysteria" /\ HysteriaNext /\ UNCHANGED <<serverVars, handshakeVars>>
    /\ UNCHANGED part

EndpointsSpec ==
    EndpointsInit /\ [][EndpointsNext]_endpointsVars /\ ServerFairness

\* Every variable of the handlers and of the dials keeps its type; the bounds
\* of the backoff and of the answer's header are part of it.
EndpointsTypeOK == ServerTypeOK /\ HandshakeTypeOK /\ HysteriaTypeOK
=============================================================================
