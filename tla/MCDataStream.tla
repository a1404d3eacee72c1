---------------------------- MODULE MCDataStream ----------------------------
(* Instances of DataStream: the configurations of the connections. *)
EXTENDS DataStream

CONSTANTS a, b

Pair(x, y) == [i \in {a, b} |-> IF i = a THEN x ELSE y]

(* Two ports share the count of attempts; a port feeds a TCP client and is  *)
(* fed by it; an output-only client is fed by gpsd.                         *)
MCSetups == {Pair("serial", "serial"), Pair("serial", "tcp"), Pair("tcpOut", "gpsd")}
=============================================================================
