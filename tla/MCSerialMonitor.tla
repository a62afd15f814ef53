--------------------------- MODULE MCSerialMonitor ---------------------------
(***************************************************************************)
(* Small instances of SerialMonitor: a client that ends the monitor and    *)
(* one that does not, and sockets that one unread chunk fills.             *)
(***************************************************************************)
EXTENDS SerialMonitor

CONSTANTS rs485, occupancy

MCClients == {rs485, occupancy}
MCExits == {rs485}
==============================================================================
