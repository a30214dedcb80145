----------------------------- MODULE MCFraming -----------------------------
(***************************************************************************)
(* An instance of Framing for TLC.  Login and ping as the stress client    *)
(* sends them (63 and 3 bytes in the program), a type the server does not  *)
(* know, and a size below that of the header.                              *)
(***************************************************************************)
EXTENDS Framing

Ping == [size |-> 3, type |-> CS_PingTest]
Login == [size |-> 5, type |-> CS_Login]
Unknown == [size |-> 6, type |-> 9]
Short == [size |-> 2, type |-> CS_PingTest]

MCScripts == {<<Login, Ping, Ping>>, <<Ping, Unknown, Ping>>, <<Ping, Short>>, <<Ping, Ping, Ping, Ping>>}
=============================================================================
