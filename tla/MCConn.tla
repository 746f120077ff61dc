-------------------------------- MODULE MCConn --------------------------------
(***************************************************************************)
(* Buffers of one byte that grow to two and to three, their limit.         *)
(***************************************************************************)
EXTENDS Conn
=============================================================================
