------------------------- MODULE MCTransportRestart -------------------------
(***************************************************************************)
(* The instance of TransportRestart: the pair of MCTransport.              *)
(***************************************************************************)
EXTENDS MCTransport, TransportRestart
=============================================================================
