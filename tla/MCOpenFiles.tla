---------------------------- MODULE MCOpenFiles ----------------------------
(***************************************************************************)
(* OpenFiles for TLC.  Clients and paths are model values of the cfg.  A   *)
(* buffer is referenced by a client, or by an entry of the table that some *)
(* client has open or is about to release, so as many buffers as clients   *)
(* are enough for every load to find a fresh one.                          *)
(***************************************************************************)
EXTENDS OpenFiles

(* The identities of buffers never run out while a load needs one.           *)
ASSUME Cardinality(Buffers) >= Cardinality(Clients)
=============================================================================
