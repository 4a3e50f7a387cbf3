---------------------------- MODULE MCInformers ----------------------------
(* An instance of Informers: one namespace with one handle.                *)
EXTENDS Informers
CONSTANT A

MCHome == [c \in Clients |-> A]
=============================================================================
