----------------------------- MODULE MCSources -----------------------------
(* An instance of KinesisSources: two users and a controller contend for   *)
(* the object of one namespace; a third user has a handle of another one.  *)
EXTENDS KinesisSources
CONSTANTS A, B, u1, u2, u3, ctl

MCHome == [c \in Clients |-> IF c = u3 THEN B ELSE A]
=============================================================================
