---------------------------- MODULE MCSessionPool ----------------------------
(* SessionPool for TLC.  The limits cover a negative, zero, one and several  *)
(* supportable sessions, and user limits below, at and above them.           *)
EXTENDS SessionPool

FdValues      == {0, 1, 4, 6, 7, 10, 13, 16, 18}
SystemValues  == 1..20
SessionValues == {0, 1, 2, 3, 5}
=============================================================================
