------------------------------ MODULE MCSession ------------------------------
(* Session for TLC; the other constants are given in the MCSession*.cfg      *)
(* files.  The bounds below say how many bytes each peer may send on one     *)
(* connection: three exceed a buffer of two, so a buffer fills, is partly    *)
(* drained and fills again.                                                  *)
EXTENDS Session

ThreeEach == [client |-> 3, member |-> 3, clone |-> 0]
ForClone  == [client |-> 3, member |-> 1, clone |-> 1]
TwoEach   == [client |-> 2, member |-> 2, clone |-> 0]

\* No action reads the count of leaked sockets: states that differ only in it
\* behave alike.
WithoutLeaked ==
  <<state, fds, buffers, interest, c, queued, loop, conn, wire, life>>
=============================================================================
