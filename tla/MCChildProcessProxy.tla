------------------------ MODULE MCChildProcessProxy ------------------------
(* Three calls on one proxy: enough for replies in another order than the  *)
(* calls, and for a call made while two others are being settled.          *)
EXTENDS ChildProcessProxy

CONSTANTS c1, c2, c3

ThreeCalls == {c1, c2, c3}
=============================================================================
