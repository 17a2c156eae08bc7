--------------------------- MODULE MCBblfshSession ---------------------------
(* Two goroutines.  Each holds at most one client and the session one more, so
   four clients are enough for a new one to be always at hand. *)
EXTENDS BblfshSession

CONSTANTS p1, p2, c1, c2, c3, c4, nil

MCProc == {p1, p2}
MCClient == {c1, c2, c3, c4}
MCNone == nil
=============================================================================
