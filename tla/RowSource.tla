------------------------------ MODULE RowSource ------------------------------
(***************************************************************************)
(* What a squashed table promises to the engine for one partition: the     *)
(* rows of a fixed set, each once and in order, then io.EOF; or, at any    *)
(* moment, some other end.  io.EOF is never reported while a row is owed.  *)
(***************************************************************************)
EXTENDS Sequences, Naturals

CONSTANT Before(_, _)   \* the order of the rows

VARIABLES
  owed,     \* the rows of the table, fixed from the start
  out,      \* the rows returned
  status    \* "run", "eof", or another end

Given == {out[i] : i \in DOMAIN out}

Init ==
  /\ out = <<>>
  /\ status = "run"

Emit ==
  /\ status = "run"
  /\ \E r \in owed \ Given :
       /\ \A q \in owed \ Given : q = r \/ Before(r, q)
       /\ out' = Append(out, r)
  /\ UNCHANGED <<owed, status>>

EOF ==
  /\ status = "run"
  /\ owed \subseteq Given
  /\ status' = "eof"
  /\ UNCHANGED <<owed, out>>

Stop ==
  /\ status' \notin {"run", "eof"}
  /\ UNCHANGED <<owed, out>>

Next == Emit \/ EOF \/ Stop

Spec == Init /\ [][Next]_<<owed, out, status>>
=============================================================================
