------------------------------- MODULE MCHttp -------------------------------
(* TLC instances of Http.                                                  *)
EXTENDS Http

\* A status page, larger than the transmit buffer, and a short answer.
MCAnswerLen == [c \in Clients |-> IF c = "page" THEN TxCap + 1 ELSE 1]
=============================================================================
