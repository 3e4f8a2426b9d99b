-------------------------- MODULE MCTerminalManager ----------------------------
(* Small instances of the terminal manager: a thread for each terminal.    *)
EXTENDS TerminalManager

CONSTANTS t1, t2, h1, h2

OneEach == [t \in {t1, t2} |-> IF t = t1 THEN h1 ELSE h2]
=============================================================================
