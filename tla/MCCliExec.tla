------------------------------ MODULE MCCliExec ------------------------------
(***************************************************************************)
(* CliExec with lines of one or two bytes against caps of one byte         *)
(* (stdout) and two (stderr), and pipes that hold one line.                *)
(***************************************************************************)
EXTENDS CliExec

Line(n, bytes, match) == [id |-> n, bytes |-> bytes, match |-> match]
Lines(n) == {Line(n, bytes, match) : bytes \in 1..2, match \in BOOLEAN}
Stdouts == {<<a, b, c>> : a \in Lines(1), b \in Lines(2), c \in Lines(3)}
Stderrs == {<<Line(1, 1, TRUE)>>, <<Line(1, 1, TRUE), Line(2, 2, TRUE)>>}
MCOutputs == {[s \in Streams |-> IF s = "out" THEN o ELSE e] : o \in Stdouts, e \in Stderrs}
MCCap == [s \in Streams |-> IF s = "out" THEN 1 ELSE 2]
=============================================================================
