--------------------------- MODULE MCInvocations ---------------------------
(* An instance of Invocations for model checking. *)
EXTENDS Invocations

CONSTANTS c1, c2, i1

\* c1 calls a function of c2, which also serves a call of the engine or calls
\* itself.
ToSecond == [i \in Inv |-> c2]
Pairs    == {[i \in Inv |-> IF i = i1 THEN c1 ELSE other] : other \in {Engine, c2}}
====
