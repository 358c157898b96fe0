------------------------ MODULE MCWorkerConnections ------------------------
(* Instances of WorkerConnections for model checking. *)
EXTENDS WorkerConnections

CONSTANTS c1, c2, f, h, b, orders, w

Asks(op, fn) == [op |-> op, f |-> fn]
Tells        == [op |-> "announce", ns |-> orders, name |-> w]
Retires(c)   == [op |-> "reattach", previous |-> c]

Both(first, second) == [c \in Conn |-> IF c = c2 THEN second ELSE first]

\* f is a regular function, h and b are HTTP ones; the URL of b is refused.
\* A worker registers a function, announces itself and retires the function;
\* it reconnects with its token while its old connection is still there;
\* a rival wants its function, or its name; HTTP functions come and go, and
\* one is registered again with a URL that is refused while a rival wants it.
Handover ==
  {Both(<<Asks("register", f), Tells, Asks("unregister", f)>>, <<>>),
   Both(<<Asks("register", f), Tells>>, <<Retires(c1), Asks("register", f)>>),
   Both(<<Asks("register", f)>>, <<Asks("register", f)>>),
   Both(<<Tells>>, <<Tells>>),
   Both(<<Asks("register", h), Asks("unregister", h)>>, <<Asks("registerInvalid", b)>>),
   Both(<<Asks("register", h), Asks("registerInvalid", h)>>, <<Asks("register", h)>>)}
====
