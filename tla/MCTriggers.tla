----------------------------- MODULE MCTriggers -----------------------------
(* Instances of Triggers for TLC. *)
EXTENDS Triggers, TLC

HomeAndDefault == ("h1" :> Home) @@ ("d1" :> Default)
BothHome == ("h1" :> Home) @@ ("h2" :> Home)
Times(r, u, a, t, c, j, f, x) ==
    [register |-> r, unregister |-> u, announce |-> a, retire |-> t, close |-> c,
     reject |-> j, fail |-> f, cancel |-> x]
(* A binding replaced while providers come and one retires; one removed     *)
(* while a connection ends and a call fails; while a provider retires and a *)
(* caller is dropped; while a provider rejects it and a caller is dropped.  *)
Scenarios ==
    {Times(2, 0, 2, 1, 0, 0, 0, 0), Times(1, 1, 2, 0, 1, 0, 1, 0),
     Times(1, 1, 2, 1, 0, 0, 0, 1), Times(1, 1, 2, 0, 0, 1, 0, 1)}
(* Two providers of one namespace, the first of which goes. *)
Replacement == {Times(1, 0, 2, 0, 1, 0, 0, 0)}
=============================================================================
