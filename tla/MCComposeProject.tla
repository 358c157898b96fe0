-------------------------- MODULE MCComposeProject --------------------------
(* Instances of ComposeProject for TLC. *)
EXTENDS ComposeProject, TLC

Chain == <<"web", "api", "db">>
ChainAfter == ("db" :> {}) @@ ("api" :> {"db"}) @@ ("web" :> {"api"})
ChainPolicy == ("db" :> "no") @@ ("api" :> "on-failure") @@ ("web" :> "always")
Times(o, e, r) == [ops |-> o, exits |-> e, reconnects |-> r]
(* Two operations around one exit, two exits around one operation, and one   *)
(* of each with a reconnect.                                                 *)
Scenarios == {Times(2, 1, 0), Times(1, 2, 0), Times(1, 1, 1)}
TwoOperations == {Times(2, 1, 0)}
=============================================================================
