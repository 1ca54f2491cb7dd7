------------------------------- MODULE MCGateway -------------------------------
(* Gateway with a few routes, two of which match the same paths. *)
EXTENDS Gateway

MCPieces == {"/", "a", "b", "x"}
Slash == <<"/">>
A == <<"/", "a">>
AB == <<"/", "a", "/", "b">>
MCPaths == {A, AB}

\* A full match route to weighted hosts, one of them without a weight.
Weighed == [match |-> "full", path |-> A, source |-> "", target |-> "domain",
            targets |-> <<[host |-> "h1", weight |-> 0], [host |-> "h2", weight |-> 2]>>,
            lb |-> "weighted_round_robin", rewrite |-> "copyFullPath", replace |-> <<>>,
            mockValid |-> FALSE, needAuth |-> TRUE, auth |-> "http"]
TurnRoute == [Weighed EXCEPT !.match = "prefix", !.lb = "round_robin",
                          !.rewrite = "stripPrefix", !.needAuth = FALSE, !.auth = "nil"]
Discovered == [TurnRoute EXCEPT !.path = Slash, !.target = "discovery", !.targets = <<>>,
                             !.rewrite = "replaceAny", !.replace = <<"x">>,
                             !.needAuth = TRUE, !.auth = "func"]
Mocked == [Discovered EXCEPT !.match = "full", !.path = AB, !.target = "mock",
                             !.mockValid = TRUE, !.needAuth = FALSE]
NoAuthConfig == [Discovered EXCEPT !.auth = "nil"]

\* Three that AddRouter refuses.
NoTargets == [Weighed EXCEPT !.targets = <<>>]
NoHost == [Weighed EXCEPT !.targets = <<[host |-> "", weight |-> 1]>>]
ByHeader == [Discovered EXCEPT !.match = "expr", !.path = <<>>, !.source = "header"]

MCConfigs == {Weighed, TurnRoute, Discovered, Mocked, NoAuthConfig, NoTargets, NoHost, ByHeader}
===============================================================================
