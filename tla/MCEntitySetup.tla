----------------------------- MODULE MCEntitySetup -----------------------------
\* Three entities, two trust anchors, and orders in which each way to ask for something
\* occurs: defaults, nothing, names that are unknown, descriptions of the caller's, arguments,
\* every way to hand over trust anchors, and clients and servers of both kinds.
EXTENDS EntitySetup

CONSTANTS ta, other, empty, one, both

McAnchors == {ta, other}
McContents == [d \in {empty, one, both} |->
                 IF d = one THEN {ta} ELSE IF d = both THEN {ta, other} ELSE {}]
McItems == [service |-> {"entity_statement"},
            function |-> {"trust_chain_collector", "verifier"},
            endpoint |-> {"fetch", "status", "mark"}]
McDefaults == [service |-> {"entity_statement"},
               function |-> {"trust_chain_collector", "verifier"},
               endpoint |-> {"fetch"}]

Said(n, v) == [m \in Names |-> IF m = n THEN [p \in Params |-> v] ELSE NoArgs]
Unsaid == [m \in Names |-> NoArgs]
McDefault ==
  [items |-> [k \in Kinds |-> Nothing], own |-> {}, init |-> Unsaid, args |-> Unsaid,
   anchors |-> Nothing, hand |-> "none", guise |-> Nothing, mark_endpoints |-> {}]
Guise(class, type, stated, argument, services) ==
  [class |-> class, type |-> type, stated |-> stated, argument |-> argument,
   services |-> services]
Given(o, anchors, hand) == [o EXCEPT !.anchors = anchors, !.hand = hand]
As(o, g) == [o EXCEPT !.guise = g]

McOrders ==
  {McDefault,
   Given(McDefault, one, "make"),
   Given(McDefault, one, "init"),
   Given(McDefault, empty, "make"),
   Given(McDefault, both, "init"),
   [McDefault EXCEPT !.items["service"] = {}],
   Given([McDefault EXCEPT !.items = [service |-> {}, function |-> {"verifier"},
                                      endpoint |-> {"fetch"}]], one, "make"),
   [McDefault EXCEPT !.items["service"] = {"?"}, !.items["endpoint"] = {"fetch", "status"},
                     !.init = Said("fetch", "x"), !.args = Said("fetch", "y")],
   [McDefault EXCEPT !.items["endpoint"] = {"fetch"}, !.own = {"fetch"},
                     !.args = Said("fetch", "x")],
   [McDefault EXCEPT !.items["function"] = {"?"}],
   [As(McDefault, Guise("client", "oauth_client", "", "", TRUE))
      EXCEPT !.mark_endpoints = {"mark"}],
   As(McDefault, Guise("client", "rp", "", "oauth2", FALSE)),
   As(McDefault, Guise("client", "oauth_client", "", "", FALSE)),
   As(McDefault, Guise("server", "openid_provider", "", "", TRUE)),
   As(McDefault, Guise("server", "op", "", "", TRUE))}
=============================================================================
