--------------------------- MODULE MCWfsRequests ---------------------------
(* Three ids, three features of which one is hidden, an unknown feature, and *)
(* a handler of predefined data sets, which returns what any query returns.  *)
EXTENDS WfsRequests

MCFeatureDefs ==
    <<[type |-> "T1", ns |-> "n1", hidden |-> FALSE],
      [type |-> "T2", ns |-> "n1", hidden |-> FALSE],
      [type |-> "T3", ns |-> "n2", hidden |-> TRUE]>>

Handler(hidden, any, returns, sets) ==
    [hidden |-> hidden, any |-> any, returns |-> returns, datasets |-> sets]

MCHandlerConfigs ==
    {Handler(FALSE, FALSE, <<1, 2>>, <<>>), Handler(FALSE, FALSE, <<3, 1>>, <<>>),
     Handler(TRUE, FALSE, <<2>>, <<>>), Handler(TRUE, FALSE, <<9>>, <<>>),
     Handler(FALSE, FALSE, <<1, 9>>, <<>>), Handler(FALSE, TRUE, <<>>, <<"d1", "d2">>),
     Handler(FALSE, TRUE, <<>>, <<"d3", "d2">>)}
=============================================================================
