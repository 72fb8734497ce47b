---------------------------- MODULE MCGetFeature ----------------------------
\* Small instances of GetFeature for TLC.
EXTENDS GetFeature, TLC

CONSTANTS a, b, d, e

MCIds == {a, b, d, e}

\* d is a data set query that leads to e or nowhere; e leads to a, or back
\* to d and so round in a circle.
MCRedirects == a :> {} @@ b :> {} @@ d :> {e, NoId} @@ e :> {a, d}

\* No query, a redirected one, and two.
MCAsks == {[kind |-> "GetFeature", asked |-> <<>>],
           [kind |-> "GetPropertyValue", asked |-> <<d>>],
           [kind |-> "GetFeature", asked |-> <<a, b>>]}

MCPlain == {[kind |-> "GetFeature", asked |-> <<a>>]}

MCNowhere == [i \in MCIds |-> {}]
=============================================================================
