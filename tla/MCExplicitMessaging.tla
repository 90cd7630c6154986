------------------------ MODULE MCExplicitMessaging ------------------------
(* An instance of ExplicitMessaging. *)
EXTENDS ExplicitMessaging

\* Short strings: none, the empty one, one cut off, the longest one cut off
\* and one followed by another byte.
MCDatas == {<<>>, <<0>>, <<2, 65>>, <<255, 65>>, <<1, 65, 66>>}
=============================================================================
