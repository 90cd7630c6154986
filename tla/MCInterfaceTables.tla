------------------------- MODULE MCInterfaceTables -------------------------
(* Instances of InterfaceTables: YAML files with the cases that matter. *)
EXTENDS InterfaceTables

Entry(name, inputs, outputs, fault) ==
  [name |-> name, inputs |-> inputs, outputs |-> outputs, fault |-> fault]

\* Fields of one device bear the names of the other's, in other positions.
Drive  == Entry(<<"drive">>, <<<<"pos">>, <<"ok">>>>, <<<<"pos">>>>, "none")
Valve  == Entry(<<"valve">>, <<<<"ok">>>>, <<<<"open">>, <<"pos">>>>, "none")
Lamp   == Entry(<<"lamp">>, <<>>, <<<<"on">>>>, "none")
\* "a" has a field "b/ok" and "a/b" a field "ok": the keys are the same.
Slash  == Entry(<<"a">>, <<<<"b", "ok">>, <<"pos">>>>, <<<<"pos">>>>, "none")
Slash2 == Entry(<<"a", "b">>, <<<<"ok">>>>, <<<<"pos">>, <<"pos">>>>, "none")
Faulty(entry, fault) == [entry EXCEPT !.fault = fault]

MCFiles == {
  <<Drive, Valve>>, <<Lamp, Drive, Valve>>, <<Drive, Drive>>, <<Slash, Slash2>>,
  <<Drive, Faulty(Valve, "entry")>>, <<Drive, Faulty(Valve, "plugin"), Lamp>>,
  <<Faulty(Drive, "plugin")>>, <<>>}
=============================================================================
