----------------------------- MODULE MCCarNames -----------------------------
(***************************************************************************)
(* CarNames for TLC: two cars, a legacy file and none, a TeslaMate without *)
(* a namespace and another one, on the same broker, that has one.          *)
(***************************************************************************)
EXTENDS CarNames

SomeTopics ==
  {<<"teslamate", "cars", "1", "display_name">>,
   <<"teslamate", "cars", "2", "model">>,
   <<"teslamate", "home", "cars", "1", "display_name">>}

Legacy == [Absent EXCEPT !.kind = "legacy",
                         !.cars["1"]["display_name"] = "old",
                         !.cars["2"]["display_name"] = "old"]

SomeFiles == {Absent, Legacy}
=============================================================================
