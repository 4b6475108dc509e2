--------------------------- MODULE MCCommandText -----------------------------
(* An instance of CommandText: endings of up to five characters, with one   *)
(* text and two, quotes that are closed and quotes that are not.            *)
EXTENDS CommandText

MCTails ==
    { << >>, <<Space>>, <<"a">>,
      <<Space, "a">>, <<Space, "a", Space>>, <<Space, "a", Space, "b">>,
      <<Space, Space, "a", "b">>, <<Space, "a", Space, Quote>>,
      <<Space, Quote, "a", Quote>>, <<Space, Quote, "a", Space, "b">>,
      <<Space, Quote, Quote, "b">>, <<Space, Quote, "a", Quote, "b">>,
      <<Space, "a", Quote, "b">> }
MCReceived == {<<"a", "b", "a", "b", "a">>}
=============================================================================
