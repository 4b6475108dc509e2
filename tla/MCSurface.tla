----------------------------- MODULE MCSurface ------------------------------
(* Two LEDs in the strips and one in each other group, and two levels that  *)
(* a command sets both of, or one.                                          *)
EXTENDS Surface

MCLeds == [g \in LedGroups |-> IF g = "strip" THEN 2 ELSE 1]
MCDials == <<"led", "lamp">>
MCSettings == {<<0, 0>>, <<50, Keep>>}
=============================================================================
