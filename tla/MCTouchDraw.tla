---------------------------- MODULE MCTouchDraw -----------------------------
EXTENDS TouchDraw

\* A panel speaks one of the protocols.
MCOneProtocol == {{"stock"}, {"raw"}}

\* A panel mixes them.
MCBoth == {{"stock", "raw"}}

\* The panel's frames are what wing_send_frame makes of their payloads.
ASSUME FramesAreUnits ==
  LET frame(cmd, payload) == FlattenSeq(Units([cmd |-> cmd, payload |-> payload])) IN
  /\ \A phase \in {0, 16, 32}, x \in 0 .. 8 \union {42, 298, 799, 4096}, y \in Rows \union {0, 9, 42} :
       PointFrame(phase, x, y) =
         frame(PointCmd, <<phase, x % 256, x \div 256, y % 256, y \div 256>>)
  /\ \A state \in {0, 1} : StateFrame(state) = frame(StateCmd, <<0, state>>)
=============================================================================
