--------------------------- MODULE MCConsoleLoop ----------------------------
EXTENDS ConsoleLoop, SequencesExt

\* A stock 'p' frame with a star in its payload, a report that may continue
\* and a touch report.
MCMessages ==
  {Event("frame", <<112, Star, 200>>),
   Event("raw", <<Star, 151, 1, 37>>),
   Event("touch", <<129, 16>>)}

\* The bytes of a frame are those that wing_send_frame puts in its buffer.
ASSUME WireIsUnits ==
  \A n \in 0 .. 4 : \A s \in [1 .. n -> {1, Star, Esc, 200}] :
    Wire(Event("frame", <<112>> \o s)) = FlattenSeq(Units([cmd |-> 112, payload |-> s]))
=============================================================================
