------------------------- MODULE MCWingFrameFaults --------------------------
EXTENDS WingFrameFaults

\* No payload, one byte, an escaped star, and a byte with its top bit set
\* next to a star; MaxPayload in the cfg lets two broken frames overflow.
MCPayloads == {<<>>, <<7>>, <<Star, 7>>, <<200, Star>>}

MCNoise == {7, Star, Esc, 200}
=============================================================================
