---------------------------- MODULE MCWingFrame -----------------------------
EXTENDS WingFrame

\* One ordinary byte, the star, the escape byte and a byte with its top bit set.
MCBytes == {7, Star, Esc, 200}

\* Every payload of up to three of them; MaxPayload in the cfg is 2, so the
\* longest ones are the payloads that wing_send_frame refuses.
MCPayloads == UNION { [1 .. n -> MCBytes] : n \in 0 .. 3 }
=============================================================================
