---------------------------- MODULE MCPnlcDemux -----------------------------
EXTENDS PnlcDemux

\* A stock 'p' frame with a star in its payload, a button, a report that may
\* continue, one that does, one that ends in the star form, a touch
\* report, one with a star in it, and a release.
MCMessages ==
  {Event("frame", <<112, Star, 200>>),
   Event("raw", <<Star, Button, 3, 1>>),
   Event("raw", <<Star, 44, 1, 37>>),
   Event("raw", <<Star, 172, 64, 37, 120>>),
   Event("raw", <<Star, 23, 1, Star, 120>>),
   Event("touch", <<65, 16, 32, 48>>),
   Event("touch", <<65, 16, Star, 7>>),
   Event("touch", <<1>>)}
=============================================================================
