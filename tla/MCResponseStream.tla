--------------------------- MODULE MCResponseStream ---------------------------
(***************************************************************************)
(* Small instances of ResponseStream.  The buffer has room for two small   *)
(* responses or for one large one, so that a handler must wait for space.  *)
(***************************************************************************)
EXTENDS ResponseStream

MCBufferSize == 112

\* Header-only responses and a response with a data segment of five bytes.
WellFramedLayouts == {HeaderOnlyLayout, PaddedLayout(5)}

\* Also a NOP-In with one byte of ping data (49 bytes, declared 52), the echo of
\* a Login header with four bytes of text (48 bytes, declared 52), and a final
\* Login response to a request with an additional header segment (56 bytes,
\* declared 60).
AllLayouts ==
  WellFramedLayouts \cup
  {NopInLayout(1), EchoedHeaderLayout(0, 4), EchoedHeaderDataLayout(4, 5)}

MCGarbageLengths == {48, 52, 100}

===============================================================================
