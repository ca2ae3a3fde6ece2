---------------------------- MODULE MCPacketiser ----------------------------
(* TLC instances of Packetiser, with the sizes of the hardware where the   *)
(* runs allow it.                                                          *)
EXTENDS Packetiser

\* The words of entries given as <<time, number of primitives>>.
Words(l) ==
  LET f[i \in 0 .. Len(l)] == IF i = 0 THEN <<>> ELSE f[i - 1] \o Entry(l[i][1], l[i][2])
  IN  f[Len(l)]

\* Single entries around the length of a line, pairs in consecutive frames up
\* to the longest entry, pairs with a frame between them.  Every entry has a
\* primitive and a time above 0: a zero word is a timestamp that is due at frame
\* OFFSET, so that an empty list fills bufferfifo with zeros.
AllLists ==
  {Words(l) : l \in
     {<< <<1, c>> >> : c \in {1, 2, 3, 6, 7, 8, 9, 15, 16, 255}}
     \cup {<< <<1, a>>, <<2, b>> >> : a, b \in {1, 2, 7, 255}}
     \cup {<< <<1, a>>, <<3, b>> >> : a \in {1, 8}, b \in {1, 6, 7, 8}}}

\* One entry, shorter or longer than a line.
ShortLists == {Words(<< <<1, c>> >>) : c \in {1, 2, 3}}

=============================================================================
