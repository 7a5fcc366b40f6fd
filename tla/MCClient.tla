------------------------------ MODULE MCClient ------------------------------
(* Client.tla for TLC: the message layouts that recv() tells apart. *)
EXTENDS Client

CONSTANTS k1, k2

Good == [len |-> 3, reserved |-> 0, sizesOk |-> TRUE, cookieLen |-> 0, nfds |-> 2]
WithCookie == [Good EXCEPT !.len = 4, !.cookieLen = 1]
HeaderOnly == [Good EXCEPT !.len = 1]
NoResponse == [Good EXCEPT !.len = 2]
Empty == [Good EXCEPT !.len = 0]
CutOff == [Good EXCEPT !.len = 6, !.cookieLen = 3]
LongCookie == [Good EXCEPT !.cookieLen = 1]

SomeShapes == {Good, NoResponse, Empty, [Good EXCEPT !.nfds = 1]}
MoreShapes == {Good, WithCookie, HeaderOnly, NoResponse, Empty, CutOff, LongCookie,
               [Good EXCEPT !.reserved = 1], [Good EXCEPT !.sizesOk = FALSE],
               [Good EXCEPT !.nfds = 0], [Good EXCEPT !.nfds = 1],
               [Good EXCEPT !.nfds = 3]}
HungCall == {<<k2, 1>>}
=============================================================================
