---------------------------- MODULE MCConnection ----------------------------
(***************************************************************************)
(* Connection for TLC.  The buffer grows from 4 to 5; a length of 3 or     *)
(* more takes two bytes.  A body of 3 fills the buffer to its limit in the *)
(* json_cbor encoding, one of 5 is too big in both, and the socket holds   *)
(* one message and a half.  An int holds two digits; with a third the build*)
(* extends the sign of the second.  The body of 5 has the bytes of such a  *)
(* number in it, one whose total is 0, for the case that the server reads  *)
(* from its middle.                                                        *)
(***************************************************************************)
EXTENDS Connection

HelloBody == <<3>>
SomeBodies == {<<2>>, <<2, 3, 1>>, <<1, 3, 5, 1, 2>>}
SignExtended(d) == SizeValues - Base * Base + (d[1] % Base) + Base * (d[2] % Base)
=============================================================================
