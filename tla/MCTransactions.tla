--------------------------- MODULE MCTransactions ---------------------------
(* An INVITE and another request of peers, an INVITE and another of this   *)
(* worker; either kind of a peer alone, or those of the worker together.   *)
EXTENDS Transactions

CONSTANTS invite, info, leg

Theirs == {invite, info}
Ours == {leg}
BothInvites == {invite, leg}
Apart == {{invite}, {info}, {leg}}
=============================================================================
