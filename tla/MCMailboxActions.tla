--------------------------- MODULE MCMailboxActions ---------------------------
(***************************************************************************)
(* A path of three levels and one of two, for TLC: parents above parents,  *)
(* a mailbox that can be moved below another, and one with mailboxes below *)
(* it.                                                                     *)
(***************************************************************************)
EXTENDS MailboxActions, TLC

CONSTANTS s1, s2

MCNames == {<<1>>, <<1, 2>>, <<1, 2, 3>>, <<2>>, <<2, 3>>}
MCExisting == {<<2>>, <<2, 3>>}
Symmetry == Permutations(McpSessions)

=============================================================================
