--------------------------- MODULE MCGroupExecution ---------------------------
(***************************************************************************)
(* Two messages in one mailbox, messages of two or three mailboxes, and    *)
(* messages of two mailboxes that had the same name.                       *)
(***************************************************************************)
EXTENDS GroupExecution

Id(b, v, u) == [mailbox |-> b, uidvalidity |-> v, uid |-> u]

MCSelections ==
  {{Id(1, 1, 1), Id(1, 1, 2)}, {Id(1, 1, 1), Id(2, 1, 1)}, {Id(1, 1, 1), Id(1, 2, 2)},
   {Id(1, 1, 1), Id(2, 1, 1), Id(3, 1, 2)}}

=============================================================================
