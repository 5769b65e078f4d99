------------------------- MODULE MCDatabaseInstance -------------------------
(* DatabaseInstance with the operations its configurations share.          *)
EXTENDS DatabaseInstance, TLC

CONSTANTS p, s, t, u, r

Kind == (p :> "provision") @@ (s :> "stop") @@ (t :> "restart") @@ (u :> "upgrade")
          @@ (r :> "restore_deleted")
KindOfOps == [o \in Ops |-> Kind[o]]
=============================================================================
