---------------------------- MODULE LiveBufferSize -----------------------------
(***************************************************************************)
(* The parameters of LiveBuffer, shared with the session that feeds one.    *)
(***************************************************************************)
EXTENDS Integers

CONSTANTS Depth,        \* slots of a LiveBuffer's ring, a power of two
          MaxPushes     \* bound on the pushes into it, for TLC

ASSUME BufferAssumption ==
    /\ Depth \in Nat \ {0}
    /\ MaxPushes \in Nat
=============================================================================
