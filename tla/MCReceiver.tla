----------------------------- MODULE MCReceiver -----------------------------
(* Receiver in the small installations of MCFeSubscribe.                   *)
EXTENDS MCFeSubscribe, Receiver
=============================================================================
