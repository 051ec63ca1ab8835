-------------------------- MODULE MCOutboundQueue --------------------------
(* OutboundQueue with its constants given by the cfg files. *)
EXTENDS OutboundQueue
=============================================================================
