-------------------------- MODULE MCPublishTracker --------------------------
(* A small tracker for TLC: three attempts race for two slots, with one     *)
(* spare sequence number and token so that keys are both reused and shared. *)
EXTENDS PublishTracker
=============================================================================
