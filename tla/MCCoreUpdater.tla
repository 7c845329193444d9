---------------------------- MODULE MCCoreUpdater ----------------------------
(* The instance TLC explores: CoreUpdater.cfg gives the releases    *)
(* and the bounds their values.                                            *)
EXTENDS CoreUpdater
=============================================================================
