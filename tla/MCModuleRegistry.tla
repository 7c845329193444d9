--------------------------- MODULE MCModuleRegistry ---------------------------
(* Two versions of one module.                                               *)
EXTENDS ModuleRegistry

=============================================================================
