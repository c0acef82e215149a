------------------------------ MODULE MCStore ------------------------------
(* Values of the constants of ConfigStore for model checking.              *)
EXTENDS ConfigStore
=============================================================================
