------------------------------ MODULE MCEngine ------------------------------
(* Engine on a small instance: see MCEngine.cfg, MCEngineMix.cfg and        *)
(* MCEngineCancel.cfg.                                                      *)
EXTENDS Engine
=============================================================================
