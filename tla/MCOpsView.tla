----------------------------- MODULE MCOpsView -----------------------------
(* OpsView for TLC: a blotter and one other service.                        *)
EXTENDS OpsView, TLC

MCTargets == <<"pricing-service", "blotter-service">>
MCBlotter == "blotter-service"
=============================================================================
