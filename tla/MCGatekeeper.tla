---------------------------- MODULE MCGatekeeper ----------------------------
(* Model of Gatekeeper for TLC: one specific and one broad rule of two     *)
(* classes, so that prompting order, broad-request handling and the        *)
(* policy-aware difference all occur.                                      *)
EXTENDS Gatekeeper, TLC

NetApi  == [kind |-> "network", pat |-> "api.example.com", port |-> "443"]
NetAll  == [kind |-> "network", pat |-> "*", port |-> "*"]
ExecLs  == [kind |-> "exec", pat |-> "/bin/ls", port |-> "-"]
ExecAll == [kind |-> "exec", pat |-> "**", port |-> "-"]

MCRules == {NetApi, NetAll, ExecLs, ExecAll}
MCRequiredChoices == {{}, {NetApi, ExecLs}, {NetAll, ExecLs}, {NetApi, ExecAll}}
MCLevels == {"strict", "standard", "permissive"}
MCStandard == {"standard"}

CONSTANTS h1, h2

MCProcs2 == {h1, h2}
MCProcs1 == {h1}
MCProcSymmetry == Permutations(MCProcs2)
================================================================================
