----------------------- MODULE MCAuxiliaryProcessProxy -----------------------
(* Instances of AuxiliaryProcessProxy for TLC: two messages with a reply, a   *)
(* plain one, and a load request made while the process is being launched.    *)
EXTENDS AuxiliaryProcessProxy

AllMessages == {"prepare", "evaluate", "load"}
RepliedMessages == {"prepare", "evaluate"}
Loads == {"load"}
=============================================================================
