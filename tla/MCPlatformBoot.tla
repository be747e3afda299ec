---------------------------- MODULE MCPlatformBoot ----------------------------
(***************************************************************************)
(* Bounds of PlatformBoot for TLC.  The consoles and the boot options do   *)
(* not read each other, so a behaviour loses only writes of one kind and   *)
(* has only things of that kind deleted; resets cut both anywhere.         *)
(***************************************************************************)
EXTENDS PlatformBoot

VARIABLE fault \* what may fail and be deleted in this behaviour

MCInit == BootInit /\ fault \in {"consoles", "options"}

Kept == IF fault = "consoles" THEN options' = options ELSE con' = con

Within ==
  /\ \A w \in failed' : w[1] \in Variables <=> fault = "consoles"
  /\ at = at' /\ at \in {"running", "application"} => Kept
  /\ UNCHANGED fault

MCSpec ==
  MCInit /\ [][BootNext /\ Within]_<<bootVars, fault>> /\ WF_<<bootVars, fault>>(Step /\ Within)
=============================================================================
