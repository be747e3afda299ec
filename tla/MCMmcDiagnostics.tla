-------------------------- MODULE MCMmcDiagnostics -------------------------
(***************************************************************************)
(* Small instances of the block device under any client, and under the     *)
(* diagnostics; these run on media of two or three blocks, with a host      *)
(* whose commands and transfers may fail.                                  *)
(***************************************************************************)
EXTENDS MmcDiagnostics

CONSTANTS AnyLastBlocks, DiagnosticHosts

MCInit ==
  /\ DiagnosticsInit
  /\ client = "any" => /\ Media.LastBlock \in AnyLastBlocks
                      /\ HostFails \notin DiagnosticHosts
  /\ client = "diagnostics" => /\ Media.LastBlock \in {1, 2} /\ HostFails \in DiagnosticHosts
                               /\ req = CHOOSE r \in Request : r.BufferSize = 0

MCSpec ==
  /\ MCInit /\ [][DiagnosticsNext]_<<vars, diagnostics>>
  /\ WF_<<vars, diagnostics>>(Serve)
=============================================================================
