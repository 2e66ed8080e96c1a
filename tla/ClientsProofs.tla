----------------------------- MODULE ClientsProofs -----------------------------
(* What MCClients makes of Pairing and Workspaces: its behaviours are ones  *)
(* of both, so that whatever is proved of them holds of what TLC explores.  *)
EXTENDS MCClients, PairingProofs, WorkspacesProofs

(* A scene of clients that pair is one of Pairing, a scene of clients that  *)
(* work is one of Workspaces, and each leaves the other's state alone.      *)
THEOREM ScenesPlayTheirParts == ClientsSpec => Spec /\ WorkspacesSpec
<1>1. ClientsInit => Init /\ WorkspacesInit
  BY DEF ClientsInit
<1>2. ASSUME [ClientsNext]_<<scene, vars, workspacesVars>>
      PROVE  [Next]_vars /\ [WorkspacesNext]_workspacesVars
  BY <1>2 DEF ClientsNext, PairingStep, WorkspacesStep
<1> QED
  BY <1>1, <1>2, PTL DEF ClientsSpec, Spec, WorkspacesSpec

(* The states of both are well formed in every scene.                       *)
THEOREM ClientsTypes == ClientsSpec => []ClientsTypeOK
<1>1. TypeOK /\ WorkspacesTypeOK => ClientsTypeOK
  BY DEF ClientsTypeOK
<1> QED
  BY <1>1, ScenesPlayTheirParts, PairingTypes, WorkspacesTypes, PTL
=============================================================================
