---------------------------- MODULE MCFilterStore ----------------------------
(***************************************************************************)
(* What the web UI keeps: profiles and filters, passkeys and sessions, the *)
(* answers of GraphManager, and the transfer function that is watched.     *)
(***************************************************************************)
EXTENDS FilterStore, Auth, FilterChainStatus, TransferFunction, TLC

(* One profile with a speaker whose channel has a standard name and one    *)
(* whose has not.                                                          *)

MCSuffix == "sat" :> "hp" @@ "hf" :> "hf"

--------------------------------------------------------------------------------
(* One of them is run, with the others at their start: they share nothing. *)

VARIABLE process

MCInit ==
  /\ FilterInit /\ AuthInit /\ StatusInit /\ TransferInit
  /\ process \in {"filters", "auth", "status", "transfer"}
  /\ process # "filters" => conf = Gone /\ \E n \in Name : n.ts = 0 /\ coeffs[n] = "good"
  /\ process # "auth" => Registered = {}

MCNext ==
  /\ UNCHANGED process
  /\ \/ process = "filters" /\ FilterNext /\ UNCHANGED <<authVars, statusVars, tfnVars>>
     \/ process = "auth" /\ AuthNext /\ UNCHANGED <<storeVars, statusVars, tfnVars>>
     \/ process = "status" /\ StatusNext /\ UNCHANGED <<storeVars, authVars, tfnVars>>
     \/ process = "transfer" /\ TransferNext /\ UNCHANGED <<storeVars, authVars, statusVars>>

MCSpec == MCInit /\ [][MCNext]_<<storeVars, authVars, statusVars, tfnVars, process>>

CredentialSymmetry == Permutations(Credential)

================================================================================
