----------------------------- MODULE MCTenantStore -----------------------------
(* Instances of TenantStore for TLC. *)
EXTENDS TenantStore

(* Two keys with one label, one minted by the API and one by the CLI, and   *)
(* the request that revokes the label; a second tenant added, extracted and *)
(* removed meanwhile.                                                       *)
OpKind == [mint |-> "mint", cliMint |-> "cliMint", revoke |-> "revoke",
           add |-> "add", extract |-> "extract", remove |-> "remove"]
OpTarget == [mint |-> "a", cliMint |-> "a", revoke |-> "a",
             add |-> "b", extract |-> "b", remove |-> "b"]
OpLabel == [mint |-> "ci", cliMint |-> "ci", revoke |-> "ci",
            add |-> "none", extract |-> "none", remove |-> "none"]
=============================================================================
