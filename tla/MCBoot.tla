------------------------------- MODULE MCBoot -------------------------------
(* A rolling deploy on an empty database: an API task of the old release    *)
(* and one of the new in production, the first with injected secrets, the   *)
(* second fetching its own; and a staging Lambda that fetches two secrets.  *)
EXTENDS Boot, TLC

CONSTANTS old, new, fn

\* common_environment and common_secrets of infra/terraform/ecs.tf; lambda.tf.
Injected == [k \in Settings |-> IF k = "TUNING" THEN "garbled" ELSE "good"]
Fetching == [Injected EXCEPT !["JWT"] = "unset", !["DEV"] = "empty"]

MCRoleOf == (old :> "api") @@ (new :> "api") @@ (fn :> "lambda")
MCHasOf == (old :> 1) @@ (new :> 2) @@ (fn :> 2)
MCProduction == (old :> TRUE) @@ (new :> TRUE) @@ (fn :> FALSE)
MCGivenOf == (old :> Injected) @@ (new :> Fetching)
             @@ (fn :> [Fetching EXCEPT !["DB"] = "unset", !["CORS"] = "unset"])
MCSecretsOf == (old :> {}) @@ (new :> {"app"}) @@ (fn :> {"app", "rds"})
=============================================================================
