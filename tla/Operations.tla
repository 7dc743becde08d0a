----------------------------- MODULE Operations -----------------------------
(***************************************************************************)
(* What the operators of an installation do, and ask: the releases and     *)
(* the environment of the server (Releases, Environment), its backups      *)
(* (Backups), and whether it is ready (Readiness).                         *)
(***************************************************************************)
EXTENDS Releases, Environment, Backups, Readiness

operationsVars == <<releaseVars, environmentVars, backupVars, readinessVars>>

\* They share nothing, and go on side by side.
OperationsSpec == ReleasesSpec /\ EnvironmentSpec /\ BackupsSpec /\ ReadinessSpec

-----------------------------------------------------------------------------
\* What operators rely on: ReleasesInv (deploy-release.sh, rollback.sh, migrate.ts),
\* EnvironmentInv (install-env.sh, config/env.ts), BackupsInv (backup-recovery.ts) and
\* ReadinessInv (readiness.service.ts).
OperationsInv == ReleasesInv /\ EnvironmentInv /\ BackupsInv /\ ReadinessInv

OperationsIndInv == ReleasesIndInv /\ EnvironmentIndInv /\ BackupsIndInv /\ ReadinessIndInv
=============================================================================
