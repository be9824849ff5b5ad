---------------------------- MODULE MCAuthSession ----------------------------
(***************************************************************************)
(* Small instances of AuthSession for TLC.                                 *)
(***************************************************************************)
EXTENDS AuthSession, TLC

CONSTANTS t1, t2, fina, marca

\* A user of finance, for whom the layout fetches a panel the API refuses, and a
\* brand administrator.
MCRoleOf == (fina :> "finance" @@ marca :> "admin_marca")

\* The brand administrator logs in, to a browser the other may have used.
MCUserOf == <<marca>>

=============================================================================
