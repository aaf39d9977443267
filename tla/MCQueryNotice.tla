---------------------------- MODULE MCQueryNotice ---------------------------
(* QueryNotice on small instances, for TLC. *)
EXTENDS QueryNotice

CONSTANTS gamemode, filterscript, admin

\* The game mode has all publics, the filter script only the custom one, the
\* admin script everything but that.
MCHasPublic(s, public) ==
    \/ s = gamemode
    \/ s = filterscript /\ public = "OnCustom"
    \/ s = admin /\ public # "OnCustom"
=============================================================================
