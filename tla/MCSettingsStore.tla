-------------------------- MODULE MCSettingsStore --------------------------
(***************************************************************************)
(* Small instances of SettingsStore: two requests, a password, a secret and *)
(* a schedule; the signing key follows the one, the scheduler the other.    *)
(***************************************************************************)
EXTENDS SettingsStore, TLC

CONSTANTS password, secret, schedule

TheFields == {password, secret, schedule}
ThePatches == {{password}, {secret}, {schedule}}
TheWatched == <<{secret}, {schedule}>>

=============================================================================
