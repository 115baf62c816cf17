---------------------------- MODULE MCConfigFile ----------------------------
(***************************************************************************)
(* ConfigFile for TLC: a save of the dashboard, the refresh at the         *)
(* server's start, a rotation that may be stopped and a run of the         *)
(* installer.  Any number of each is what ConfigFileProofs is about.       *)
(***************************************************************************)
EXTENDS ConfigFile, TLC

CONSTANTS save, sync, rotate, install

MCSave == {save}
MCSync == {sync}
MCRotate == {rotate}
MCInstall == {install}
MCMortal == {rotate}
=============================================================================
