------------------------------- MODULE MCFanOut -------------------------------
(* FanOut for the classes of commands of the catalogue.                     *)
EXTENDS FanOut

\* One representative of every class of traits.
MCAll     == AllCommands
MCInstall == {RunECertInstall}
=============================================================================
