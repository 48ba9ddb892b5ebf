---------------------------- MODULE MCConfigWatch ----------------------------
(* Small instances of ConfigWatch for TLC.                                  *)
EXTENDS ConfigWatch

\* A level in lower case and the switch on; an empty level and the switch off; a level
\* that does not exist and no switch.
SomeVersions ==
    {[level |-> "debug", stat |-> "true"], [level |-> "", stat |-> "false"],
     [level |-> "loud", stat |-> NoKey]}

\* The level or the switch cut in the middle of its value.
CutLines ==
    {[level |-> "deb", stat |-> NoKey], [level |-> "debug", stat |-> "tru"]}

OnOff ==
    {[level |-> "debug", stat |-> "true"], [level |-> "INFO", stat |-> "false"]}
==============================================================================
