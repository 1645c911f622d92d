---------------------------- MODULE MC_Archive ----------------------------
(* The option sets an entry may have: recordings kept or sent, event       *)
(* files to each kind of share, and recordings on an SMB share where no    *)
(* alert comes in, only retention.  It takes two failures to give up on a  *)
(* recording, one to break off an upload.                                  *)
EXTENDS Archive

Setup(t, p, a, f) == [target |-> t, protocol |-> p, alerts |-> a, faults |-> f]

MCSetups ==
    {Setup(t, "off", FALSE, 2) : t \in {"local", "ftp"}}
        \cup {Setup("off", p, TRUE, 1) : p \in {"smb", "ftp"}}
        \cup {Setup("smb", "smb", FALSE, 1)}
=============================================================================
