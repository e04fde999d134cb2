----------------------------- MODULE MCDriveClient -----------------------------
(* Three things the driver's browser does: the page that drives, the ramps of   *)
(* its keys, and the profile dialog, each in behaviours of its own.             *)
EXTENDS DriveClient, KeyboardDrive, Profile

VARIABLE part       \* the one of the three this behaviour is about

parts == <<part, clientVars, keyboardVars, profileVars>>

\* Three keys, two of which cancel each other, for the page; the ramps have five.
MCKeys == {"W", "S", "A"}
MCNames == {"mine"}

BrowserInit ==
    /\ part \in {"page", "ramps", "profile"}
    /\ ClientInit /\ KeyboardInit /\ ProfileInit

BrowserNext ==
    /\ UNCHANGED part
    /\ IF part = "page" THEN ClientNext ELSE UNCHANGED clientVars
    /\ IF part = "ramps" THEN KeyboardNext ELSE UNCHANGED keyboardVars
    /\ IF part = "profile" THEN ProfileNext ELSE UNCHANGED profileVars

BrowserSpec == BrowserInit /\ [][BrowserNext]_parts /\ (part = "page" => ClientFairness)
=============================================================================
