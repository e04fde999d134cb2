------------------------------ MODULE MCServices ------------------------------
(* Nine services that share nothing: one run checks them, each in behaviours of *)
(* its own, in which the others rest in their initial states.                   *)
EXTENDS RideAudio, SteeringTrim, AdaptiveVideo, Viewers,
        Payments, Ledger, RideService, Edge, DeviceUpdates, TLC

CONSTANTS t1, t2, v1, v2, e1, e2, r1, r2

VARIABLE part       \* the service this behaviour is about

services == <<part, audioVars, trimVars, videoVars, viewerVars,
              paymentVars, ledgerVars, rideVars, edgeVars, updateVars>>

MCTabs == {t1, t2}
MCEdits == t1 :> 2 @@ t2 :> 1
MCWatchers == {v1, v2}
MCHeights == <<720, 720, 480>>
MCEvents == {e1, e2}
MCCreditEvents == {e1, e2}
MCWalletless == {e2}
MCLots == 1 .. 3
MCExpiry == <<2, 1, 3>>
MCGrant == <<2, 1, 2>>
MCKeys == {r1, r2}
MCDebit == r1 :> 3 @@ r2 :> 2
MCEdgeRides == {r1, r2}
MCVersions == 1 .. 3
MCFitting == {1, 2}

ServicesInit ==
    /\ part \in {"audio", "trim", "video", "viewers", "payments", "ledger", "rides", "edge", "updates"}
    /\ AudioInit /\ TrimInit /\ VideoInit /\ ViewersInit
    /\ PaymentsInit /\ LedgerInit /\ RidesInit /\ EdgeInit /\ UpdatesInit
    /\ part = "viewers" \/ \A v \in Watchers : viewer[v].left
    /\ part = "updates" \/ agent.version = 1

ServicesNext ==
    /\ UNCHANGED part
    /\ IF part = "audio" THEN AudioNext ELSE UNCHANGED audioVars
    /\ IF part = "trim" THEN TrimNext ELSE UNCHANGED trimVars
    /\ IF part = "video" THEN VideoNext ELSE UNCHANGED videoVars
    /\ IF part = "viewers" THEN ViewersNext ELSE UNCHANGED viewerVars
    /\ IF part = "payments" THEN PaymentsNext ELSE UNCHANGED paymentVars
    /\ IF part = "ledger" THEN LedgerNext ELSE UNCHANGED ledgerVars
    /\ IF part = "rides" THEN RidesNext ELSE UNCHANGED rideVars
    /\ IF part = "edge" THEN EdgeNext ELSE UNCHANGED edgeVars
    /\ IF part = "updates" THEN UpdatesNext ELSE UNCHANGED updateVars

ServicesSpec ==
    /\ ServicesInit /\ [][ServicesNext]_services
    /\ part = "audio" => AudioFairness
    /\ part = "viewers" => ViewersFairness

-----------------------------------------------------------------------------
(* The updates alone.                                                       *)
UpdatesSpec == ServicesInit /\ part = "updates" /\ [][ServicesNext]_services
=============================================================================
