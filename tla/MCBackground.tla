---------------------------- MODULE MCBackground ----------------------------
(***************************************************************************)
(* One model for the jobs that run behind the requests: the evidence store *)
(* and its purge, the release scan, the alert scan.  They share no variable*)
(* and none of them reads what another writes, so every behaviour is about *)
(* one of them, `part`, and the others rest.  The alerts are looked at     *)
(* twice: two keys without the managers, and one key with two managers.    *)
(***************************************************************************)
EXTENDS EvidenceStore, ReleaseScan, Alerts

VARIABLE part \* the component that this behaviour is about

backgroundVars == <<vars, releaseVars, alertVars, part>>

\* The release scan is looked at with the device's clock ahead by all it may be.
BackgroundInit ==
    /\ Init /\ ReleaseInit /\ AlertsInit
    /\ part \in {"EVIDENCE", "RELEASE", "ALERTS", "DESK"}
    /\ skew = IF part = "RELEASE" THEN MaxSkew ELSE 0

BackgroundNext ==
    /\ \/ part = "EVIDENCE" /\ Next /\ UNCHANGED <<releaseVars, alertVars>>
       \/ part = "RELEASE" /\ ReleaseNext /\ UNCHANGED <<vars, alertVars>>
       \/ part = "ALERTS" /\ AlertsNext /\ handling' = handling /\ UNCHANGED <<vars, releaseVars>>
       \/ /\ part = "DESK" /\ AlertsNext /\ Cardinality(Happened') <= 1
          /\ UNCHANGED <<vars, releaseVars>>
    /\ UNCHANGED part

\* The fairness of each component, where the behaviour is about it.
BackgroundFairness ==
    /\ WF_vars(part = "EVIDENCE" /\ Purge)
    /\ SF_vars(part = "EVIDENCE" /\ CommitPurge)
    /\ WF_vars(part = "EVIDENCE" /\ (CommitDeletion \/ FailDeletion))
    /\ WF_releaseVars(part = "RELEASE" /\ Tick)
    /\ WF_releaseVars(part = "RELEASE" /\ \E poolWasEmpty \in BOOLEAN : CommitNoBatch(poolWasEmpty))
    /\ WF_releaseVars(part = "RELEASE" /\ ReleasePass)
    /\ SF_releaseVars(part = "RELEASE" /\ CloseTheDay)
    /\ \A s \in Scans : WF_alertVars(part \in {"ALERTS", "DESK"} /\ ScanStep(s))

BackgroundSpec == BackgroundInit /\ [][BackgroundNext]_backgroundVars /\ BackgroundFairness

\* Every component keeps its types.
BackgroundTypeOK == TypeOK /\ ReleaseTypeOK /\ AlertsTypeOK
=============================================================================
