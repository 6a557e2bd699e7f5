---------------------------- MODULE MCServicing -----------------------------
(***************************************************************************)
(* What runs beside the loans, part by part: a behaviour stays in the part *)
(* it starts in and leaves the others' variables alone.                    *)
(***************************************************************************)
EXTENDS Collections, Reconciliation, Support

VARIABLE part

\* Instalments due on the first two days.
TwoDueDates == [i \in {1, 2} |-> i - 1]
\* One level, after a day.
OneLevel == [v \in {1} |-> 1]

Parts == {"collections", "reconciliation", "support"}

\* A part that is not running has one initial state.
ServicingInit ==
    /\ part \in Parts
    /\ part # "reconciliation" =>
          /\ report = [r \in Refs |-> [count |-> 1, says |-> "SETTLED", agrees |-> TRUE]]
          /\ item = [r \in Ours |-> "PENDING"]
          /\ booked = [r \in Ours |-> FALSE]
    /\ CollectionInit /\ ReconInit /\ SupportInit

\* A step of one part.
Collect(A) == part = "collections" /\ A /\ UNCHANGED <<part, reconVars, supportVars>>
Reconcile(A) ==
    part = "reconciliation" /\ A /\ UNCHANGED <<part, collectionVars, supportVars>>
Support(A) == part = "support" /\ A /\ UNCHANGED <<part, collectionVars, reconVars>>

ServicingNext == Collect(CollectionNext) \/ Reconcile(ReconNext) \/ Support(SupportNext)

servicingVars == <<part, collectionVars, reconVars, supportVars>>

\* For one worker of collections, one of the runners.
ASSUME OneWorker == Cardinality(CollectionWorkers) = 1 /\ CollectionWorkers \subseteq Runners

\* CollectionFairness and ReconFairness, each in the behaviours about its part:
\* as these never meet, one condition serves both.
ServicingFairness ==
    /\ WF_servicingVars(\/ Collect(\E w \in CollectionWorkers : NextPhase(w))
                        \/ Reconcile(TimePasses))
    /\ \A w \in Runners :
          /\ WF_servicingVars(\/ w \in CollectionWorkers /\ Collect(Item(w))
                              \/ Reconcile(ClaimRun(w, FALSE)))
          /\ SF_servicingVars(Reconcile(Begin(w)))
          /\ SF_servicingVars(Reconcile(End(w)))
          /\ SF_servicingVars(Reconcile(MarkFailed(w)))

ServicingSpec ==
    ServicingInit /\ [][ServicingNext]_servicingVars /\ ServicingFairness
=============================================================================
