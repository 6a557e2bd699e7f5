---------------------------- MODULE Collections -----------------------------
(***************************************************************************)
(* Cases of overdue loans: a worker opens, refreshes and closes them from  *)
(* the repayment schedules, has reminders sent and raises their level;     *)
(* admins work them meanwhile, and customers pay.                          *)
(*                                                                         *)
(* A pass of the worker has three phases.  Each lists what it will look at *)
(* and then takes one item after the other, each under its schedule's or   *)
(* its case's lock, so that what it listed may have changed by then.  A    *)
(* list is one batch, the most overdue first: what is beyond the batch of  *)
(* every pass is never looked at.                                          *)
(*                                                                         *)
(* A schedule that is active stays so: a case closes as CURED only.        *)
(***************************************************************************)
EXTENDS Integers, FiniteSets

CONSTANTS
    Loans, CollectionWorkers,
    DueOn,          \* due date of each instalment of a loan, by number
    MaxDay,         \* bound: the last day
    Milestones,     \* REMINDER_MILESTONES, less their channels
    EscalateAt,     \* ESCALATION_THRESHOLDS, by level
    BatchSize       \* collections_batch_size

Instalments == DOMAIN DueOn
Levels == DOMAIN EscalateAt
MaxLevel == Cardinality(Levels)
Phases == {"sync", "remind", "escalate"}

\* A level takes at least as many days as the one below it.
ASSUME CollectionAssumption ==
    /\ Instalments \subseteq Nat /\ DueOn \in [Instalments -> Nat]
    /\ Milestones \subseteq Nat /\ MaxDay \in Nat
    /\ IsFiniteSet(Levels) /\ Levels = 1 .. MaxLevel /\ EscalateAt \in [Levels -> Nat]
    /\ \A v, u \in Levels : v <= u => EscalateAt[v] <= EscalateAt[u]

VARIABLES
    today,
    unpaid,     \* instalments with principal or interest outstanding
    case,       \* each loan's live case
    reminded,   \* reminders of that case: instalment and milestone
    raised,     \* automatic escalations of that case: instalment and level
    pass        \* each worker: its phase, and the loans left of its list

collectionVars == <<today, unpaid, case, reminded, raised, pass>>

\* No case, or closed ones only: those are final.
NoCase == [status |-> "NONE", dpd |-> 0, oldest |-> 0, level |-> 0]
CaseStatus == {"NONE", "OPEN", "IN_PROGRESS", "ESCALATED"}

CollectionInit ==
    /\ today = 0
    /\ unpaid = [l \in Loans |-> Instalments]
    /\ case = [l \in Loans |-> NoCase]
    /\ reminded = [l \in Loans |-> {}] /\ raised = [l \in Loans |-> {}]
    /\ pass = [w \in CollectionWorkers |-> [phase |-> "escalate", left |-> {}]]

\* overdue_of
Late(l) == {i \in unpaid[l] : DueOn[i] < today}
Overdue == {l \in Loans : Late(l) # {}}
Oldest(l) == CHOOSE i \in Late(l) : \A j \in Late(l) : i <= j
Dpd(l) == today - DueOn[Oldest(l)]
Live == {l \in Loans : case[l].status # "NONE"}

\* due_reminder_milestone: the latest one reached.
DueMilestone(dpd) ==
    {m \in Milestones : m <= dpd /\ \A n \in Milestones : n <= dpd => n <= m}

\* escalation_level_for
LevelFor(dpd) == Cardinality({v \in Levels : EscalateAt[v] <= dpd})

----------------------------------------------------------------------------
\* The lists of a pass: at most a batch of each.

Batches(S) ==
    {T \in SUBSET S : IF Cardinality(S) <= BatchSize THEN T = S
                      ELSE Cardinality(T) = BatchSize}

MostOverdue ==
    {T \in Batches(Overdue) : \A l \in T, m \in Overdue \ T : Dpd(l) >= Dpd(m)}

\* Seeded fault: The overdue loans only.
SyncListsOverdue == MostOverdue

\* sync_candidates: the overdue loans, then those with a live case, cut short.
SyncLists ==
    UNION {{T \in Batches(S \cup C) : S \subseteq T} :
                S \in MostOverdue, C \in Batches(Live)}

ReminderLists == Batches(Live)

EscalationLists ==
    LET may == {l \in Live : case[l].dpd >= EscalateAt[1] /\ case[l].level < MaxLevel}
    IN  {T \in Batches(may) : \A l \in T, m \in may \ T : case[l].dpd >= case[m].dpd}

\* run_once goes on to the next phase, or run_forever to the next pass.
NextPhase(w) ==
    /\ pass[w].left = {}
    /\ \E phase \in Phases, list \in SUBSET Loans :
        /\ CASE pass[w].phase = "sync" -> phase = "remind" /\ list \in ReminderLists
             [] pass[w].phase = "remind" -> phase = "escalate" /\ list \in EscalationLists
             [] OTHER -> phase = "sync" /\ list \in SyncLists
        /\ pass' = [pass EXCEPT ![w] = [phase |-> phase, left |-> list]]
    /\ UNCHANGED <<today, unpaid, case, reminded, raised>>

Take(w, phase, l) ==
    /\ pass[w].phase = phase /\ l \in pass[w].left
    /\ pass' = [pass EXCEPT ![w].left = @ \ {l}]
    /\ UNCHANGED <<today, unpaid>>

----------------------------------------------------------------------------
\* The worker's items

\* Seeded fault: The days past due never go down.
SyncedUpwards(l) ==
    [status |-> IF l \in Live THEN case[l].status ELSE "OPEN",
     dpd |-> IF case[l].dpd > Dpd(l) THEN case[l].dpd ELSE Dpd(l),
     oldest |-> Oldest(l), level |-> case[l].level]

\* What sync_schedule makes of an overdue loan's case.
Synced(l) ==
    [status |-> IF l \in Live THEN case[l].status ELSE "OPEN",
     dpd |-> Dpd(l), oldest |-> Oldest(l), level |-> case[l].level]

SyncSchedule(w, l) ==
    /\ Take(w, "sync", l)
    /\ IF l \in Overdue
       THEN /\ case' = [case EXCEPT ![l] = Synced(l)]
            /\ UNCHANGED <<reminded, raised>>
       ELSE /\ case' = [case EXCEPT ![l] = NoCase]
            /\ reminded' = [reminded EXCEPT ![l] = {}]
            /\ raised' = [raised EXCEPT ![l] = {}]

\* schedule_reminders: on what the last sync found.
ScheduleReminders(w, l) ==
    /\ Take(w, "remind", l)
    /\ reminded' = IF l \in Live
                   THEN [reminded EXCEPT ![l] =
                            @ \cup {case[l].oldest} \X DueMilestone(case[l].dpd)]
                   ELSE reminded
    /\ UNCHANGED <<case, raised>>

EscalateCase(w, l) ==
    LET target == LevelFor(case[l].dpd)
    IN  /\ Take(w, "escalate", l)
        /\ IF l \in Live /\ target > case[l].level
           THEN /\ case' = [case EXCEPT ![l].level = target, ![l].status = "ESCALATED"]
                /\ raised' = [raised EXCEPT ![l] = @ \cup {<<case[l].oldest, target>>}]
           ELSE UNCHANGED <<case, raised>>
        /\ UNCHANGED reminded

----------------------------------------------------------------------------
\* Admins

\* _worked: what a note, a logged contact or a next action makes of a case.
Worked(status) == IF status = "OPEN" THEN "IN_PROGRESS" ELSE status

Work(l) ==
    /\ l \in Live
    /\ case' = [case EXCEPT ![l].status = Worked(@)]
    /\ UNCHANGED <<today, unpaid, reminded, raised, pass>>

EscalateManually(l) ==
    /\ l \in Live /\ case[l].level < MaxLevel
    /\ case' = [case EXCEPT ![l].level = @ + 1, ![l].status = "ESCALATED"]
    /\ UNCHANGED <<today, unpaid, reminded, raised, pass>>

----------------------------------------------------------------------------
\* Customers, and the clock

DayPasses ==
    /\ today < MaxDay
    /\ today' = today + 1
    /\ UNCHANGED <<unpaid, case, reminded, raised, pass>>

\* Payments fill the oldest instalment first.
Pay(l) ==
    /\ unpaid[l] # {}
    /\ \E i \in unpaid[l] :
        /\ \A j \in unpaid[l] : i <= j
        /\ unpaid' = [unpaid EXCEPT ![l] = @ \ {i}]
    /\ UNCHANGED <<today, case, reminded, raised, pass>>

\* A payment that is reversed opens its instalment again, whatever was paid since.
Reverse(l) ==
    /\ \E i \in Instalments \ unpaid[l] :
        unpaid' = [unpaid EXCEPT ![l] = @ \cup {i}]
    /\ UNCHANGED <<today, case, reminded, raised, pass>>

Item(w) ==
    \E l \in Loans : \/ SyncSchedule(w, l)
                     \/ ScheduleReminders(w, l)
                     \/ EscalateCase(w, l)

CollectionNext ==
    \/ \E w \in CollectionWorkers : NextPhase(w) \/ Item(w)
    \/ \E l \in Loans :
        \/ Work(l)
        \/ EscalateManually(l)
        \/ Pay(l)
        \/ Reverse(l)
    \/ DayPasses

CollectionSpec == CollectionInit /\ [][CollectionNext]_collectionVars

\* run_forever runs passes for ever, and a pass ends.
CollectionFairness ==
    \A w \in CollectionWorkers :
        /\ WF_collectionVars(NextPhase(w))
        /\ WF_collectionVars(Item(w))

CollectionLiveSpec == CollectionSpec /\ CollectionFairness

----------------------------------------------------------------------------

CollectionTypeOK ==
    /\ today \in 0 .. MaxDay
    /\ unpaid \in [Loans -> SUBSET Instalments]
    /\ case \in [Loans -> [status : CaseStatus, dpd : 0 .. MaxDay,
                           oldest : Instalments \cup {0}, level : Levels \cup {0}]]
    /\ reminded \in [Loans -> SUBSET (Instalments \X Milestones)]
    /\ raised \in [Loans -> SUBSET (Instalments \X Levels)]
    /\ pass \in [CollectionWorkers -> [phase : Phases, left : SUBSET Loans]]

\* No customer is reminded, and no case raised by the worker, earlier than the
\* instalment it is about has been due for: neither while payments come in and
\* are reversed between a sync and what follows it.  And what a case says of
\* its level fits: services/collections.py sync_schedule, schedule_reminders,
\* escalate_case, ck_collection_case_escalated_iff_level.
NothingTooEarly ==
    \A l \in Loans :
        /\ \A r \in reminded[l] : today - DueOn[r[1]] >= r[2]
        /\ \A e \in raised[l] : today - DueOn[e[1]] >= EscalateAt[e[2]]
                                /\ e[2] <= case[l].level
        /\ case[l].status = "ESCALATED" <=> case[l].level > 0

\* The case a loan ought to have: one while it is overdue, raised once it has
\* been overdue for long enough.
CaseFits(l) ==
    /\ l \in Live <=> l \in Overdue
    /\ l \in Overdue /\ Dpd(l) >= EscalateAt[1] => case[l].level > 0

\* Every pass has room for the loan: not more than a batch is as much overdue, by
\* its instalments or by its case; or, when it is paid up, not more than a batch
\* is overdue or has a case at all.
WithinBatch(l) ==
    LET ahead == {m \in Overdue : Dpd(m) >= Dpd(l)} \cup {m \in Live : case[m].dpd >= Dpd(l)}
    IN  Cardinality(IF l \in Overdue THEN ahead ELSE Overdue \cup Live) <= BatchSize

\* A loan and its case don't stay apart while the passes have room for it: one
\* that stays overdue gets a case and its level, one that stays paid up has its
\* case closed, however payments come and go between the phases of a pass, and
\* however many loans are behind it in the lists: services/collections.py
\* sync_candidates, sync_schedule, escalation_candidates.  Of a loan beyond the
\* batch nothing can be said: while a batch of loans stays overdue, the case of
\* one that is paid up stays open.
CasesFollowLoans == \A l \in Loans : ~ CaseFits(l) ~> CaseFits(l) \/ ~ WithinBatch(l)

=============================================================================
