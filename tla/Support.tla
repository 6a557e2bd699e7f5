------------------------------ MODULE Support -------------------------------
(***************************************************************************)
(* A customer's support tickets.  The customer writes, also on a ticket    *)
(* that was resolved lately, which reopens it; admins work a ticket under  *)
(* its lock, and the first one to work it takes it.                        *)
(*                                                                         *)
(* Opening a ticket counts the live ones first and inserts afterwards,     *)
(* with nothing locked: the two are separate steps.                        *)
(***************************************************************************)
EXTENDS Integers, FiniteSets

CONSTANTS
    Tickets,        \* bound: tickets the customer ever opens
    Agents,         \* admins with SUPPORT_UPDATE
    Managers,       \* those of them with SUPPORT_MANAGE
    Sensitive,      \* tickets of a category only they can see
    MaxOpen,        \* support_max_open_tickets_per_user
    MaxTicketLevel  \* MAX_ESCALATION_LEVEL

ASSUME SupportAssumption == MaxTicketLevel \in Nat

Kind == {"ISSUE", "COMPLAINT"}
TicketStatus == {"NONE", "COUNTED", "OPEN", "IN_PROGRESS", "WAITING_ON_CUSTOMER",
                 "RESOLVED", "CLOSED"}
LiveTicket == {"OPEN", "IN_PROGRESS", "WAITING_ON_CUSTOMER"}

\* TRANSITIONS
TicketMoves(from, to) ==
    \/ from = "OPEN" /\ to \in {"IN_PROGRESS", "WAITING_ON_CUSTOMER", "RESOLVED"}
    \/ from = "IN_PROGRESS" /\ to \in {"WAITING_ON_CUSTOMER", "RESOLVED"}
    \/ from = "WAITING_ON_CUSTOMER" /\ to \in {"IN_PROGRESS", "RESOLVED"}
    \/ from = "RESOLVED" /\ to \in {"IN_PROGRESS", "CLOSED"}

VARIABLES
    ticket,     \* each ticket; "COUNTED": about to be inserted
    unanswered, \* tickets with a message since they were opened or resolved
    old,        \* tickets resolved longer ago than REOPEN_WINDOW
    told        \* tickets with a resolution the customer can read

supportVars == <<ticket, unanswered, old, told>>

NoTicket == [status |-> "NONE", kind |-> "ISSUE", assignee |-> "none", level |-> 0]

SupportInit ==
    /\ ticket = [t \in Tickets |-> NoTicket]
    /\ unanswered = {} /\ old = {} /\ told = {}

Exists(t) == ticket[t].status \notin {"NONE", "COUNTED"}

----------------------------------------------------------------------------
\* The customer

\* create_ticket, up to count_live.
CountTickets(t) ==
    /\ ticket[t].status = "NONE"
    /\ Cardinality({u \in Tickets : ticket[u].status \in LiveTicket}) < MaxOpen
    /\ ticket' = [ticket EXCEPT ![t].status = "COUNTED"]
    /\ UNCHANGED <<unanswered, old, told>>

OpenTicket(t, kind) ==
    /\ ticket[t].status = "COUNTED"
    /\ ticket' = [ticket EXCEPT ![t].status = "OPEN", ![t].kind = kind]
    /\ unanswered' = unanswered \cup {t}
    /\ UNCHANGED <<old, told>>

\* customer_can_reply
MayReply(t) ==
    \/ ticket[t].status \in LiveTicket
    \/ ticket[t].status = "RESOLVED" /\ t \notin old

\* Seeded fault: A resolved ticket stays resolved.
AfterMessageResolved(status) ==
    IF status = "WAITING_ON_CUSTOMER" THEN "IN_PROGRESS" ELSE status

\* What the customer's message makes of the status: it reopens a resolved one.
AfterMessage(status) ==
    IF status \in {"WAITING_ON_CUSTOMER", "RESOLVED"} THEN "IN_PROGRESS" ELSE status

CustomerReply(t) ==
    /\ MayReply(t)
    /\ ticket' = [ticket EXCEPT ![t].status = AfterMessage(@)]
    /\ unanswered' = unanswered \cup {t}
    /\ UNCHANGED <<old, told>>

----------------------------------------------------------------------------
\* Admins

\* _visible, and not closed.
Visible(a, t) ==
    /\ Exists(t) /\ ticket[t].status # "CLOSED"
    /\ t \in Sensitive => a \in Managers

\* _workable: a ticket that is nobody's, the admin's, or anyone's for a manager.
Workable(a, t) ==
    /\ Visible(a, t)
    /\ ticket[t].assignee \in {"none", a} \/ a \in Managers

\* The first to work an unassigned ticket takes it.
Taken(a, t) == IF ticket[t].assignee = "none" THEN a ELSE ticket[t].assignee

\* assign: to oneself, or by a manager to anyone.
Assign(a, t, to) ==
    /\ Visible(a, t)
    /\ \/ a \in Managers
       \/ to = a /\ ticket[t].assignee \in {"none", a}
    /\ ticket' = [ticket EXCEPT ![t].assignee = to]
    /\ UNCHANGED <<unanswered, old, told>>

\* reply; a note or a priority takes the ticket only.
Reply(a, t) ==
    /\ Workable(a, t)
    /\ ticket' = [ticket EXCEPT ![t].assignee = Taken(a, t),
                                ![t].status = IF @ = "OPEN" THEN "IN_PROGRESS" ELSE @]
    /\ UNCHANGED <<unanswered, old, told>>

WorkTicket(a, t) ==
    /\ Workable(a, t)
    /\ ticket' = [ticket EXCEPT ![t].assignee = Taken(a, t)]
    /\ UNCHANGED <<unanswered, old, told>>

\* change_status: a resolution is a message to the customer.
ChangeStatus(a, t, new) ==
    /\ Workable(a, t)
    /\ TicketMoves(ticket[t].status, new)
    /\ ticket' = [ticket EXCEPT ![t].assignee = Taken(a, t), ![t].status = new]
    /\ IF new = "RESOLVED"
       THEN /\ unanswered' = unanswered \ {t} /\ told' = told \cup {t}
            /\ old' = old \ {t}
       ELSE UNCHANGED <<unanswered, told, old>>

Escalate(a, t) ==
    /\ a \in Managers /\ Workable(a, t)
    /\ ticket[t].kind = "COMPLAINT" /\ ticket[t].level < MaxTicketLevel
    /\ ticket' = [ticket EXCEPT ![t].assignee = Taken(a, t), ![t].level = @ + 1]
    /\ UNCHANGED <<unanswered, old, told>>

\* The reopen window closes.
WindowPasses(t) ==
    /\ ticket[t].status = "RESOLVED" /\ t \notin old
    /\ old' = old \cup {t}
    /\ UNCHANGED <<ticket, unanswered, told>>

SupportNext ==
    \E t \in Tickets :
        \/ CountTickets(t)
        \/ \E k \in Kind : OpenTicket(t, k)
        \/ CustomerReply(t)
        \/ WindowPasses(t)
        \/ \E a \in Agents :
            \/ \E to \in Agents : Assign(a, t, to)
            \/ Reply(a, t)
            \/ WorkTicket(a, t)
            \/ \E s \in TicketStatus : ChangeStatus(a, t, s)
            \/ Escalate(a, t)

SupportSpec == SupportInit /\ [][SupportNext]_supportVars

----------------------------------------------------------------------------

SupportTypeOK ==
    /\ ticket \in [Tickets -> [status : TicketStatus, kind : Kind,
                               assignee : Agents \cup {"none"}, level : 0 .. MaxTicketLevel]]
    /\ unanswered \subseteq Tickets /\ old \subseteq Tickets /\ told \subseteq Tickets

\* However the customer and the admins write and move a ticket at the same time,
\* none ends as resolved or closed over a message of the customer's that came
\* after its resolution, or without a resolution to read; and only a
\* complaint is escalated: services/support.py customer_reply, change_status.
NoMessageLeftBehind ==
    \A t \in Tickets :
        /\ ticket[t].status \in {"RESOLVED", "CLOSED"} => t \in told \ unanswered
        /\ ticket[t].level > 0 => ticket[t].kind = "COMPLAINT"

=============================================================================
