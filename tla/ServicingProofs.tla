--------------------------- MODULE ServicingProofs --------------------------
(***************************************************************************)
(* Theorems about what runs beside the loans, for any number of loans,     *)
(* levels, workers, references and tickets.                                *)
(***************************************************************************)
EXTENDS Collections, Reconciliation, Support, SetLemmas

-----------------------------------------------------------------------------
(* Support tickets.                                                        *)

\* A ticket that isn't open yet has not been escalated: together with the types
\* this makes NoMessageLeftBehind inductive.
TicketIInv ==
    /\ SupportTypeOK /\ NoMessageLeftBehind
    /\ \A t \in Tickets : ticket[t].status \in {"NONE", "COUNTED"} => ticket[t].level = 0

LEMMA TicketIInvInit == SupportInit => TicketIInv
BY SupportAssumption
   DEF SupportInit, TicketIInv, SupportTypeOK, NoMessageLeftBehind, NoTicket, TicketStatus,
       Kind

\* A step that writes one ticket keeps the invariant if it keeps it for that one.
LEMMA OneTicket ==
    ASSUME TicketIInv, NEW t \in Tickets,
           NEW q \in [status : TicketStatus, kind : Kind,
                      assignee : Agents \cup {"none"}, level : 0 .. MaxTicketLevel],
           ticket' = [ticket EXCEPT ![t] = q],
           unanswered' \subseteq Tickets, old' \subseteq Tickets, told' \subseteq Tickets,
           \A u \in Tickets \ {t} : u \in told \ unanswered => u \in told' \ unanswered',
           q.status \in {"RESOLVED", "CLOSED"} => t \in told' \ unanswered',
           q.level > 0 => q.kind = "COMPLAINT" /\ q.status \notin {"NONE", "COUNTED"}
    PROVE  TicketIInv'
<1>1. ticket \in [Tickets -> [status : TicketStatus, kind : Kind,
                      assignee : Agents \cup {"none"}, level : 0 .. MaxTicketLevel]]
  BY DEF TicketIInv, SupportTypeOK
<1>2. SupportTypeOK'
  BY <1>1 DEF SupportTypeOK
<1>3. \A u \in Tickets : ticket'[u] = IF u = t THEN q ELSE ticket[u]
  BY <1>1
<1>4. q.level \in 0 .. MaxTicketLevel
  OBVIOUS
<1>5. NoMessageLeftBehind'
  BY <1>3 DEF TicketIInv, NoMessageLeftBehind
<1>6. \A u \in Tickets : ticket'[u].status \in {"NONE", "COUNTED"} => ticket'[u].level = 0
  BY <1>3, <1>4, SupportAssumption DEF TicketIInv
<1> QED
  BY <1>2, <1>5, <1>6 DEF TicketIInv

LEMMA TicketIInvStep ==
    ASSUME TicketIInv, [SupportNext]_supportVars
    PROVE  TicketIInv'
<1> DEFINE Record == [status : TicketStatus, kind : Kind,
                      assignee : Agents \cup {"none"}, level : 0 .. MaxTicketLevel]
<1>0. /\ ticket \in [Tickets -> Record]
      /\ unanswered \subseteq Tickets /\ old \subseteq Tickets /\ told \subseteq Tickets
  BY DEF TicketIInv, SupportTypeOK
<1>a. ASSUME NEW t \in Tickets
      PROVE  /\ ticket[t].status \in TicketStatus /\ ticket[t].kind \in Kind
             /\ ticket[t].assignee \in Agents \cup {"none"}
             /\ ticket[t].level \in 0 .. MaxTicketLevel
  BY <1>0
<1>b. ASSUME NEW t \in Tickets
      PROVE  /\ ticket[t].status \in {"RESOLVED", "CLOSED"} => t \in told \ unanswered
             /\ ticket[t].level > 0 => ticket[t].kind = "COMPLAINT"
             /\ ticket[t].status \in {"NONE", "COUNTED"} => ticket[t].level = 0
  BY DEF TicketIInv, NoMessageLeftBehind
<1>1. ASSUME NEW t \in Tickets, CountTickets(t) PROVE TicketIInv'
  <2> DEFINE q == [ticket[t] EXCEPT !.status = "COUNTED"]
  <2>1. ticket' = [ticket EXCEPT ![t] = q]
    BY <1>1, Zenon DEF CountTickets
  <2>2. /\ q \in Record /\ q.status = "COUNTED" /\ ~ (q.level > 0)
        /\ UNCHANGED <<unanswered, old, told>>
    BY <1>0, <1>1, <1>b DEF CountTickets, TicketStatus
  <2> HIDE DEF q
  <2> QED
    BY <1>0, <2>1, <2>2, OneTicket
<1>2. ASSUME NEW t \in Tickets, NEW k \in Kind, OpenTicket(t, k) PROVE TicketIInv'
  <2> DEFINE q == [ticket[t] EXCEPT !.status = "OPEN", !.kind = k]
  <2>1. ticket' = [ticket EXCEPT ![t] = q]
    BY <1>2, Zenon DEF OpenTicket
  <2>2. /\ q \in Record /\ q.status = "OPEN" /\ q.level = ticket[t].level
        /\ ticket[t].level = 0
    BY <1>0, <1>2, <1>b DEF OpenTicket, TicketStatus
  <2>3. /\ ~ (q.level > 0) /\ q.status \notin {"RESOLVED", "CLOSED"}
        /\ unanswered' \subseteq Tickets
        /\ \A u \in Tickets \ {t} : u \in told \ unanswered => u \in told' \ unanswered'
        /\ UNCHANGED <<old, told>>
    BY <1>0, <1>2, <2>2 DEF OpenTicket
  <2> HIDE DEF q
  <2> QED
    BY <1>0, <2>1, <2>2, <2>3, OneTicket
<1>3. ASSUME NEW t \in Tickets, CustomerReply(t) PROVE TicketIInv'
  <2> DEFINE q == [ticket[t] EXCEPT !.status = AfterMessage(@)]
  <2>1. ticket' = [ticket EXCEPT ![t] = q]
    BY <1>3, Zenon DEF CustomerReply
  <2>2. AfterMessage(ticket[t].status) \in {"OPEN", "IN_PROGRESS"}
    BY <1>3 DEF CustomerReply, MayReply, AfterMessage, LiveTicket
  <2>3. /\ q \in Record /\ q.status \in {"OPEN", "IN_PROGRESS"}
        /\ q.level = ticket[t].level /\ q.kind = ticket[t].kind
    BY <1>0, <2>2 DEF TicketStatus
  <2>4. unanswered' = unanswered \cup {t} /\ UNCHANGED <<old, told>>
    BY <1>3 DEF CustomerReply
  <2> HIDE DEF q
  <2> QED
    BY <1>0, <1>b, <2>1, <2>3, <2>4, OneTicket
<1>4. ASSUME NEW t \in Tickets, WindowPasses(t) PROVE TicketIInv'
  BY <1>4 DEF WindowPasses, TicketIInv, SupportTypeOK, NoMessageLeftBehind
<1>5. ASSUME NEW t \in Tickets, NEW a \in Agents, NEW to \in Agents, Assign(a, t, to)
      PROVE  TicketIInv'
  <2> DEFINE q == [ticket[t] EXCEPT !.assignee = to]
  <2>1. ticket' = [ticket EXCEPT ![t] = q]
    BY <1>5, Zenon DEF Assign
  <2>2. /\ q \in Record /\ q.status = ticket[t].status
        /\ q.level = ticket[t].level /\ q.kind = ticket[t].kind
    BY <1>0
  <2>3. Exists(t) /\ UNCHANGED <<unanswered, old, told>>
    BY <1>5 DEF Assign, Visible
  <2> HIDE DEF q
  <2> QED
    BY <1>0, <1>b, <2>1, <2>2, <2>3, OneTicket DEF Exists
<1>6. ASSUME NEW t \in Tickets, NEW a \in Agents, Reply(a, t) PROVE TicketIInv'
  <2> DEFINE q == [ticket[t] EXCEPT !.assignee = Taken(a, t),
                                    !.status = IF @ = "OPEN" THEN "IN_PROGRESS" ELSE @]
  <2>1. ticket' = [ticket EXCEPT ![t] = q]
    BY <1>6, Zenon DEF Reply
  <2>2. Taken(a, t) \in Agents \cup {"none"}
    BY <1>a DEF Taken
  <2>3. /\ q \in Record
        /\ q.status = IF ticket[t].status = "OPEN" THEN "IN_PROGRESS" ELSE ticket[t].status
        /\ q.level = ticket[t].level /\ q.kind = ticket[t].kind
    BY <1>0, <2>2 DEF TicketStatus
  <2>4. Exists(t) /\ UNCHANGED <<unanswered, old, told>>
    BY <1>6 DEF Reply, Workable, Visible
  <2> HIDE DEF q
  <2> QED
    BY <1>0, <1>b, <2>1, <2>3, <2>4, OneTicket DEF Exists
<1>7. ASSUME NEW t \in Tickets, NEW a \in Agents, WorkTicket(a, t) PROVE TicketIInv'
  <2> DEFINE q == [ticket[t] EXCEPT !.assignee = Taken(a, t)]
  <2>1. ticket' = [ticket EXCEPT ![t] = q]
    BY <1>7, Zenon DEF WorkTicket
  <2>2. Taken(a, t) \in Agents \cup {"none"}
    BY <1>a DEF Taken
  <2>3. /\ q \in Record /\ q.status = ticket[t].status
        /\ q.level = ticket[t].level /\ q.kind = ticket[t].kind
    BY <1>0, <2>2
  <2>4. Exists(t) /\ UNCHANGED <<unanswered, old, told>>
    BY <1>7 DEF WorkTicket, Workable, Visible
  <2> HIDE DEF q
  <2> QED
    BY <1>0, <1>b, <2>1, <2>3, <2>4, OneTicket DEF Exists
<1>8. ASSUME NEW t \in Tickets, NEW a \in Agents, NEW s \in TicketStatus,
             ChangeStatus(a, t, s)
      PROVE  TicketIInv'
  <2> DEFINE q == [ticket[t] EXCEPT !.assignee = Taken(a, t), !.status = s]
  <2>1. ticket' = [ticket EXCEPT ![t] = q]
    BY <1>8, Zenon DEF ChangeStatus
  <2>2. Taken(a, t) \in Agents \cup {"none"}
    BY <1>a DEF Taken
  <2>3. /\ q \in Record /\ q.status = s
        /\ q.level = ticket[t].level /\ q.kind = ticket[t].kind
    BY <1>0, <2>2
  <2>4. /\ s \in {"IN_PROGRESS", "WAITING_ON_CUSTOMER", "RESOLVED", "CLOSED"}
        /\ s = "CLOSED" => ticket[t].status = "RESOLVED"
    BY <1>8 DEF ChangeStatus, TicketMoves
  <2>5. CASE s = "RESOLVED"
    <3>1. /\ unanswered' = unanswered \ {t} /\ told' = told \cup {t}
          /\ old' = old \ {t}
      BY <1>8, <2>5 DEF ChangeStatus
    <3> HIDE DEF q
    <3> QED
      BY <1>0, <1>b, <2>1, <2>3, <2>4, <3>1, OneTicket
  <2>6. CASE s # "RESOLVED"
    <3>1. UNCHANGED <<unanswered, old, told>>
      BY <1>8, <2>6 DEF ChangeStatus
    <3> HIDE DEF q
    <3> QED
      BY <1>0, <1>b, <2>1, <2>3, <2>4, <2>6, <3>1, OneTicket
  <2> QED
    BY <2>5, <2>6
<1>9. ASSUME NEW t \in Tickets, NEW a \in Agents, Escalate(a, t) PROVE TicketIInv'
  <2> DEFINE q == [ticket[t] EXCEPT !.assignee = Taken(a, t), !.level = @ + 1]
  <2>1. ticket' = [ticket EXCEPT ![t] = q]
    BY <1>9, Zenon DEF Escalate
  <2>2. Taken(a, t) \in Agents \cup {"none"}
    BY <1>a DEF Taken
  <2>3. ticket[t].level + 1 \in 0 .. MaxTicketLevel /\ ticket[t].kind = "COMPLAINT"
    BY <1>9, <1>a, SupportAssumption DEF Escalate
  <2>4. q \in Record /\ q.status = ticket[t].status /\ q.kind = ticket[t].kind
    BY <1>0, <2>2, <2>3
  <2>5. Exists(t) /\ UNCHANGED <<unanswered, old, told>>
    BY <1>9 DEF Escalate, Workable, Visible
  <2> HIDE DEF q
  <2> QED
    BY <1>0, <1>b, <2>1, <2>3, <2>4, <2>5, OneTicket DEF Exists
<1>10. CASE UNCHANGED supportVars
  BY <1>10 DEF supportVars, TicketIInv, SupportTypeOK, NoMessageLeftBehind
<1> QED
  BY <1>1, <1>2, <1>3, <1>4, <1>5, <1>6, <1>7, <1>8, <1>9, <1>10, Zenon DEF SupportNext

\* No ticket is resolved or closed over a message of the customer's that came
\* after its resolution, or without one to read: services/support.py.
THEOREM NothingLeftBehind == SupportSpec => []NoMessageLeftBehind
<1>1. TicketIInv /\ [SupportNext]_supportVars => TicketIInv'
  BY TicketIInvStep
<1>2. TicketIInv => NoMessageLeftBehind
  BY DEF TicketIInv
<1> QED
  BY <1>1, <1>2, TicketIInvInit, PTL DEF SupportSpec

-----------------------------------------------------------------------------
(* Reconciliation.                                                         *)

\* What an execution read holds for every row that has not moved since, and the
\* run it executes is one runner's and RUNNING as long as it reads.
RunIInv ==
    /\ ReconTypeOK /\ FindingsAreSound
    /\ \A w \in Runners : at[w] = "read" =>
            /\ run.status = "RUNNING"
            /\ \A v \in Runners : at[v] = "read" => v = w
            /\ \A r \in Ours \ touched : item[r] = saw[r]

LEMMA RunIInvInit == ReconInit => RunIInv
<1> SUFFICES ASSUME ReconInit PROVE RunIInv
  OBVIOUS
<1>1. DOMAIN finding = {} /\ DOMAIN review = {}
  BY DEF ReconInit
<1>2. run = [status |-> "NONE", attempts |-> 0] /\ \A w \in Runners : at[w] = "idle"
  BY DEF ReconInit
<1>3. ReconTypeOK
  <2>1. run \in [status : RunStatus, attempts : 0 .. MaxRunAttempts + 1]
    BY <1>2, ReconAssumption DEF RunStatus
  <2>2. item \in [Ours -> ItemStatus] /\ saw \in [Ours -> ItemStatus]
    BY DEF ReconInit, ItemStatus
  <2>3. /\ stale \in BOOLEAN /\ report \in [Refs -> Lines] /\ touched \subseteq Ours
        /\ recent \in BOOLEAN /\ booked \in [Ours -> BOOLEAN]
        /\ at \in [Runners -> Places]
    BY DEF ReconInit, Places
  <2> QED
    BY <1>1, <2>1, <2>2, <2>3 DEF ReconTypeOK
<1>4. FindingsAreSound
  BY <1>1, <1>2 DEF FindingsAreSound
<1> QED
  BY <1>2, <1>3, <1>4 DEF RunIInv

\* What reconcile finds for a row of ours it compares with what its books hold.
LEMMA FoundFor ==
    ASSUME ReconTypeOK, NEW r \in Refs, NEW s, NEW n \in BOOLEAN
    PROVE  /\ FindingFor(r, s, n) \in Findings
           /\ FindingFor(r, s, n) = "MATCHED" <=>
                report[r].count = 1 /\ report[r].agrees /\ r \in Ours
                /\ s \in DOMAIN Expected /\ report[r].says = Expected[s]
                /\ n = Moved(s)
<1>1. report[r].count \in 0 .. 2
  BY DEF ReconTypeOK, Lines
<1> QED
  BY <1>1 DEF FindingFor, Findings, Ours

\* Outside an execution, a step that leaves report and findings alone changes
\* nothing that they are about.
LEMMA RunIInvKept ==
    ASSUME RunIInv, UNCHANGED <<report, finding, review>>,
           ReconTypeOK', run'.status = "COMPLETED" <=> run.status = "COMPLETED",
           run.status = "COMPLETED" => saw' = saw /\ touched \subseteq touched',
           run.status = "COMPLETED" => \A r \in Ours \ touched' :
                item'[r] = item[r] /\ booked'[r] = booked[r],
           \A w \in Runners : at'[w] = "read" =>
                /\ run'.status = "RUNNING"
                /\ \A v \in Runners : at'[v] = "read" => v = w
                /\ \A r \in Ours \ touched' : item'[r] = saw'[r]
    PROVE  RunIInv'
<1>1. FindingsAreSound'
  <2>1. CASE run.status # "COMPLETED"
    BY <2>1 DEF RunIInv, FindingsAreSound
  <2>2. CASE run.status = "COMPLETED"
    <3>1. \A r \in Ours \ touched' : Agrees(r)' = Agrees(r) /\ r \in Ours \ touched
      BY <2>2 DEF Agrees, Moved
    <3> QED
      BY <2>2, <3>1 DEF RunIInv, FindingsAreSound
  <2> QED
    BY <2>1, <2>2
<1> QED
  BY <1>1 DEF RunIInv

LEMMA CompleteKeepsRun ==
    ASSUME RunIInv, NEW w \in Runners, Complete(w)
    PROVE  RunIInv'
<1>0. /\ at[w] = "read" /\ run.status = "RUNNING"
      /\ \A v \in Runners : at[v] = "read" => v = w
      /\ \A r \in Ours \ touched : item[r] = saw[r]
      /\ ReconTypeOK
  BY DEF Complete, RunIInv
<1>1. /\ run' \in [status : RunStatus, attempts : 0 .. MaxRunAttempts + 1]
      /\ run'.status = "COMPLETED" /\ UNCHANGED <<report, item, booked, saw, touched>>
      /\ stale' = FALSE /\ UNCHANGED recent
      /\ at' = [at EXCEPT ![w] = "idle"]
  BY <1>0 DEF Complete, ReconTypeOK, RunStatus, Go, rowsVars
<1>2. Covered \subseteq Refs /\ {r \in Refs : report[r].count > 0} \subseteq Covered
  BY DEF Covered, Ours
<1>3. /\ DOMAIN finding' = Covered /\ DOMAIN review' = Covered
      /\ \A r \in Covered :
            /\ finding'[r] = IF r \in Foreign THEN FindingFor(r, "PENDING", FALSE)
                             ELSE FindingFor(r, saw[r], BankNet(r))
            /\ review'[r] = IF finding'[r] = "MATCHED" THEN "NOT_REQUIRED" ELSE "OPEN"
  BY Zenon DEF Complete
<1>4. ASSUME NEW r \in Covered
      PROVE  /\ finding'[r] \in Findings /\ review'[r] \in Reviews
             /\ (finding'[r] = "MATCHED") = (review'[r] = "NOT_REQUIRED")
             /\ finding'[r] = "MATCHED" =>
                    report[r].count = 1 /\ report[r].agrees /\ r \in Ours
                    /\ saw[r] \in DOMAIN Expected /\ report[r].says = Expected[saw[r]]
             /\ r \in Ours \ touched => (finding'[r] = "MATCHED") = Agrees(r)
  <2>1. r \in Refs /\ (r \in Ours => BankNet(r) \in BOOLEAN)
    BY <1>0, <1>2 DEF BankNet, ReconTypeOK
  <2>2. review'[r] \in Reviews /\ (finding'[r] = "MATCHED") = (review'[r] = "NOT_REQUIRED")
    BY <1>3 DEF Reviews
  <2>3. CASE r \in Foreign
    <3>1. finding'[r] = FindingFor(r, "PENDING", FALSE)
      BY <1>3, <2>3
    <3>2. r \notin Ours
      BY <2>3 DEF Ours
    <3>3. finding'[r] \in Findings /\ finding'[r] # "MATCHED"
      BY <1>0, <2>1, <3>1, <3>2, FoundFor
    <3> QED
      BY <2>2, <3>2, <3>3
  <2>4. CASE r \notin Foreign
    <3>1. finding'[r] = FindingFor(r, saw[r], BankNet(r)) /\ r \in Ours
      BY <1>3, <2>1, <2>4 DEF Ours
    <3>2. /\ finding'[r] \in Findings
          /\ finding'[r] = "MATCHED" <=>
                report[r].count = 1 /\ report[r].agrees /\ r \in Ours
                /\ saw[r] \in DOMAIN Expected /\ report[r].says = Expected[saw[r]]
                /\ BankNet(r) = Moved(saw[r])
      BY <1>0, <2>1, <3>1, FoundFor
    <3>3. r \in Ours \ touched => (finding'[r] = "MATCHED") = Agrees(r)
      BY <1>0, <3>1, <3>2 DEF BankNet, Agrees
    <3> QED
      BY <2>2, <3>2, <3>3
  <2> QED
    BY <2>3, <2>4
<1>5. ReconTypeOK'
  BY <1>0, <1>1, <1>2, <1>3, <1>4 DEF ReconTypeOK, Places
<1>6. FindingsAreSound'
  <2>1. \A r \in Ours : Agrees(r)' = Agrees(r)
    BY <1>1 DEF Agrees
  <2>2. \A r \in Ours \ touched : item[r] \in {"SUCCESS", "REVERSED"} => r \in Covered
    BY <1>0 DEF Covered, Ours
  <2> QED
    BY <1>1, <1>2, <1>3, <1>4, <2>1, <2>2 DEF FindingsAreSound
<1>7. \A v \in Runners : at'[v] # "read"
  BY <1>0, <1>1 DEF ReconTypeOK
<1> QED
  BY <1>5, <1>6, <1>7 DEF RunIInv

LEMMA RunIInvStep ==
    ASSUME RunIInv, [ReconNext]_reconVars
    PROVE  RunIInv'
<1>0. /\ ReconTypeOK
      /\ run \in [status : RunStatus, attempts : 0 .. MaxRunAttempts + 1]
      /\ at \in [Runners -> Places]
      /\ item \in [Ours -> ItemStatus] /\ saw \in [Ours -> ItemStatus]
      /\ touched \subseteq Ours /\ booked \in [Ours -> BOOLEAN]
      /\ \A w \in Runners : at[w] = "read" =>
            /\ run.status = "RUNNING"
            /\ \A v \in Runners : at[v] = "read" => v = w
            /\ \A r \in Ours \ touched : item[r] = saw[r]
  BY DEF RunIInv, ReconTypeOK
<1>1. ASSUME NEW w \in Runners, NEW byAdmin \in BOOLEAN, ClaimRun(w, byAdmin)
      PROVE  RunIInv'
  <2>1. /\ run' \in [status : RunStatus, attempts : 0 .. MaxRunAttempts + 1]
        /\ run'.status = "RUNNING" /\ run.status # "COMPLETED"
    BY <1>0, <1>1, ReconAssumption DEF ClaimRun, MayRetake, RunStatus, rowsVars
  <2>2. \A v \in Runners : at'[v] # "read"
    BY <1>0, <1>1 DEF ClaimRun, RunLocked, Go, rowsVars
  <2>3. ReconTypeOK'
    BY <1>0, <1>1, <2>1 DEF ClaimRun, Go, ReconTypeOK, Places, rowsVars
  <2> QED
    BY <1>1, <2>1, <2>2, <2>3, RunIInvKept DEF ClaimRun, rowsVars
<1>2. ASSUME NEW w \in Runners, StartExecution(w) PROVE RunIInv'
  <2>1. \A v \in Runners : at'[v] = "read" => v = w
    BY <1>0, <1>2 DEF StartExecution, RunLocked, Go, rowsVars
  <2>2. ReconTypeOK'
    BY <1>0, <1>2 DEF StartExecution, Go, ReconTypeOK, Places, rowsVars
  <2> QED
    BY <1>2, <2>1, <2>2, RunIInvKept DEF StartExecution, rowsVars
<1>3. ASSUME NEW w \in Runners, LostRun(w) \/ WorkerDies(w) PROVE RunIInv'
  <2>1. at' = [at EXCEPT ![w] = "idle"]
        /\ UNCHANGED <<run, stale, report, recent, rowsVars, saw, finding, review, touched>>
    BY <1>3 DEF LostRun, WorkerDies, Go, rowsVars
  <2>2. \A v \in Runners : at'[v] = "read" => at[v] = "read"
    BY <1>0, <2>1
  <2>3. ReconTypeOK'
    BY <1>0, <2>1 DEF ReconTypeOK, Places, rowsVars
  <2> QED
    BY <1>0, <2>1, <2>2, <2>3, RunIInvKept DEF rowsVars
<1>4. ASSUME NEW w \in Runners, ExecutionFails(w) PROVE RunIInv'
  <2>1. \A v \in Runners : at'[v] = "read" => at[v] = "read"
    BY <1>0, <1>4 DEF ExecutionFails, Go, rowsVars
  <2>2. ReconTypeOK'
    BY <1>0, <1>4 DEF ExecutionFails, Go, ReconTypeOK, Places, rowsVars
  <2> QED
    BY <1>0, <1>4, <2>1, <2>2, RunIInvKept DEF ExecutionFails, rowsVars
<1>5. ASSUME NEW w \in Runners, MarkFailed(w) PROVE RunIInv'
  <2>1. /\ run' \in [status : RunStatus, attempts : 0 .. MaxRunAttempts + 1]
        /\ run'.status = "COMPLETED" <=> run.status = "COMPLETED"
    BY <1>0, <1>5 DEF MarkFailed, RunStatus, rowsVars
  <2>2. \A v \in Runners : at'[v] # "read"
    BY <1>0, <1>5 DEF MarkFailed, RunLocked, Go, rowsVars
  <2>3. ReconTypeOK'
    BY <1>0, <1>5, <2>1 DEF MarkFailed, Go, ReconTypeOK, Places, rowsVars
  <2> QED
    BY <1>5, <2>1, <2>2, <2>3, RunIInvKept DEF MarkFailed, rowsVars
<1>6. ASSUME NEW r \in Refs, StartReview(r) \/ ResolveFinding(r) PROVE RunIInv'
  <2>1. PICK s \in {"IN_REVIEW", "RESOLVED"} :
            r \in DOMAIN review /\ review[r] \in {"OPEN", "IN_REVIEW"}
            /\ review' = [review EXCEPT ![r] = s]
            /\ UNCHANGED <<run, stale, report, recent, rowsVars, at, saw, finding, touched>>
    BY <1>6 DEF StartReview, ResolveFinding, rowsVars
  <2>2. /\ DOMAIN review' = DOMAIN finding
        /\ \A q \in DOMAIN finding : review'[q] = IF q = r THEN s ELSE review[q]
    BY <1>0, <2>1 DEF ReconTypeOK, rowsVars
  <2>3. ReconTypeOK'
    BY <1>0, <2>1, <2>2 DEF ReconTypeOK, Reviews, rowsVars
  <2>4. FindingsAreSound'
    <3>1. \A q \in Ours : Agrees(q)' = Agrees(q)
      BY <2>1 DEF Agrees, rowsVars
    <3> QED
      BY <2>1, <2>2, <3>1 DEF RunIInv, FindingsAreSound, rowsVars
  <2> QED
    BY <1>0, <2>1, <2>3, <2>4 DEF RunIInv, rowsVars
<1>7. ASSUME NEW r \in Ours, NEW s \in ItemStatus, ItemMoves(r, s) PROVE RunIInv'
  <2>1. ReconTypeOK'
    BY <1>0, <1>7 DEF ItemMoves, ReconTypeOK, Moved
  <2>2. \A q \in Ours : q # r => item'[q] = item[q] /\ booked'[q] = booked[q]
    BY <1>0, <1>7 DEF ItemMoves
  <2>3. ASSUME run.status = "COMPLETED" \/ \E w \in Runners : at[w] = "read"
        PROVE  touched' = touched \cup {r}
    BY <1>7, <2>3 DEF ItemMoves, RunLocked
  <2>4. touched \subseteq touched'
    BY <1>7 DEF ItemMoves
  <2> QED
    BY <1>0, <1>7, <2>1, <2>2, <2>3, <2>4, RunIInvKept DEF ItemMoves
<1>8. CASE TimePasses
  BY <1>0, <1>8, RunIInvKept DEF TimePasses, ReconTypeOK, rowsVars
<1>9. CASE DayGrowsOld
  BY <1>0, <1>9, RunIInvKept DEF DayGrowsOld, ReconTypeOK, rowsVars
<1>10. CASE UNCHANGED reconVars
  BY <1>0, <1>10, RunIInvKept DEF reconVars, ReconTypeOK, rowsVars
<1> QED
  BY <1>1, <1>2, <1>3, <1>4, <1>5, <1>6, <1>7, <1>8, <1>9, <1>10, CompleteKeepsRun, Zenon
     DEF ReconNext, Begin, End

LEMMA RunInvariant == ReconSpec => []RunIInv
<1>1. RunIInv /\ [ReconNext]_reconVars => RunIInv'
  BY RunIInvStep
<1> QED
  BY <1>1, RunIInvInit, PTL DEF ReconSpec

\* Findings are written once, with the completion of their run, leave out no line
\* and no settled row, and let only what agrees with the report and the books go
\* without review, unless its row moved meanwhile: services/reconciliation.py
\* execute.
THEOREM SoundFindings == ReconSpec => []FindingsAreSound
<1>1. RunIInv => FindingsAreSound
  BY DEF RunIInv
<1> QED
  BY <1>1, RunInvariant, PTL

\* The types of the day's run, its findings and their review.
THEOREM ReconTypes == ReconSpec => []ReconTypeOK
<1>1. RunIInv => ReconTypeOK
  BY DEF RunIInv
<1> QED
  BY <1>1, RunInvariant, PTL

\* A completed run and a resolved finding are final, whoever still believes that
\* the run is theirs: services/reconciliation.py mark_failed.
THEOREM CompletedStays == ReconSpec => CompletedIsFinal
<1> DEFINE Kept ==
      /\ run.status = "COMPLETED" => run' = run /\ finding' = finding
      /\ \A r \in DOMAIN review : review[r] = "RESOLVED" => review'[r] = "RESOLVED"
<1>1. ASSUME RunIInv, [ReconNext]_reconVars PROVE [Kept]_reconVars
  <2>0. /\ ReconTypeOK
        /\ run.status = "COMPLETED" => \A w \in Runners : at[w] # "read"
        /\ run.status # "COMPLETED" => DOMAIN review = {}
    BY <1>1 DEF RunIInv, FindingsAreSound, ReconTypeOK
  <2>1. ASSUME NEW w \in Runners, NEW byAdmin \in BOOLEAN, ClaimRun(w, byAdmin)
        PROVE  Kept
    BY <2>1 DEF ClaimRun, MayRetake
  <2>2. ASSUME NEW w \in Runners, Complete(w) PROVE Kept
    BY <2>0, <2>2 DEF Complete, RunIInv
  <2>3. ASSUME NEW w \in Runners, MarkFailed(w) PROVE Kept
    BY <2>3 DEF MarkFailed
  <2>4. ASSUME NEW w \in Runners, StartExecution(w) \/ LostRun(w) \/ ExecutionFails(w)
                                  \/ WorkerDies(w)
        PROVE  Kept
    BY <2>4 DEF StartExecution, LostRun, ExecutionFails, WorkerDies
  <2>5. ASSUME NEW r \in Refs, StartReview(r) \/ ResolveFinding(r) PROVE Kept
    BY <2>5 DEF StartReview, ResolveFinding
  <2>6. ASSUME NEW r \in Ours, NEW s \in ItemStatus, ItemMoves(r, s) PROVE Kept
    BY <2>6 DEF ItemMoves
  <2>7. CASE TimePasses \/ DayGrowsOld
    BY <2>7 DEF TimePasses, DayGrowsOld
  <2> HIDE DEF Kept
  <2> QED
    BY <1>1, <2>1, <2>2, <2>3, <2>4, <2>5, <2>6, <2>7, Zenon DEF ReconNext, Begin, End
<1>2. ReconSpec => [][Kept]_reconVars
  <2>1. RunIInv /\ [ReconNext]_reconVars => [Kept]_reconVars
    BY <1>1
  <2> HIDE DEF Kept
  <2> QED
    BY <2>1, RunInvariant, PTL DEF ReconSpec
<1> QED
  BY <1>2 DEF CompletedIsFinal

-----------------------------------------------------------------------------
(* Collections.                                                            *)

\* The levels are numbered from 1 up.
LEMMA LevelsNumbered ==
    /\ MaxLevel \in Nat /\ Levels = 1 .. MaxLevel
    /\ \A v \in Levels : EscalateAt[v] \in Nat
<1>1. MaxLevel \in Nat
  BY CollectionAssumption, FS_CardinalityType DEF MaxLevel
<1> QED
  BY <1>1, CollectionAssumption

\* escalation_level_for: a level whose threshold the days past due have reached.
LEMMA LevelReached ==
    ASSUME NEW d \in Nat
    PROVE  /\ LevelFor(d) \in 0 .. MaxLevel
           /\ LevelFor(d) > 0 => LevelFor(d) \in Levels /\ EscalateAt[LevelFor(d)] <= d
<1> DEFINE S == {v \in Levels : EscalateAt[v] <= d}
<1>1. S \in SUBSET (1 .. MaxLevel)
  BY LevelsNumbered
<1>2. ASSUME NEW v \in S, NEW u \in 1 .. v PROVE u \in S
  <2>1. u \in Levels /\ u <= v /\ v \in Levels
    BY <1>1, LevelsNumbered
  <2>2. EscalateAt[u] <= EscalateAt[v]
    BY <2>1, CollectionAssumption
  <2> QED
    BY <2>1, <2>2, LevelsNumbered
<1>3. Cardinality(S) \in 0 .. MaxLevel /\ S = 1 .. Cardinality(S)
  <2>1. \A v \in S : 1 .. v \subseteq S
    BY <1>2
  <2> HIDE DEF S
  <2> QED
    BY <1>1, <2>1, LevelsNumbered, FirstNumbers
<1>4. LevelFor(d) = Cardinality(S)
  BY DEF LevelFor
<1>5. Cardinality(S) > 0 => Cardinality(S) \in S
  <2> HIDE DEF S
  <2> QED
    BY <1>3, LevelsNumbered
<1> QED
  BY <1>3, <1>4, <1>5

\* The oldest instalment that is late, and for how long.
LEMMA OldestLate ==
    ASSUME CollectionTypeOK, NEW l \in Overdue
    PROVE  /\ Oldest(l) \in Instalments /\ DueOn[Oldest(l)] < today
           /\ Dpd(l) \in 0 .. MaxDay
<1>1. Late(l) \subseteq Instalments /\ Late(l) # {} /\ today \in 0 .. MaxDay
  BY DEF Overdue, Late, CollectionTypeOK
<1>2. \E i \in Late(l) : \A j \in Late(l) : i <= j
  BY <1>1, LeastNatural, CollectionAssumption
<1>3. Oldest(l) \in Late(l)
  BY <1>2 DEF Oldest
<1>4. DueOn[Oldest(l)] < today /\ DueOn[Oldest(l)] \in Nat
  BY <1>1, <1>3, CollectionAssumption DEF Late
<1> QED
  BY <1>1, <1>3, <1>4, CollectionAssumption DEF Dpd

CaseRecord == [status : CaseStatus, dpd : 0 .. MaxDay,
               oldest : Instalments \cup {0}, level : Levels \cup {0}]

\* What is known of one loan's case: the days past due it says are the days its
\* instalment has been due for by now at least, and one that is closed leaves
\* nothing behind.
CaseHolds(l) ==
    /\ case[l].status = "NONE" =>
            case[l].level = 0 /\ reminded[l] = {} /\ raised[l] = {}
    /\ case[l].status # "NONE" =>
            case[l].oldest \in Instalments /\ today - DueOn[case[l].oldest] >= case[l].dpd
    /\ \A r \in reminded[l] : today - DueOn[r[1]] >= r[2]
    /\ \A e \in raised[l] : today - DueOn[e[1]] >= EscalateAt[e[2]] /\ e[2] <= case[l].level
    /\ case[l].status = "ESCALATED" <=> case[l].level > 0

CaseIInv == CollectionTypeOK /\ \A l \in Loans : CaseHolds(l)

LEMMA CaseIInvInit == CollectionInit => CaseIInv
<1> SUFFICES ASSUME CollectionInit PROVE CaseIInv
  OBVIOUS
<1>1. NoCase \in CaseRecord
  BY CollectionAssumption DEF NoCase, CaseRecord, CaseStatus
<1>2. CollectionTypeOK
  BY <1>1, CollectionAssumption
     DEF CollectionInit, CollectionTypeOK, CaseRecord, Phases
<1>3. \A l \in Loans : CaseHolds(l)
  BY DEF CollectionInit, CaseHolds, NoCase
<1> QED
  BY <1>2, <1>3 DEF CaseIInv

\* A step that writes one loan's case.
LEMMA OneCase ==
    ASSUME CaseIInv, NEW l \in Loans, NEW c \in CaseRecord,
           NEW rem \in SUBSET (Instalments \X Milestones),
           NEW rai \in SUBSET (Instalments \X Levels),
           case' = [case EXCEPT ![l] = c],
           reminded' = [reminded EXCEPT ![l] = rem],
           raised' = [raised EXCEPT ![l] = rai],
           UNCHANGED <<today, unpaid>>,
           pass' \in [CollectionWorkers -> [phase : Phases, left : SUBSET Loans]],
           CaseHolds(l)'
    PROVE  CaseIInv'
<1>0. CollectionTypeOK
  BY DEF CaseIInv
<1>1. CollectionTypeOK'
  BY <1>0 DEF CollectionTypeOK, CaseRecord
<1>2. ASSUME NEW k \in Loans, k # l PROVE CaseHolds(k)'
  <2>1. case'[k] = case[k] /\ reminded'[k] = reminded[k] /\ raised'[k] = raised[k]
    BY <1>0, <1>2 DEF CollectionTypeOK
  <2> QED
    BY <2>1 DEF CaseIInv, CaseHolds
<1> QED
  BY <1>1, <1>2 DEF CaseIInv

LEMMA CaseIInvStep ==
    ASSUME CaseIInv, [CollectionNext]_collectionVars
    PROVE  CaseIInv'
<1>0. /\ CollectionTypeOK
      /\ today \in 0 .. MaxDay
      /\ case \in [Loans -> CaseRecord]
      /\ reminded \in [Loans -> SUBSET (Instalments \X Milestones)]
      /\ raised \in [Loans -> SUBSET (Instalments \X Levels)]
      /\ pass \in [CollectionWorkers -> [phase : Phases, left : SUBSET Loans]]
      /\ DueOn \in [Instalments -> Nat]
  BY CollectionAssumption DEF CaseIInv, CollectionTypeOK, CaseRecord
<1>a. ASSUME NEW l \in Loans
      PROVE  /\ case[l] \in CaseRecord /\ CaseHolds(l)
             /\ case[l].dpd \in 0 .. MaxDay /\ case[l].level \in 0 .. MaxLevel
             /\ case[l].status \in CaseStatus
             /\ l \in Live <=> case[l].status # "NONE"
             /\ reminded' = [reminded EXCEPT ![l] = reminded[l]] <=> reminded' = reminded
  BY <1>0, LevelsNumbered DEF CaseIInv, CaseRecord, Live
<1>b. ASSUME NEW w \in CollectionWorkers, NEW l \in Loans, NEW phase, Take(w, phase, l)
      PROVE  /\ UNCHANGED <<today, unpaid>>
             /\ pass' \in [CollectionWorkers -> [phase : Phases, left : SUBSET Loans]]
  BY <1>0, <1>b DEF Take
<1>c. /\ today \in Nat /\ \A i \in Instalments : DueOn[i] \in Nat
      /\ \A m \in Milestones : m \in Nat
      /\ \A l \in Loans : case[l].dpd \in Nat
  <2>1. MaxDay \in Nat /\ \A m \in Milestones : m \in Nat
    BY CollectionAssumption
  <2> QED
    BY <1>0, <1>a, <2>1
<1>1. ASSUME NEW w \in CollectionWorkers, NEW l \in Loans, SyncSchedule(w, l)
      PROVE  CaseIInv'
  <2>1. Take(w, "sync", l)
    BY <1>1 DEF SyncSchedule
  <2>2. CASE l \in Overdue
    <3>1. /\ case' = [case EXCEPT ![l] = Synced(l)]
          /\ reminded' = reminded /\ raised' = raised
      BY <1>1, <2>2 DEF SyncSchedule
    <3>2. /\ Synced(l).status = IF l \in Live THEN case[l].status ELSE "OPEN"
          /\ Synced(l).dpd = Dpd(l) /\ Synced(l).oldest = Oldest(l)
          /\ Synced(l).level = case[l].level
          /\ Synced(l) \in CaseRecord
      BY <1>a, <2>2, <1>0, OldestLate, LevelsNumbered DEF Synced, CaseRecord, CaseStatus
    <3>3. Dpd(l) = today - DueOn[Oldest(l)] /\ Oldest(l) \in Instalments
      BY <1>0, <2>2, OldestLate DEF Dpd
    <3>4. case'[l] = Synced(l) /\ today' = today
      BY <1>0, <1>b, <2>1, <3>1
    <3>5. CaseHolds(l)'
      BY <1>a, <1>0, <3>1, <3>2, <3>3, <3>4 DEF CaseHolds
    <3>6. /\ reminded' = [reminded EXCEPT ![l] = reminded[l]]
          /\ raised' = [raised EXCEPT ![l] = raised[l]]
      BY <1>0, <3>1
    <3> QED
      BY <1>0, <1>b, <2>1, <3>1, <3>2, <3>5, <3>6, OneCase
  <2>3. CASE l \notin Overdue
    <3>1. /\ case' = [case EXCEPT ![l] = NoCase]
          /\ reminded' = [reminded EXCEPT ![l] = {}] /\ raised' = [raised EXCEPT ![l] = {}]
      BY <1>1, <2>3 DEF SyncSchedule
    <3>2. NoCase \in CaseRecord
      BY CollectionAssumption DEF NoCase, CaseRecord, CaseStatus
    <3>3. case'[l] = NoCase /\ reminded'[l] = {} /\ raised'[l] = {}
      BY <1>0, <3>1
    <3>4. CaseHolds(l)'
      BY <3>3 DEF CaseHolds, NoCase
    <3> QED
      BY <1>0, <1>b, <2>1, <3>1, <3>2, <3>4, OneCase
  <2> QED
    BY <2>2, <2>3
<1>2. ASSUME NEW w \in CollectionWorkers, NEW l \in Loans, ScheduleReminders(w, l)
      PROVE  CaseIInv'
  <2>1. Take(w, "remind", l) /\ case' = case /\ raised' = raised
    BY <1>2 DEF ScheduleReminders
  <2>2. /\ case' = [case EXCEPT ![l] = case[l]] /\ raised' = [raised EXCEPT ![l] = raised[l]]
        /\ case'[l] = case[l] /\ raised'[l] = raised[l] /\ today' = today
    BY <1>0, <1>b, <2>1
  <2>3. CASE l \in Live
    <3> DEFINE add == {case[l].oldest} \X DueMilestone(case[l].dpd)
    <3>1. /\ reminded' = [reminded EXCEPT ![l] = reminded[l] \cup add]
          /\ reminded'[l] = reminded[l] \cup add
      BY <1>0, <1>2, <2>3 DEF ScheduleReminders
    <3>2. case[l].oldest \in Instalments /\ today - DueOn[case[l].oldest] >= case[l].dpd
      BY <1>a, <2>3 DEF CaseHolds
    <3>3. \A r \in add : r \in Instalments \X Milestones /\ today - DueOn[r[1]] >= r[2]
      <4> SUFFICES ASSUME NEW r \in add
                   PROVE  r \in Instalments \X Milestones /\ today - DueOn[r[1]] >= r[2]
        OBVIOUS
      <4>1. r[1] = case[l].oldest /\ r[2] \in Milestones /\ r[2] <= case[l].dpd
            /\ r = <<r[1], r[2]>>
        BY DEF DueMilestone
      <4>2. r[2] \in Nat /\ DueOn[case[l].oldest] \in Nat /\ case[l].dpd \in Nat /\ today \in Nat
        BY <1>a, <1>c, <3>2, <4>1
      <4> QED
        BY <3>2, <4>1, <4>2
    <3> HIDE DEF add
    <3>4. CaseHolds(l)'
      BY <1>a, <2>2, <2>3, <3>1, <3>3 DEF CaseHolds
    <3>5. reminded[l] \cup add \in SUBSET (Instalments \X Milestones)
      BY <1>0, <3>3
    <3> QED
      BY <1>0, <1>a, <1>b, <2>1, <2>2, <3>1, <3>4, <3>5, OneCase
  <2>4. CASE l \notin Live
    <3>1. reminded' = [reminded EXCEPT ![l] = reminded[l]] /\ reminded'[l] = reminded[l]
      BY <1>0, <1>2, <2>4 DEF ScheduleReminders
    <3>2. CaseHolds(l)'
      BY <1>a, <2>2, <3>1 DEF CaseHolds
    <3> QED
      BY <1>0, <1>a, <1>b, <2>1, <2>2, <3>1, <3>2, OneCase
  <2> QED
    BY <2>3, <2>4
<1>3. ASSUME NEW w \in CollectionWorkers, NEW l \in Loans, EscalateCase(w, l)
      PROVE  CaseIInv'
  <2> DEFINE target == LevelFor(case[l].dpd)
  <2>1. Take(w, "escalate", l) /\ reminded' = reminded
    BY <1>3 DEF EscalateCase
  <2>2. /\ reminded' = [reminded EXCEPT ![l] = reminded[l]]
        /\ reminded'[l] = reminded[l] /\ today' = today
    BY <1>0, <1>b, <2>1
  <2>3. target \in 0 .. MaxLevel
        /\ (target > 0 => target \in Levels /\ EscalateAt[target] <= case[l].dpd)
    BY <1>a, LevelReached, CollectionAssumption
  <2>4. CASE l \in Live /\ target > case[l].level
    <3> DEFINE c == [case[l] EXCEPT !.level = target, !.status = "ESCALATED"]
    <3>1. /\ case' = [case EXCEPT ![l] = c]
          /\ raised' = [raised EXCEPT ![l] = raised[l] \cup {<<case[l].oldest, target>>}]
      BY <1>3, <2>4, Zenon DEF EscalateCase
    <3>2. target > 0 /\ target \in Levels /\ EscalateAt[target] <= case[l].dpd
          /\ EscalateAt[target] \in Nat
      BY <1>a, <2>3, <2>4, LevelsNumbered
    <3> HIDE DEF target
    <3>3. /\ c \in CaseRecord /\ c.status = "ESCALATED" /\ c.level = target
          /\ c.dpd = case[l].dpd /\ c.oldest = case[l].oldest
      BY <1>a, <3>2 DEF CaseRecord, CaseStatus
    <3> HIDE DEF c
    <3>4. case[l].oldest \in Instalments /\ today - DueOn[case[l].oldest] >= case[l].dpd
      BY <1>a, <2>4 DEF CaseHolds
    <3>5. /\ case'[l] = c /\ raised'[l] = raised[l] \cup {<<case[l].oldest, target>>}
      BY <1>0, <3>1
    <3>6. \A e \in raised'[l] :
            today - DueOn[e[1]] >= EscalateAt[e[2]] /\ e[2] <= target
      <4>1. ASSUME NEW e \in raised[l]
            PROVE  today - DueOn[e[1]] >= EscalateAt[e[2]] /\ e[2] <= target
        <5>1. e[2] \in Levels /\ e[2] \in 1 .. MaxLevel /\ e[2] <= case[l].level
              /\ today - DueOn[e[1]] >= EscalateAt[e[2]]
          BY <1>0, <1>a, LevelsNumbered DEF CaseHolds
        <5> QED
          BY <1>a, <2>4, <2>3, <5>1, LevelsNumbered DEF target
      <4>2. today - DueOn[case[l].oldest] >= EscalateAt[target]
        <5>1. DueOn[case[l].oldest] \in Nat /\ case[l].dpd \in Nat /\ today \in Nat
          BY <1>0, <1>a, <3>4
        <5> QED
          BY <3>2, <3>4, <5>1
      <4> QED
        BY <2>3, <3>5, <4>1, <4>2, LevelsNumbered
    <3>7. CaseHolds(l)'
      BY <1>a, <2>2, <3>2, <3>3, <3>4, <3>5, <3>6 DEF CaseHolds
    <3>8. raised[l] \cup {<<case[l].oldest, target>>} \in SUBSET (Instalments \X Levels)
      BY <1>0, <3>2, <3>4
    <3> QED
      BY <1>0, <1>b, <2>1, <2>2, <3>1, <3>3, <3>7, <3>8, OneCase
  <2>5. CASE ~ (l \in Live /\ target > case[l].level)
    <3>1. case' = case /\ raised' = raised
      BY <1>3, <2>5 DEF EscalateCase
    <3>2. /\ case' = [case EXCEPT ![l] = case[l]] /\ raised' = [raised EXCEPT ![l] = raised[l]]
      BY <1>0, <3>1
    <3>3. CaseHolds(l)'
      BY <1>a, <2>2, <3>1 DEF CaseHolds
    <3> QED
      BY <1>0, <1>a, <1>b, <2>1, <2>2, <3>2, <3>3, OneCase
  <2> QED
    BY <2>4, <2>5
<1>4. ASSUME NEW l \in Loans, Work(l) PROVE CaseIInv'
  <2> DEFINE c == [case[l] EXCEPT !.status = Worked(@)]
  <2>1. case' = [case EXCEPT ![l] = c]
    BY <1>4, Zenon DEF Work
  <2>2. /\ c \in CaseRecord /\ c.level = case[l].level /\ c.dpd = case[l].dpd
        /\ c.oldest = case[l].oldest
        /\ c.status # "NONE" /\ (c.status = "ESCALATED" <=> case[l].status = "ESCALATED")
    BY <1>4, <1>a DEF CaseRecord, CaseStatus, Worked, Work
  <2>3. /\ UNCHANGED <<today, unpaid, reminded, raised, pass>> /\ case[l].status # "NONE"
        /\ reminded' = [reminded EXCEPT ![l] = reminded[l]]
        /\ raised' = [raised EXCEPT ![l] = raised[l]]
    BY <1>0, <1>4 DEF Work, Live
  <2> HIDE DEF c
  <2>4. case'[l] = c
    BY <1>0, <2>1
  <2>5. CaseHolds(l)'
    BY <1>a, <2>2, <2>3, <2>4 DEF CaseHolds
  <2> QED
    BY <1>0, <2>1, <2>2, <2>3, <2>5, OneCase
<1>5. ASSUME NEW l \in Loans, EscalateManually(l) PROVE CaseIInv'
  <2> DEFINE c == [case[l] EXCEPT !.level = @ + 1, !.status = "ESCALATED"]
  <2>1. case' = [case EXCEPT ![l] = c]
    BY <1>5, Zenon DEF EscalateManually
  <2>2. case[l].level + 1 \in Levels /\ case[l].level + 1 > 0
    BY <1>5, <1>a, LevelsNumbered DEF EscalateManually
  <2>3. /\ c \in CaseRecord /\ c.level = case[l].level + 1 /\ c.dpd = case[l].dpd
        /\ c.oldest = case[l].oldest /\ c.status = "ESCALATED"
    BY <1>a, <2>2 DEF CaseRecord, CaseStatus
  <2>4. /\ UNCHANGED <<today, unpaid, reminded, raised, pass>> /\ case[l].status # "NONE"
        /\ reminded' = [reminded EXCEPT ![l] = reminded[l]]
        /\ raised' = [raised EXCEPT ![l] = raised[l]]
    BY <1>0, <1>5 DEF EscalateManually, Live
  <2> HIDE DEF c
  <2>5. case'[l] = c
    BY <1>0, <2>1
  <2>6. \A e \in raised[l] : e[2] <= case[l].level + 1
    BY <1>0, <1>a, LevelsNumbered DEF CaseHolds
  <2>7. CaseHolds(l)'
    BY <1>a, <2>2, <2>3, <2>4, <2>5, <2>6 DEF CaseHolds
  <2> QED
    BY <1>0, <2>1, <2>3, <2>4, <2>7, OneCase
<1>6. ASSUME CollectionTypeOK', UNCHANGED <<case, reminded, raised>>,
             today' = today \/ today' = today + 1
      PROVE  CaseIInv'
  <2>1. ASSUME NEW l \in Loans PROVE CaseHolds(l)'
    <3>0. /\ \A r \in reminded[l] : r[1] \in Instalments /\ r[2] \in Milestones
          /\ \A e \in raised[l] : e[1] \in Instalments /\ e[2] \in Levels
      BY <1>0
    <3>1. /\ \A r \in reminded[l] : DueOn[r[1]] \in Nat /\ r[2] \in Nat
          /\ \A e \in raised[l] : DueOn[e[1]] \in Nat /\ EscalateAt[e[2]] \in Nat
          /\ case[l].status # "NONE" => DueOn[case[l].oldest] \in Nat
      BY <1>0, <1>a, <1>c, <3>0, LevelsNumbered DEF CaseHolds
    <3> QED
      BY <1>0, <1>a, <1>6, <3>1 DEF CaseHolds
  <2> QED
    BY <1>6, <2>1 DEF CaseIInv
<1>7. ASSUME NEW w \in CollectionWorkers, NextPhase(w) PROVE CaseIInv'
  <2>1. PICK phase \in Phases, list \in SUBSET Loans :
            pass' = [pass EXCEPT ![w] = [phase |-> phase, left |-> list]]
    BY <1>7, Zenon DEF NextPhase
  <2>2. UNCHANGED <<today, unpaid, case, reminded, raised>>
    BY <1>7, Zenon DEF NextPhase
  <2> QED
    BY <1>0, <1>6, <2>1, <2>2 DEF CollectionTypeOK
<1>8. ASSUME NEW l \in Loans, Pay(l) \/ Reverse(l) PROVE CaseIInv'
  <2>1. PICK i \in Instalments : /\ unpaid' = [unpaid EXCEPT ![l] = @ \ {i}]
                                    \/ unpaid' = [unpaid EXCEPT ![l] = @ \cup {i}]
                                 /\ UNCHANGED <<today, case, reminded, raised, pass>>
    BY <1>0, <1>8 DEF Pay, Reverse, CollectionTypeOK
  <2> QED
    BY <1>0, <1>6, <2>1 DEF CollectionTypeOK
<1>9. CASE DayPasses
  BY <1>0, <1>6, <1>9, CollectionAssumption DEF DayPasses, CollectionTypeOK
<1>10. CASE UNCHANGED collectionVars
  BY <1>0, <1>6, <1>10 DEF collectionVars, CollectionTypeOK
<1> QED
  BY <1>1, <1>2, <1>3, <1>4, <1>5, <1>7, <1>8, <1>9, <1>10, Zenon DEF CollectionNext, Item

LEMMA CaseInvariant == CollectionSpec => []CaseIInv
<1>1. CaseIInv /\ [CollectionNext]_collectionVars => CaseIInv'
  BY CaseIInvStep
<1> QED
  BY <1>1, CaseIInvInit, PTL DEF CollectionSpec

\* No customer is reminded, and no case raised by the worker, earlier than the
\* instalment it is about has been due for: services/collections.py.
THEOREM NotTooEarly == CollectionSpec => []NothingTooEarly
<1>1. CaseIInv => NothingTooEarly
  BY DEF CaseIInv, CaseHolds, NothingTooEarly
<1> QED
  BY <1>1, CaseInvariant, PTL

\* The types of the cases, their reminders and escalations, and the passes.
THEOREM CollectionTypes == CollectionSpec => []CollectionTypeOK
<1>1. CaseIInv => CollectionTypeOK
  BY DEF CaseIInv
<1> QED
  BY <1>1, CaseInvariant, PTL

=============================================================================
