--------------------------- MODULE PayoutPromise ----------------------------
(***************************************************************************)
(* What the disbursement of one offer promises, without rows, retries or   *)
(* reports: the money goes out, is booked, may come back and is then       *)
(* booked back, and it goes out again only after that round is closed.     *)
(***************************************************************************)
VARIABLES
    money,   \* the loan amount is with the customer
    round    \* "closed", "unbooked": paid, not in the books; "booked"

promiseVars == <<money, round>>

Init == money = FALSE /\ round = "closed"

PayOut ==
    /\ round = "closed" /\ ~money
    /\ money' = TRUE
    /\ round' = "unbooked"

ComeBack ==
    /\ money
    /\ money' = FALSE
    /\ UNCHANGED round

Book ==
    /\ round = "unbooked"
    /\ round' = "booked"
    /\ UNCHANGED money

\* Booked back, or never booked at all: only once the money is back.
Close ==
    /\ round # "closed" /\ ~money
    /\ round' = "closed"
    /\ UNCHANGED money

\* The submit whose answer already says that the money is out.
PayOutAndBook ==
    /\ round = "closed" /\ ~money
    /\ money' = TRUE
    /\ round' = "booked"

Next == PayOut \/ ComeBack \/ Book \/ Close \/ PayOutAndBook

Spec == Init /\ [][Next]_promiseVars
=============================================================================
