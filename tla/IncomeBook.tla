----------------------------- MODULE IncomeBook -----------------------------
(***************************************************************************)
(* What the income figures promise: an order is booked with its present    *)
(* day and amount when it is finished and not at all otherwise, orders are *)
(* booked in one indivisible step, and a bucket's totals are the sums of   *)
(* what is booked there.                                                   *)
(***************************************************************************)
EXTENDS Naturals, FiniteSets, FiniteSetsExt

CONSTANTS OrderIds, Days, Categories, Amounts, NotBooked

VARIABLES
  orders,   \* what the platform's orders say
  booked,   \* the entry of every order
  totals    \* income and order count per bucket

OrderRows == [status : {"open", "void", "done"}, day : Days, amount : Amounts]
Entries   == [day : Days, cat : Categories, amount : Amounts]
Buckets   == Days \X Categories

InBucket(es, b) == {i \in OrderIds : es[i] # NotBooked /\ b = <<es[i].day, es[i].cat>>}
IncomeIn(es, b) == SumFunction([i \in InBucket(es, b) |-> es[i].amount])
SumsOf(es) ==
  [b \in Buckets |-> [income |-> IncomeIn(es, b), count |-> Cardinality(InBucket(es, b))]]

Init ==
  /\ orders \in [OrderIds -> OrderRows]
  /\ booked = [i \in OrderIds |-> NotBooked]
  /\ totals = SumsOf(booked)

OrdersChange ==
  /\ orders' \in [OrderIds -> OrderRows]
  /\ UNCHANGED <<booked, totals>>

\* The category is looked up when the order is booked.
EntryOf(i, cat) ==
  IF orders[i].status = "done"
  THEN [day |-> orders[i].day, cat |-> cat, amount |-> orders[i].amount]
  ELSE NotBooked

Post(S, cats) ==
  /\ booked' = [i \in OrderIds |-> IF i \in S THEN EntryOf(i, cats[i]) ELSE booked[i]]
  /\ totals' = SumsOf(booked')
  /\ UNCHANGED orders

Next ==
  \/ OrdersChange
  \/ \E S \in SUBSET OrderIds, cats \in [OrderIds -> Categories] : Post(S, cats)

BookSpec == Init /\ [][Next]_<<orders, booked, totals>>
=============================================================================
