------------------------------- MODULE Ledger -------------------------------
(***************************************************************************)
(* The capacity ledger (src/engine/ledger.cpp): claims on physical budgets *)
(* in, one account per resource class and one per resource class and       *)
(* failure domain out.  Identities are compared by their tokens in the     *)
(* code; here they are numbers in that order.  A claim is a record         *)
(* [resource, key, owner, domain, amount, reserved]; the key names the     *)
(* physical budget.  snapshot.cpp admits at most one claim of an owner on  *)
(* a budget, so the claims on one are a set.                               *)
(***************************************************************************)
EXTENDS Naturals, FiniteSets, FiniteSetsExt

CONSTANTS
    CounterLimit,          \* largest value of the 64-bit counters
    MaxCapacityTotal       \* policy.max_capacity_total

ASSUME LedgerAssumption ==
    /\ CounterLimit \in Nat
    /\ MaxCapacityTotal \in Nat

\* CapacityStatus, from the mildest to the worst.
CapacitySeverity ==
    [ok |-> 0, deduplicated |-> 1, incomplete |-> 2, indeterminate |-> 3, conflicting |-> 4,
     exhausted |-> 5, unsupported |-> 6]
WorstCapacity(a, b) == IF CapacitySeverity[a] >= CapacitySeverity[b] THEN a ELSE b
capacity_is_usable(status) == status \in {"ok", "deduplicated"}

\* checked_add(): a sum that does not fit leaves the counter as it was.
Fits(a, b) == a + b =< CounterLimit
AddIfFits(a, b) == IF Fits(a, b) THEN a + b ELSE a

-----------------------------------------------------------------------------
\* The order freeze() sorts the claims on one budget in; the first one wins.
Precedes(a, b) ==
    \/ a.amount < b.amount
    \/ a.amount = b.amount /\ a.reserved < b.reserved
    \/ a.amount = b.amount /\ a.reserved = b.reserved /\ a.owner < b.owner
    \/ a.amount = b.amount /\ a.reserved = b.reserved /\ a.owner = b.owner /\ a.domain =< b.domain
Primary(claims) == CHOOSE c \in claims : \A other \in claims : Precedes(c, other)

\* Claims on one budget disagree when they differ in anything but their owner.
Disagree(claims) ==
    \E a, b \in claims : <<a.amount, a.reserved, a.domain>> # <<b.amount, b.reserved, b.domain>>

\* What a budget is counted at: the smallest amount offered, and the largest
\* part of it that anybody reserves.
Least(a, b) == IF a =< b THEN a ELSE b
LargestAmount(claims) == Max({c.amount : c \in claims})   \* mutant of the next
CountedAmount(claims) == Primary(claims).amount
CountedReserved(claims) == Max({Least(c.reserved, CountedAmount(claims)) : c \in claims})

-----------------------------------------------------------------------------
Slot(claims, resource, key) == {c \in claims : c.resource = resource /\ c.key = key}
SlotKeys(claims, resource)  == {c.key : c \in {x \in claims : x.resource = resource}}

EmptyAccount == [total |-> 0, reserved |-> 0, status |-> "ok", scoped |-> <<>>]

\* A domain's share with one more budget, unless a sum stopped it before or does so
\* now; it has the status of the pod's account when this budget is reached.
EmptyShare == [total |-> 0, reserved |-> 0, full |-> FALSE, owners |-> {}, status |-> "ok"]
Enlarged(share, amount, reserved, owners, status) ==
    LET room == ~share.full /\ Fits(share.total, amount) /\ Fits(share.reserved, reserved)
    IN  [total    |-> IF room THEN share.total + amount ELSE share.total,
         reserved |-> IF room THEN share.reserved + reserved ELSE share.reserved,
         full     |-> ~room,
         owners   |-> share.owners \cup owners,
         status   |-> status]
AddToDomain(scoped, usable, status) ==
    LET d     == Primary(usable).domain
        share == IF d \in DOMAIN scoped THEN scoped[d] ELSE EmptyShare
        new   == Enlarged(share, CountedAmount(usable), CountedReserved(usable),
                          {c.owner : c \in usable}, status)
    IN  [x \in DOMAIN scoped \cup {d} |-> IF x = d THEN new ELSE scoped[x]]

\* One turn of the loop of freeze(): the budget `key' with its usable and its
\* withheld claims.
CountSlot(account, usable, withheld) ==
    LET noted == IF withheld # {} \/ usable = {} THEN WorstCapacity(account.status, "incomplete")
                 ELSE account.status
    IN  IF usable = {} THEN [account EXCEPT !.status = noted]
        ELSE LET shared   == IF Cardinality(usable) = 1 THEN noted
                             ELSE IF Disagree(usable) THEN WorstCapacity(noted, "conflicting")
                             ELSE WorstCapacity(noted, "deduplicated")
                 amount   == CountedAmount(usable)
                 reserved == CountedReserved(usable)
                 total    == AddIfFits(account.total, amount)
                 sound    == /\ Fits(account.total, amount) /\ Fits(account.reserved, reserved)
                             /\ total =< MaxCapacityTotal
                 status   == IF sound THEN shared ELSE WorstCapacity(shared, "indeterminate")
             IN  [total    |-> total,
                  reserved |-> AddIfFits(account.reserved, reserved),
                  status   |-> status,
                  scoped   |-> AddToDomain(account.scoped, usable, status)]

\* freeze(): the account of one resource class, budgets in the order of their
\* keys, and the shares of its domains.
Account(usable, withheld, resource) ==
    MapThenFoldSet(
        LAMBDA key, account : CountSlot(account, Slot(usable, resource, key),
                                        Slot(withheld, resource, key)),
        EmptyAccount, LAMBDA key : key, Max, SlotKeys(usable \cup withheld, resource))

Closed(account, owners) ==
    LET overspent == account.reserved > account.total
    IN  [total    |-> account.total,
         reserved |-> account.reserved,
         headroom |-> IF overspent THEN 0 ELSE account.total - account.reserved,
         status   |-> IF overspent THEN WorstCapacity(account.status, "exhausted")
                      ELSE account.status,
         owners   |-> owners,
         scoped   |-> [d \in DOMAIN account.scoped |->
                          [total  |-> account.scoped[d].total,
                           reserved |-> account.scoped[d].reserved,
                           status |-> IF account.scoped[d].full
                                      THEN WorstCapacity(account.scoped[d].status, "indeterminate")
                                      ELSE account.scoped[d].status,
                           owners |-> account.scoped[d].owners]]]
by_resource(usable, withheld, resource) ==
    Closed(Account(usable, withheld, resource),
           {c.owner : c \in {x \in usable \cup withheld : x.resource = resource}})
=============================================================================
