--------------------------- MODULE VerdictProofs ---------------------------
(***************************************************************************)
(* Lemmas about single verdicts of the composer: what the capacity ledger  *)
(* comes to after any number of budgets, which domains the greedy packing  *)
(* takes, and which outcomes each verdict can have.                        *)
(***************************************************************************)
EXTENDS Verdicts, FoldLemmas

\* The claims the ledger is given, with their owners.
OwnedClaims ==
    [owner : Nat, resource : Nat, key : Nat, domain : Nat, amount : Nat, reserved : Nat]

-----------------------------------------------------------------------------
\* The order of the claims on one budget is total, so one of them comes first.
LEMMA PrimaryIsFirst ==
    ASSUME NEW claims, claims \subseteq OwnedClaims, claims # {}
    PROVE  /\ Primary(claims) \in claims
           /\ \A other \in claims : Precedes(Primary(claims), other)
  <1> DEFINE amount   == [c \in OwnedClaims |-> c.amount]
             reserved == [c \in OwnedClaims |-> c.reserved]
             owner    == [c \in OwnedClaims |-> c.owner]
             domain   == [c \in OwnedClaims |-> c.domain]
             Natural(f) == \A c \in OwnedClaims : f[c] \in Nat
  <1>1. Natural(amount) /\ Natural(reserved) /\ Natural(owner) /\ Natural(domain)
    BY DEF OwnedClaims
  <1>2. \A c \in OwnedClaims : /\ amount[c] = c.amount /\ reserved[c] = c.reserved
                               /\ owner[c] = c.owner /\ domain[c] = c.domain
    OBVIOUS
  <1> HIDE DEF amount, reserved, owner, domain
  <1>3. PICK a \in claims : \A c \in claims : amount[a] =< amount[c]
    BY <1>1, LeastBy
  <1> DEFINE few == {c \in claims : amount[c] = amount[a]}
  <1>4. PICK b \in few : \A c \in few : reserved[b] =< reserved[c]
    <2>1. few # {} /\ few \subseteq OwnedClaims
      OBVIOUS
    <2> HIDE DEF few
    <2> QED  BY <1>1, <2>1, LeastBy
  <1> DEFINE fewer == {c \in few : reserved[c] = reserved[b]}
  <1>5. PICK d \in fewer : \A c \in fewer : owner[d] =< owner[c]
    <2>1. fewer # {} /\ fewer \subseteq OwnedClaims
      OBVIOUS
    <2> HIDE DEF fewer
    <2> QED  BY <1>1, <2>1, LeastBy
  <1> DEFINE last == {c \in fewer : owner[c] = owner[d]}
  <1>6. PICK first \in last : \A c \in last : domain[first] =< domain[c]
    <2>1. last # {} /\ last \subseteq OwnedClaims
      OBVIOUS
    <2> HIDE DEF last
    <2> QED  BY <1>1, <2>1, LeastBy
  <1>7. /\ first \in claims /\ amount[first] = amount[a]
        /\ reserved[first] = reserved[b] /\ owner[first] = owner[d]
    OBVIOUS
  <1>8. ASSUME NEW other \in claims
        PROVE  \/ amount[first] < amount[other]
               \/ /\ amount[first] = amount[other]
                  /\ \/ reserved[first] < reserved[other]
                     \/ /\ reserved[first] = reserved[other]
                        /\ \/ owner[first] < owner[other]
                           \/ /\ owner[first] = owner[other]
                              /\ domain[first] =< domain[other]
    <2>1. Natural(amount) /\ Natural(reserved) /\ Natural(owner) /\ Natural(domain)
      BY <1>1
    <2>2. amount[a] < amount[other] \/ other \in few
      BY <1>3, <2>1
    <2>3. other \in few => reserved[b] < reserved[other] \/ other \in fewer
      BY <1>4, <2>1
    <2>4. other \in fewer => owner[d] < owner[other] \/ other \in last
      BY <1>5, <2>1
    <2>5. other \in last => domain[first] =< domain[other]
      BY <1>6
    <2> QED  BY <1>7, <2>2, <2>3, <2>4, <2>5
  <1>9. \A other \in claims : Precedes(first, other)
    <2> HIDE DEF few, fewer, last
    <2> QED  BY <1>2, <1>7, <1>8 DEF Precedes
  <1> HIDE DEF few, fewer, last
  <1> QED  BY <1>7, <1>9 DEF Primary

\* A budget is counted at the smallest amount anybody offers, and no more of it is
\* reserved than that.
LEMMA BudgetCount ==
    ASSUME NEW claims, claims \subseteq OwnedClaims, claims # {}
    PROVE  /\ CountedAmount(claims) \in Nat
           /\ CountedAmount(claims) = Min({c.amount : c \in claims})
           /\ CountedReserved(claims) \in Nat
           /\ CountedReserved(claims) =< CountedAmount(claims)
           /\ Primary(claims).domain \in Nat
  <1> DEFINE first == Primary(claims)
             A == CountedAmount(claims)
             amounts == {c.amount : c \in claims}
             parts == {Least(c.reserved, A) : c \in claims}
  <1>1. first \in claims /\ first \in OwnedClaims /\ \A other \in claims : Precedes(first, other)
    BY PrimaryIsFirst
  <1>2. A = first.amount /\ A \in Nat /\ first.domain \in Nat
    BY <1>1 DEF CountedAmount, OwnedClaims
  <1> HIDE DEF first, A
  <1>3. A = Min(amounts)
    <2>1. A \in amounts
      BY <1>1, <1>2
    <2>2. \A c \in claims : A =< c.amount
      BY <1>1, <1>2 DEF Precedes, OwnedClaims
    <2>3. amounts \subseteq Nat /\ amounts # {} /\ \A k \in amounts : A =< k
      <3>1. \A c \in claims : c.amount \in Nat
        BY DEF OwnedClaims
      <3> QED  BY <2>1, <2>2, <3>1
    <2> HIDE DEF amounts
    <2>4. Min(amounts) \in amounts /\ \A k \in amounts : Min(amounts) =< k
      BY <2>3, MinIsOne
    <2>5. A \in amounts
      BY <2>1 DEF amounts
    <2>6. Min(amounts) =< A /\ A =< Min(amounts) /\ Min(amounts) \in Nat
      BY <2>3, <2>4, <2>5
    <2> QED  BY <1>2, <2>6
  <1>4. parts \subseteq 0 .. A /\ parts # {}
    <2>1. \A c \in claims : Least(c.reserved, A) \in 0 .. A
      BY <1>2 DEF Least, OwnedClaims
    <2> QED  BY <2>1
  <1>5. Max(parts) \in parts
    <2> HIDE DEF parts
    <2>1. PICK k \in parts : \A j \in parts : j =< k
      BY <1>2, <1>4, LargestMember
    <2>2. \A j \in parts : k >= j
      BY <1>2, <1>4, <2>1
    <2> QED  BY <2>2 DEF Max
  <1>6. CountedReserved(claims) = Max(parts)
    BY DEF CountedReserved, A
  <1>7. Max(parts) \in Nat /\ Max(parts) =< A
    BY <1>2, <1>4, <1>5
  <1> QED  BY <1>2, <1>3, <1>6, <1>7 DEF A, first

-----------------------------------------------------------------------------
\* The states of an account, and the worse of two of them: usable only if both are.
CapacityStatuses == DOMAIN CapacitySeverity

LEMMA WorseOfTwo ==
    ASSUME NEW a \in CapacityStatuses, NEW b \in CapacityStatuses
    PROVE  /\ WorstCapacity(a, b) \in CapacityStatuses
           /\ capacity_is_usable(WorstCapacity(a, b)) => capacity_is_usable(a) /\ capacity_is_usable(b)
  BY DEF WorstCapacity, capacity_is_usable, CapacityStatuses, CapacitySeverity

\* What the code's types make of an account and of its shares; the owners of a share
\* are among those whose claims are counted.
ShareRecords(owners) ==
    [total : Nat, reserved : Nat, full : BOOLEAN, owners : SUBSET owners, status : CapacityStatuses]
Scopes(owners) == UNION {[domains -> ShareRecords(owners)] : domains \in SUBSET Nat}
Accounts(owners) ==
    [total : Nat, reserved : Nat, status : CapacityStatuses, scoped : Scopes(owners)]

LEMMA EmptyAccountTyped == ASSUME NEW owners PROVE EmptyAccount \in Accounts(owners)
  <1>1. <<>> \in [{} -> ShareRecords(owners)]
    OBVIOUS
  <1>2. <<>> \in Scopes(owners)
    BY <1>1 DEF Scopes
  <1>3. "ok" \in CapacityStatuses
    BY DEF CapacityStatuses, CapacitySeverity
  <1> QED  BY <1>2, <1>3 DEF EmptyAccount, Accounts

LEMMA ShareTyped ==
    ASSUME NEW owners, NEW scoped \in Scopes(owners), NEW usable, usable \subseteq OwnedClaims,
           usable # {}, {c.owner : c \in usable} \subseteq owners, NEW status \in CapacityStatuses
    PROVE  AddToDomain(scoped, usable, status) \in Scopes(owners)
  <1> DEFINE d     == Primary(usable).domain
             share == IF d \in DOMAIN scoped THEN scoped[d] ELSE EmptyShare
             named == {c.owner : c \in usable}
             A     == CountedAmount(usable)
             R     == CountedReserved(usable)
             new   == Enlarged(share, A, R, named, status)
             after == [x \in DOMAIN scoped \cup {d} |-> IF x = d THEN new ELSE scoped[x]]
  <1>1. AddToDomain(scoped, usable, status) = after
    BY DEF AddToDomain
  <1>2. d \in Nat /\ A \in Nat /\ R \in Nat
    BY BudgetCount
  <1>3. PICK domains \in SUBSET Nat : scoped \in [domains -> ShareRecords(owners)]
    BY DEF Scopes
  <1>4. named \subseteq owners
    OBVIOUS
  <1> HIDE DEF d, A, R, named
  <1>5. share \in ShareRecords(owners)
    <2>1. EmptyShare \in ShareRecords(owners)
      BY DEF EmptyShare, ShareRecords, CapacityStatuses, CapacitySeverity
    <2> QED  BY <1>3, <2>1
  <1> HIDE DEF share
  <1>6. new \in ShareRecords(owners)
    BY <1>2, <1>4, <1>5 DEF Enlarged, ShareRecords, Fits
  <1> HIDE DEF new
  <1>7. after \in [domains \cup {d} -> ShareRecords(owners)]
    BY <1>3, <1>6
  <1>8. domains \cup {d} \in SUBSET Nat
    BY <1>2
  <1> HIDE DEF after
  <1> QED  BY <1>1, <1>7, <1>8 DEF Scopes

LEMMA AccountTyped ==
    ASSUME NEW owners, NEW account \in Accounts(owners), NEW withheld,
           NEW usable, usable \subseteq OwnedClaims, {c.owner : c \in usable} \subseteq owners
    PROVE  CountSlot(account, usable, withheld) \in Accounts(owners)
  <1> DEFINE noted == IF withheld # {} \/ usable = {} THEN WorstCapacity(account.status, "incomplete")
                      ELSE account.status
  <1>1. /\ "incomplete" \in CapacityStatuses /\ "conflicting" \in CapacityStatuses
        /\ "deduplicated" \in CapacityStatuses /\ "indeterminate" \in CapacityStatuses
        /\ account.status \in CapacityStatuses
    BY DEF CapacityStatuses, CapacitySeverity, Accounts
  <1>2. noted \in CapacityStatuses
    BY <1>1, WorseOfTwo
  <1> HIDE DEF noted
  <1>3. CASE usable = {}
    <2>1. CountSlot(account, usable, withheld) = [account EXCEPT !.status = noted]
      BY <1>3 DEF CountSlot, noted
    <2> QED  BY <1>2, <2>1 DEF Accounts
  <1>4. CASE usable # {}
    <2> DEFINE shared   == IF Cardinality(usable) = 1 THEN noted
                           ELSE IF Disagree(usable) THEN WorstCapacity(noted, "conflicting")
                           ELSE WorstCapacity(noted, "deduplicated")
               A        == CountedAmount(usable)
               R        == CountedReserved(usable)
               total    == AddIfFits(account.total, A)
               sound    == Fits(account.total, A) /\ Fits(account.reserved, R) /\ total =< MaxCapacityTotal
               status   == IF sound THEN shared ELSE WorstCapacity(shared, "indeterminate")
               scoped   == AddToDomain(account.scoped, usable, status)
    <2>1. CountSlot(account, usable, withheld)
              = [total |-> total, reserved |-> AddIfFits(account.reserved, R), status |-> status,
                 scoped |-> scoped]
      BY <1>4 DEF CountSlot, noted
    <2>2. shared \in CapacityStatuses
      BY <1>1, <1>2, WorseOfTwo
    <2> HIDE DEF shared
    <2>3. status \in CapacityStatuses
      BY <1>1, <2>2, WorseOfTwo
    <2> HIDE DEF status
    <2>4. scoped \in Scopes(owners)
      <3>1. account.scoped \in Scopes(owners)
        BY DEF Accounts
      <3> QED  BY <1>4, <2>3, <3>1, ShareTyped
    <2> HIDE DEF scoped
    <2>5. A \in Nat /\ R \in Nat
      BY <1>4, BudgetCount
    <2> HIDE DEF A, R
    <2>6. total \in Nat /\ AddIfFits(account.reserved, R) \in Nat
      BY <2>5 DEF AddIfFits, Accounts
    <2> HIDE DEF total
    <2> QED  BY <2>1, <2>3, <2>4, <2>6 DEF Accounts
  <1> QED  BY <1>3, <1>4

\* freeze() counts the budgets of a resource in the order of their keys: the account
\* of the first of them, for every set of first ones.
Owners(claims) == {c.owner : c \in claims}
Counts(g, usable, withheld, x, keys) ==
    /\ g \in [SUBSET keys -> Accounts(Owners(usable))]
    /\ g[{}] = EmptyAccount
    /\ \A r \in SUBSET keys : r # {} =>
          /\ Max(r) \in r
          /\ g[r] = CountSlot(g[r \ {Max(r)}], Slot(usable, x, Max(r)), Slot(withheld, x, Max(r)))

LEMMA SlotTyped ==
    ASSUME NEW claims, claims \subseteq OwnedClaims, NEW x, NEW key
    PROVE  /\ Slot(claims, x, key) \subseteq OwnedClaims
           /\ {c.owner : c \in Slot(claims, x, key)} \subseteq Owners(claims)
  BY DEF Slot, Owners

LEMMA AccountCounts ==
    ASSUME NEW usable, usable \subseteq OwnedClaims, NEW withheld, withheld \subseteq OwnedClaims,
           NEW x, IsFiniteSet(SlotKeys(usable \cup withheld, x))
    PROVE  \E g : /\ Counts(g, usable, withheld, x, SlotKeys(usable \cup withheld, x))
                  /\ Account(usable, withheld, x) = g[SlotKeys(usable \cup withheld, x)]
  <1> DEFINE keys == SlotKeys(usable \cup withheld, x)
             T == Accounts(Owners(usable))
             Turn(key, account) ==
                CountSlot(account, Slot(usable, x, key), Slot(withheld, x, key))
             h == CHOOSE h : h = [s \in SUBSET keys |->
                                    IF s = {} THEN EmptyAccount ELSE Turn(Max(s), h[s \ {Max(s)}])]
             pick == [s \in SUBSET keys |-> Max(s)]
             step == [a \in keys \X T |-> Turn(a[1], a[2])]
  <1>1. Account(usable, withheld, x) = h[keys]
    BY DEF Account, MapThenFoldSet
  <1>2. EmptyAccount \in T
    BY EmptyAccountTyped
  <1>3. keys \subseteq Nat
    BY DEF SlotKeys, OwnedClaims
  <1>4. \A s \in SUBSET keys : s # {} => Max(s) \in s
    <2> SUFFICES ASSUME NEW s \in SUBSET keys, s # {} PROVE Max(s) \in s
      OBVIOUS
    <2>1. IsFiniteSet(s) /\ s \subseteq Nat
      BY <1>3, FS_Subset
    <2> QED  BY <2>1, MaxIsOne
  <1>5. ASSUME NEW key \in keys, NEW account \in T PROVE Turn(key, account) \in T
    BY SlotTyped, AccountTyped
  <1> HIDE DEF keys, T, Turn
  <1>6. step \in [keys \X T -> T]
    BY <1>5
  <1>7. \A s \in SUBSET keys : s # {} => pick[s] \in s
    BY <1>4
  <1>8. IsFiniteSet(keys)
    BY DEF keys
  <1>9. PICK g \in [SUBSET keys -> T] : FoldsBy(g, keys, pick, step, EmptyAccount)
    <2> HIDE DEF pick, step
    <2> QED  BY <1>2, <1>6, <1>7, <1>8, FoldExists
  <1>10. ASSUME NEW s \in SUBSET keys, s # {}
         PROVE  step[<<pick[s], g[s \ {pick[s]}]>>] = Turn(Max(s), g[s \ {Max(s)}])
    <2>1. pick[s] = Max(s) /\ Max(s) \in keys /\ s \ {Max(s)} \in SUBSET keys
      BY <1>4, <1>10
    <2>2. <<Max(s), g[s \ {Max(s)}]>> \in keys \X T
      BY <1>9, <2>1
    <2> QED  BY <2>1, <2>2
  <1>11. g = [s \in SUBSET keys |-> IF s = {} THEN EmptyAccount ELSE Turn(Max(s), g[s \ {Max(s)}])]
    BY <1>9, <1>10 DEF FoldsBy
  <1>12. h = [s \in SUBSET keys |-> IF s = {} THEN EmptyAccount ELSE Turn(Max(s), h[s \ {Max(s)}])]
    BY <1>11
  <1> HIDE DEF h, pick, step
  <1> DEFINE Good == {s \in SUBSET keys : h[s] = g[s]}
  <1>13. {} \in Good
    BY <1>11, <1>12
  <1>14. ASSUME NEW s \in SUBSET keys, s # {}, \A y \in s : s \ {y} \in Good PROVE s \in Good
    <2>1. Max(s) \in s
      BY <1>4, <1>14
    <2>2. h[s \ {Max(s)}] = g[s \ {Max(s)}]
      BY <1>14, <2>1
    <2>3. h[s] = Turn(Max(s), h[s \ {Max(s)}]) /\ g[s] = Turn(Max(s), g[s \ {Max(s)}])
      BY <1>11, <1>12, <1>14
    <2> QED  BY <2>2, <2>3
  <1>15. h[keys] = g[keys]
    <2> HIDE DEF Good
    <2>1. SUBSET keys \subseteq Good
      BY <1>8, <1>13, <1>14, SubsetInduction
    <2> QED  BY <2>1 DEF Good
  <1>16. Counts(g, usable, withheld, x, keys)
    <2>1. g[{}] = EmptyAccount
      BY <1>11
    <2>2. \A s \in SUBSET keys : s # {} => g[s] = Turn(Max(s), g[s \ {Max(s)}])
      BY <1>11
    <2> QED  BY <1>4, <1>9, <2>1, <2>2 DEF Counts, T, Turn
  <1> QED  BY <1>1, <1>15, <1>16 DEF keys

-----------------------------------------------------------------------------
\* What the shares of an account come to.
TotalsOf(scoped)   == [d \in DOMAIN scoped |-> scoped[d].total]
ReservesOf(scoped) == [d \in DOMAIN scoped |-> scoped[d].reserved]
SharesTally(scoped, C, R) ==
    /\ \A d \in DOMAIN scoped : ~scoped[d].full
    /\ Total(TotalsOf(scoped), DOMAIN scoped) = C
    /\ Total(ReservesOf(scoped), DOMAIN scoped) = R

LEMMA ScopeOpened ==
    ASSUME NEW owners, NEW scoped \in Scopes(owners), NEW d \in DOMAIN scoped
    PROVE  /\ scoped[d] \in ShareRecords(owners)
           /\ scoped[d].total \in Nat /\ scoped[d].reserved \in Nat
           /\ scoped[d].status \in CapacityStatuses /\ scoped[d].owners \subseteq owners
  <1>1. scoped[d] \in ShareRecords(owners)
    BY DEF Scopes
  <1> QED  BY <1>1 DEF ShareRecords

\* One more budget goes to the share of one domain, as long as everything fits.
LEMMA SharesTallyOn ==
    ASSUME NEW owners, NEW scoped \in Scopes(owners), IsFiniteSet(DOMAIN scoped),
           NEW C \in Nat, NEW R \in Nat, R =< C, SharesTally(scoped, C, R),
           NEW usable, usable \subseteq OwnedClaims, usable # {}, NEW status,
           C + CountedAmount(usable) =< CounterLimit
    PROVE  SharesTally(AddToDomain(scoped, usable, status), C + CountedAmount(usable),
                       R + CountedReserved(usable))
  <1> DEFINE d     == Primary(usable).domain
             share == IF d \in DOMAIN scoped THEN scoped[d] ELSE EmptyShare
             named == {c.owner : c \in usable}
             A     == CountedAmount(usable)
             B     == CountedReserved(usable)
             new   == Enlarged(share, A, B, named, status)
             after == [x \in DOMAIN scoped \cup {d} |-> IF x = d THEN new ELSE scoped[x]]
             S     == DOMAIN scoped
             f     == TotalsOf(scoped)
             e     == ReservesOf(scoped)
  <1>1. AddToDomain(scoped, usable, status) = after
    BY DEF AddToDomain
  <1>2. d \in Nat /\ A \in Nat /\ B \in Nat /\ B =< A
    BY BudgetCount
  <1>3. C + A =< CounterLimit /\ CounterLimit \in Nat
    BY LedgerAssumption
  <1> HIDE DEF d, named, A, B
  <1>4. \A x \in S : f[x] = scoped[x].total /\ e[x] = scoped[x].reserved
    BY DEF TotalsOf, ReservesOf
  <1>5. \A x \in S : scoped[x].total \in Nat /\ scoped[x].reserved \in Nat
    BY ScopeOpened
  <1>6. \A x \in S : f[x] \in Nat /\ e[x] \in Nat
    BY <1>4, <1>5
  <1>7. Total(f, S) = C /\ Total(e, S) = R /\ \A x \in S : ~scoped[x].full
    BY DEF SharesTally
  <1> HIDE DEF f, e
  <1>8. /\ share.total = IF d \in S THEN f[d] ELSE 0
        /\ share.reserved = IF d \in S THEN e[d] ELSE 0
        /\ ~share.full
    BY <1>4, <1>7 DEF EmptyShare
  <1>9. share.total \in Nat /\ share.total =< C /\ share.reserved \in Nat /\ share.reserved =< R
    <2>1. d \in S => f[d] =< C /\ e[d] =< R
      BY <1>6, <1>7, PartOfTotal
    <2> QED  BY <1>6, <1>8, <2>1
  <1> HIDE DEF share
  <1>10. new.total = share.total + A /\ new.reserved = share.reserved + B /\ ~new.full
    <2>1. Fits(share.total, A) /\ Fits(share.reserved, B)
      BY <1>2, <1>3, <1>9 DEF Fits
    <2> QED  BY <1>8, <2>1 DEF Enlarged
  <1> HIDE DEF new
  <1>11. DOMAIN after = S \cup {d} /\ after[d] = new /\ \A x \in S \ {d} : after[x] = scoped[x]
    OBVIOUS
  <1> HIDE DEF after
  <1>12. Total(TotalsOf(after), S \cup {d}) = C + A
    <2> DEFINE k == TotalsOf(after)
    <2>1. k[d] = (IF d \in S THEN f[d] ELSE 0) + A /\ \A x \in S \ {d} : k[x] = f[x]
      BY <1>4, <1>8, <1>10, <1>11 DEF TotalsOf
    <2> HIDE DEF k
    <2>2. Total(k, S \cup {d}) = Total(f, S) + A
      BY <1>2, <1>6, <2>1, TotalWithMore
    <2> QED  BY <1>7, <2>2 DEF k
  <1>13. Total(ReservesOf(after), S \cup {d}) = R + B
    <2> DEFINE k == ReservesOf(after)
    <2>1. k[d] = (IF d \in S THEN e[d] ELSE 0) + B /\ \A x \in S \ {d} : k[x] = e[x]
      BY <1>4, <1>8, <1>10, <1>11 DEF ReservesOf
    <2> HIDE DEF k
    <2>2. Total(k, S \cup {d}) = Total(e, S) + B
      BY <1>2, <1>6, <2>1, TotalWithMore
    <2> QED  BY <1>7, <2>2 DEF k
  <1>14. \A x \in DOMAIN after : ~after[x].full
    BY <1>7, <1>10, <1>11
  <1> QED  BY <1>1, <1>11, <1>12, <1>13, <1>14 DEF SharesTally, A, B

LEMMA SharesStayFinite ==
    ASSUME NEW scoped, IsFiniteSet(DOMAIN scoped), NEW usable, NEW status
    PROVE  IsFiniteSet(DOMAIN AddToDomain(scoped, usable, status))
  <1> DEFINE d == Primary(usable).domain
  <1>1. DOMAIN AddToDomain(scoped, usable, status) = DOMAIN scoped \cup {d}
    BY DEF AddToDomain
  <1> HIDE DEF d
  <1> QED  BY <1>1, FS_AddElement

\* An account that came to C and R: what it shows is no more, it is exactly that when
\* C fits, and no caller may rely on it when C does not.
Tallies(account, C, R) ==
    /\ IsFiniteSet(DOMAIN account.scoped)
    /\ account.total =< C
    /\ C =< CounterLimit => /\ account.total = C /\ account.reserved = R
                            /\ SharesTally(account.scoped, C, R)
    /\ capacity_is_usable(account.status) => C =< CounterLimit

LEMMA TalliesOn ==
    ASSUME NEW owners, NEW account \in Accounts(owners), NEW C \in Nat, NEW R \in Nat, R =< C,
           Tallies(account, C, R), NEW withheld,
           NEW usable, usable \subseteq OwnedClaims, usable # {}, {c.owner : c \in usable} \subseteq owners
    PROVE  Tallies(CountSlot(account, usable, withheld), C + CountedAmount(usable),
                   R + CountedReserved(usable))
  <1> DEFINE noted    == IF withheld # {} \/ usable = {} THEN WorstCapacity(account.status, "incomplete")
                         ELSE account.status
             shared   == IF Cardinality(usable) = 1 THEN noted
                         ELSE IF Disagree(usable) THEN WorstCapacity(noted, "conflicting")
                         ELSE WorstCapacity(noted, "deduplicated")
             A        == CountedAmount(usable)
             B        == CountedReserved(usable)
             total    == AddIfFits(account.total, A)
             sound    == Fits(account.total, A) /\ Fits(account.reserved, B) /\ total =< MaxCapacityTotal
             status   == IF sound THEN shared ELSE WorstCapacity(shared, "indeterminate")
             scoped   == AddToDomain(account.scoped, usable, status)
             after    == CountSlot(account, usable, withheld)
  <1>1. after = [total |-> total, reserved |-> AddIfFits(account.reserved, B), status |-> status,
                 scoped |-> scoped]
    BY DEF CountSlot
  <1>2. /\ account.total \in Nat /\ account.reserved \in Nat /\ account.status \in CapacityStatuses
        /\ account.scoped \in Scopes(owners)
    BY DEF Accounts
  <1>3. /\ "incomplete" \in CapacityStatuses /\ "conflicting" \in CapacityStatuses
        /\ "deduplicated" \in CapacityStatuses /\ "indeterminate" \in CapacityStatuses
        /\ ~capacity_is_usable("indeterminate")
    BY DEF CapacityStatuses, CapacitySeverity, capacity_is_usable
  <1>4. noted \in CapacityStatuses /\ (capacity_is_usable(noted) => capacity_is_usable(account.status))
    BY <1>2, <1>3, WorseOfTwo
  <1> HIDE DEF noted
  <1>5. shared \in CapacityStatuses /\ (capacity_is_usable(shared) => capacity_is_usable(account.status))
    BY <1>3, <1>4, WorseOfTwo
  <1> HIDE DEF shared
  <1>6. capacity_is_usable(status) => sound /\ capacity_is_usable(account.status)
    BY <1>3, <1>5, WorseOfTwo
  <1> HIDE DEF status
  <1>7. A \in Nat /\ B \in Nat /\ B =< A /\ CounterLimit \in Nat
    BY BudgetCount, LedgerAssumption
  <1>8. IsFiniteSet(DOMAIN scoped)
    BY SharesStayFinite DEF Tallies
  <1>9. C + A =< CounterLimit => SharesTally(scoped, C + A, R + B)
    <2> SUFFICES ASSUME C + A =< CounterLimit PROVE SharesTally(scoped, C + A, R + B)
      OBVIOUS
    <2>1. SharesTally(account.scoped, C, R) /\ IsFiniteSet(DOMAIN account.scoped)
      BY <1>7 DEF Tallies
    <2> QED  BY <1>2, <2>1, SharesTallyOn
  <1> HIDE DEF A, B, scoped, after
  <1>10. total =< C + A
    BY <1>2, <1>7 DEF AddIfFits, Fits, Tallies
  <1>11. ASSUME C + A =< CounterLimit
         PROVE  total = C + A /\ AddIfFits(account.reserved, B) = R + B
    <2>1. account.total = C /\ account.reserved = R
      BY <1>7, <1>11 DEF Tallies
    <2> QED  BY <1>7, <1>11, <2>1 DEF AddIfFits, Fits
  <1>12. capacity_is_usable(status) => C + A =< CounterLimit
    BY <1>6, <1>7 DEF Fits, Tallies
  <1> HIDE DEF total
  <1>13. /\ after.total = total /\ after.reserved = AddIfFits(account.reserved, B)
         /\ after.status = status /\ after.scoped = scoped
    BY <1>1
  <1>14. Tallies(after, C + A, R + B)
    BY <1>8, <1>9, <1>10, <1>11, <1>12, <1>13 DEF Tallies
  <1> QED  BY <1>14 DEF after, A, B

\* A budget nobody may be counted for leaves an account what it was, but unusable.
LEMMA TalliesIdly ==
    ASSUME NEW owners, NEW account \in Accounts(owners), NEW C, NEW R, Tallies(account, C, R),
           NEW withheld
    PROVE  /\ Tallies(CountSlot(account, {}, withheld), C, R)
           /\ ~capacity_is_usable(CountSlot(account, {}, withheld).status)
  <1> DEFINE noted == WorstCapacity(account.status, "incomplete")
  <1>1. CountSlot(account, {}, withheld) = [account EXCEPT !.status = noted]
    BY DEF CountSlot
  <1>2. account.status \in CapacityStatuses /\ "incomplete" \in CapacityStatuses
    BY DEF Accounts, CapacityStatuses, CapacitySeverity
  <1>3. ~capacity_is_usable(noted)
    <2>1. ~capacity_is_usable("incomplete")
      BY DEF capacity_is_usable
    <2> QED  BY <1>2, <2>1, WorseOfTwo
  <1> HIDE DEF noted
  <1>4. /\ CountSlot(account, {}, withheld).total = account.total
        /\ CountSlot(account, {}, withheld).reserved = account.reserved
        /\ CountSlot(account, {}, withheld).scoped = account.scoped
        /\ CountSlot(account, {}, withheld).status = noted
    BY <1>1 DEF Accounts
  <1> QED  BY <1>3, <1>4 DEF Tallies

\* A budget that leaves the account usable has no claim withheld and all its claims
\* of one amount.
SameAmount(claims) == \A c, d \in claims : c.amount = d.amount

LEMMA SettledBudget ==
    ASSUME NEW owners, NEW account \in Accounts(owners), NEW withheld,
           NEW usable, IsFiniteSet(usable),
           capacity_is_usable(CountSlot(account, usable, withheld).status)
    PROVE  /\ capacity_is_usable(account.status)
           /\ withheld = {} /\ SameAmount(usable)
  <1> DEFINE noted    == IF withheld # {} \/ usable = {} THEN WorstCapacity(account.status, "incomplete")
                         ELSE account.status
             shared   == IF Cardinality(usable) = 1 THEN noted
                         ELSE IF Disagree(usable) THEN WorstCapacity(noted, "conflicting")
                         ELSE WorstCapacity(noted, "deduplicated")
             sound    == /\ Fits(account.total, CountedAmount(usable))
                         /\ Fits(account.reserved, CountedReserved(usable))
                         /\ AddIfFits(account.total, CountedAmount(usable)) =< MaxCapacityTotal
             status   == IF sound THEN shared ELSE WorstCapacity(shared, "indeterminate")
  <1>1. /\ "incomplete" \in CapacityStatuses /\ "conflicting" \in CapacityStatuses
        /\ "deduplicated" \in CapacityStatuses /\ "indeterminate" \in CapacityStatuses
        /\ ~capacity_is_usable("incomplete") /\ ~capacity_is_usable("conflicting")
    BY DEF CapacityStatuses, CapacitySeverity, capacity_is_usable
  <1>2. /\ noted \in CapacityStatuses
        /\ capacity_is_usable(noted) =>
              capacity_is_usable(account.status) /\ withheld = {} /\ usable # {}
    <2>1. account.status \in CapacityStatuses
      BY DEF Accounts
    <2> QED  BY <1>1, <2>1, WorseOfTwo
  <1>3. CountSlot(account, usable, withheld).status = IF usable = {} THEN noted ELSE status
    <2>1. CASE usable = {}
      <3>1. CountSlot(account, usable, withheld) = [account EXCEPT !.status = noted]
        BY <2>1 DEF CountSlot
      <3> HIDE DEF noted
      <3>2. CountSlot(account, usable, withheld).status = noted
        BY <3>1 DEF Accounts
      <3> QED  BY <2>1, <3>2
    <2>2. CASE usable # {}
      BY <2>2 DEF CountSlot
    <2> QED  BY <2>1, <2>2
  <1> HIDE DEF noted
  <1>4. /\ shared \in CapacityStatuses
        /\ capacity_is_usable(shared) => /\ capacity_is_usable(noted)
                                         /\ Cardinality(usable) = 1 \/ ~Disagree(usable)
    BY <1>1, <1>2, WorseOfTwo
  <1> HIDE DEF shared
  <1>5. capacity_is_usable(status) => capacity_is_usable(shared)
    BY <1>1, <1>4, WorseOfTwo
  <1> HIDE DEF status
  <1>6. capacity_is_usable(noted) /\ usable # {} /\ (Cardinality(usable) = 1 \/ ~Disagree(usable))
    BY <1>2, <1>3, <1>4, <1>5
  <1>7. SameAmount(usable)
    <2>1. CASE Cardinality(usable) = 1
      <3>1. PICK c : usable = {c}
        BY <2>1, FS_Singleton
      <3> QED  BY <3>1 DEF SameAmount
    <2>2. CASE ~Disagree(usable)
      BY <2>2 DEF Disagree, SameAmount
    <2> QED  BY <1>6, <2>1, <2>2
  <1> QED  BY <1>2, <1>6, <1>7

-----------------------------------------------------------------------------
\* What the budgets of a resource are counted at.
AmountsOf(usable, x)  == [k \in SlotKeys(usable, x) |-> CountedAmount(Slot(usable, x, k))]
ReservedOf(usable, x) == [k \in SlotKeys(usable, x) |-> CountedReserved(Slot(usable, x, k))]

LEMMA SlotKeysFinite ==
    ASSUME NEW claims, IsFiniteSet(claims), NEW x
    PROVE  IsFiniteSet(SlotKeys(claims, x))
  <1> DEFINE f  == [c \in claims |-> c.key]
             on == {c \in claims : c.resource = x}
  <1>1. IsFiniteSet(on)
    BY FS_Subset
  <1>2. SlotKeys(claims, x) = {f[c] : c \in on}
    BY DEF SlotKeys
  <1> HIDE DEF on, f
  <1>3. IsFiniteSet({f[c] : c \in on})
    BY <1>1, ImageIsFinite
  <1> QED  BY <1>2, <1>3

LEMMA BudgetsCounted ==
    ASSUME NEW usable, usable \subseteq OwnedClaims, NEW x, NEW k \in SlotKeys(usable, x)
    PROVE  /\ AmountsOf(usable, x)[k] = CountedAmount(Slot(usable, x, k))
           /\ ReservedOf(usable, x)[k] = CountedReserved(Slot(usable, x, k))
           /\ AmountsOf(usable, x)[k] \in Nat /\ ReservedOf(usable, x)[k] \in Nat
           /\ ReservedOf(usable, x)[k] =< AmountsOf(usable, x)[k]
  <1>1. Slot(usable, x, k) # {} /\ Slot(usable, x, k) \subseteq OwnedClaims
    BY DEF Slot, SlotKeys
  <1>2. /\ AmountsOf(usable, x)[k] = CountedAmount(Slot(usable, x, k))
        /\ ReservedOf(usable, x)[k] = CountedReserved(Slot(usable, x, k))
    BY DEF AmountsOf, ReservedOf
  <1> QED  BY <1>1, <1>2, BudgetCount

\* The account of any first budgets tallies with what those of them come to that
\* have a claim to count, and is usable only if nothing was left out of it.
LEMMA AccountsTally ==
    ASSUME NEW usable, usable \subseteq OwnedClaims, IsFiniteSet(usable),
           NEW withheld, withheld \subseteq OwnedClaims,
           NEW x, NEW keys, keys = SlotKeys(usable \cup withheld, x), IsFiniteSet(keys),
           NEW g, Counts(g, usable, withheld, x, keys)
    PROVE  LET C == Total(AmountsOf(usable, x), SlotKeys(usable, x))
               R == Total(ReservedOf(usable, x), SlotKeys(usable, x))
           IN  /\ C \in Nat /\ R \in Nat /\ R =< C /\ Tallies(g[keys], C, R)
               /\ capacity_is_usable(g[keys].status) =>
                     \A k \in keys : Slot(withheld, x, k) = {} /\ SameAmount(Slot(usable, x, k))
  <1> DEFINE counted == SlotKeys(usable, x)
             amounts == AmountsOf(usable, x)
             reserved == ReservedOf(usable, x)
             T == Accounts(Owners(usable))
             C(r) == Total(amounts, r \cap counted)
             R(r) == Total(reserved, r \cap counted)
             Fine(k) == Slot(withheld, x, k) = {} /\ SameAmount(Slot(usable, x, k))
             Good == {r \in SUBSET keys :
                        /\ C(r) \in Nat /\ R(r) \in Nat /\ R(r) =< C(r) /\ Tallies(g[r], C(r), R(r))
                        /\ capacity_is_usable(g[r].status) => \A k \in r : Fine(k)}
  <1>1. \A k \in counted : /\ amounts[k] \in Nat /\ reserved[k] \in Nat /\ reserved[k] =< amounts[k]
                           /\ amounts[k] = CountedAmount(Slot(usable, x, k))
                           /\ reserved[k] = CountedReserved(Slot(usable, x, k))
    BY BudgetsCounted
  <1>2. /\ g \in [SUBSET keys -> T] /\ g[{}] = EmptyAccount
        /\ \A r \in SUBSET keys : r # {} =>
              /\ Max(r) \in r
              /\ g[r] = CountSlot(g[r \ {Max(r)}], Slot(usable, x, Max(r)), Slot(withheld, x, Max(r)))
    BY DEF Counts
  <1>3. \A k : Slot(usable, x, k) = {} <=> k \notin counted
    BY DEF Slot, SlotKeys
  <1>4. \A k : /\ Slot(usable, x, k) \subseteq OwnedClaims /\ IsFiniteSet(Slot(usable, x, k))
               /\ {c.owner : c \in Slot(usable, x, k)} \subseteq Owners(usable)
    <2>1. \A k : Slot(usable, x, k) \subseteq usable
      BY DEF Slot
    <2> QED  BY <2>1, SlotTyped, FS_Subset
  <1>5. counted \subseteq keys
    BY DEF SlotKeys
  <1> HIDE DEF counted, amounts, reserved, T
  <1>6. {} \in Good
    <2>1. C({}) = 0 /\ R({}) = 0
      <3>1. {} \cap counted = {}
        OBVIOUS
      <3> QED  BY <3>1, TotalOfNone
    <2>2. Tallies(EmptyAccount, 0, 0)
      <3>1. DOMAIN EmptyAccount.scoped = {} /\ EmptyAccount.total = 0 /\ EmptyAccount.reserved = 0
        BY DEF EmptyAccount
      <3>2. SharesTally(EmptyAccount.scoped, 0, 0)
        BY <3>1, TotalOfNone DEF SharesTally
      <3> QED  BY <3>1, <3>2, FS_EmptySet, LedgerAssumption DEF Tallies
    <2> QED  BY <1>2, <2>1, <2>2
  <1>7. ASSUME NEW r \in SUBSET keys, r # {}, \A y \in r : r \ {y} \in Good PROVE r \in Good
    <2> DEFINE k == Max(r)
               q == r \ {k}
               U == Slot(usable, x, k)
               W == Slot(withheld, x, k)
    <2>1. k \in r /\ g[r] = CountSlot(g[q], U, W) /\ q \in SUBSET keys
      BY <1>2, <1>7
    <2>2. q \in Good /\ g[q] \in T
      BY <1>2, <1>7, <2>1
    <2>3. /\ C(q) \in Nat /\ R(q) \in Nat /\ R(q) =< C(q) /\ Tallies(g[q], C(q), R(q))
          /\ capacity_is_usable(g[q].status) => \A j \in q : Fine(j)
      BY <2>2
    <2>4. U \subseteq OwnedClaims /\ IsFiniteSet(U) /\ {c.owner : c \in U} \subseteq Owners(usable)
      BY <1>4
    <2>5. U = {} <=> k \notin counted
      BY <1>3
    <2>6. k \in counted => /\ amounts[k] = CountedAmount(U) /\ reserved[k] = CountedReserved(U)
                           /\ amounts[k] \in Nat /\ reserved[k] \in Nat /\ reserved[k] =< amounts[k]
      BY <1>1
    <2> HIDE DEF k, q, U, W, Good
    <2>7. capacity_is_usable(g[r].status) => \A j \in r : Fine(j)
      <3> SUFFICES ASSUME capacity_is_usable(g[r].status) PROVE \A j \in r : Fine(j)
        OBVIOUS
      <3>1. g[q].status \in CapacityStatuses
        BY <2>2 DEF T, Accounts
      <3>2. capacity_is_usable(g[q].status) /\ W = {} /\ SameAmount(U)
        BY <2>1, <2>2, <2>4, <3>1, SettledBudget DEF T
      <3>3. Fine(k)
        BY <3>2 DEF U, W
      <3>4. \A j \in q : Fine(j)
        BY <2>3, <3>2
      <3> HIDE DEF Fine
      <3> QED  BY <2>1, <3>3, <3>4 DEF q
    <2>8. CASE k \in counted
      <3>1. U # {} /\ r \cap counted = (q \cap counted) \cup {k} /\ k \notin q \cap counted
        BY <2>1, <2>5, <2>8 DEF q
      <3>2. IsFiniteSet(q \cap counted)
        <4>1. q \cap counted \in SUBSET keys
          BY <2>1
        <4> QED  BY <4>1, FS_Subset
      <3>3. C(r) = C(q) + CountedAmount(U) /\ R(r) = R(q) + CountedReserved(U)
        <4>1. Total(amounts, (q \cap counted) \cup {k}) = Total(amounts, q \cap counted) + amounts[k]
          <5>1. \A j \in q \cap counted : amounts[j] \in Nat
            BY <1>1
          <5> QED  BY <2>6, <2>8, <3>1, <3>2, <5>1, TotalWithOneMore
        <4>2. Total(reserved, (q \cap counted) \cup {k}) = Total(reserved, q \cap counted) + reserved[k]
          <5>1. \A j \in q \cap counted : reserved[j] \in Nat
            BY <1>1
          <5> QED  BY <2>6, <2>8, <3>1, <3>2, <5>1, TotalWithOneMore
        <4> QED  BY <2>6, <2>8, <3>1, <4>1, <4>2
      <3>4. Tallies(CountSlot(g[q], U, W), C(q) + CountedAmount(U), R(q) + CountedReserved(U))
        <4> HIDE DEF C, R
        <4> QED  BY <2>2, <2>3, <2>4, <3>1, TalliesOn DEF T
      <3>5. C(r) \in Nat /\ R(r) \in Nat /\ R(r) =< C(r)
        <4> HIDE DEF C, R
        <4> QED  BY <2>3, <2>6, <2>8, <3>3
      <3> HIDE DEF C, R, Fine
      <3> QED  BY <2>1, <2>7, <3>3, <3>4, <3>5 DEF Good
    <2>9. CASE k \notin counted
      <3>1. U = {} /\ r \cap counted = q \cap counted
        BY <2>1, <2>5, <2>9 DEF q
      <3>2. C(r) = C(q) /\ R(r) = R(q)
        BY <3>1
      <3>3. Tallies(g[r], C(q), R(q))
        <4> HIDE DEF C, R
        <4> QED  BY <2>1, <2>2, <2>3, <3>1, TalliesIdly DEF T
      <3> HIDE DEF C, R, Fine
      <3> QED  BY <2>1, <2>3, <2>7, <3>2, <3>3 DEF Good
    <2> QED  BY <2>8, <2>9
  <1>8. keys \in Good
    <2> HIDE DEF Good
    <2>1. SUBSET keys \subseteq Good
      BY <1>6, <1>7, SubsetInduction
    <2> QED  BY <2>1
  <1>9. keys \cap counted = counted
    BY <1>5
  <1> QED  BY <1>8, <1>9 DEF counted, amounts, reserved

\* What by_resource() returns.  An account that overspends is no caller's to rely on.
Settled(withheld, usable, x, keys) ==
    \A k \in keys : Slot(withheld, x, k) = {} /\ SameAmount(Slot(usable, x, k))

LEMMA AccountClosed ==
    ASSUME NEW owners, NEW account \in Accounts(owners), NEW all
    PROVE  LET closed == Closed(account, all)
           IN  /\ closed.total = account.total /\ closed.reserved = account.reserved
               /\ closed.owners = all
               /\ closed.status \in CapacityStatuses
               /\ capacity_is_usable(closed.status) =>
                     capacity_is_usable(account.status) /\ closed.reserved + closed.headroom = closed.total
               /\ DOMAIN closed.scoped = DOMAIN account.scoped
               /\ \A d \in DOMAIN account.scoped :
                     /\ closed.scoped[d].total = account.scoped[d].total
                     /\ closed.scoped[d].reserved = account.scoped[d].reserved
                     /\ closed.scoped[d].owners = account.scoped[d].owners
                     /\ closed.scoped[d].status \in CapacityStatuses
  <1> DEFINE overspent == account.reserved > account.total
             headroom  == IF overspent THEN 0 ELSE account.total - account.reserved
             status    == IF overspent THEN WorstCapacity(account.status, "exhausted")
                          ELSE account.status
             Share(d)  == [total |-> account.scoped[d].total, reserved |-> account.scoped[d].reserved,
                           status |-> IF account.scoped[d].full
                                      THEN WorstCapacity(account.scoped[d].status, "indeterminate")
                                      ELSE account.scoped[d].status,
                           owners |-> account.scoped[d].owners]
             closed    == Closed(account, all)
  <1>1. closed = [total |-> account.total, reserved |-> account.reserved, headroom |-> headroom,
                  status |-> status, owners |-> all,
                  scoped |-> [d \in DOMAIN account.scoped |-> Share(d)]]
    BY DEF Closed
  <1>2. /\ account.total \in Nat /\ account.reserved \in Nat /\ account.status \in CapacityStatuses
        /\ account.scoped \in Scopes(owners)
    BY DEF Accounts
  <1>3. /\ "exhausted" \in CapacityStatuses /\ "indeterminate" \in CapacityStatuses
        /\ ~capacity_is_usable("exhausted")
    BY DEF CapacityStatuses, CapacitySeverity, capacity_is_usable
  <1>4. /\ status \in CapacityStatuses
        /\ capacity_is_usable(status) => capacity_is_usable(account.status) /\ ~overspent
    BY <1>2, <1>3, WorseOfTwo
  <1>5. ~overspent => account.reserved + headroom = account.total
    BY <1>2
  <1>6. ASSUME NEW d \in DOMAIN account.scoped PROVE Share(d).status \in CapacityStatuses
    <2>1. account.scoped[d].status \in CapacityStatuses
      BY <1>2, ScopeOpened
    <2> QED  BY <1>3, <2>1, WorseOfTwo
  <1> HIDE DEF status, headroom, overspent, closed
  <1>7. /\ closed.total = account.total /\ closed.reserved = account.reserved
        /\ closed.headroom = headroom /\ closed.status = status /\ closed.owners = all
        /\ closed.scoped = [d \in DOMAIN account.scoped |-> Share(d)]
    BY <1>1
  <1>8. /\ DOMAIN closed.scoped = DOMAIN account.scoped
        /\ \A d \in DOMAIN account.scoped : closed.scoped[d] = Share(d)
    BY <1>7
  <1>9. ASSUME NEW d \in DOMAIN account.scoped
        PROVE  /\ closed.scoped[d].total = account.scoped[d].total
               /\ closed.scoped[d].reserved = account.scoped[d].reserved
               /\ closed.scoped[d].owners = account.scoped[d].owners
               /\ closed.scoped[d].status \in CapacityStatuses
    <2>1. closed.scoped[d] = Share(d)
      BY <1>8
    <2> QED  BY <1>6, <2>1
  <1>10. capacity_is_usable(closed.status) =>
             capacity_is_usable(account.status) /\ closed.reserved + closed.headroom = closed.total
    BY <1>4, <1>5, <1>7
  <1>11. closed.status \in CapacityStatuses
    BY <1>4, <1>7
  <1> QED  BY <1>7, <1>8, <1>9, <1>10, <1>11, Zenon DEF closed

LEMMA ByResource ==
    ASSUME NEW usable, usable \subseteq OwnedClaims, IsFiniteSet(usable),
           NEW withheld, withheld \subseteq OwnedClaims, IsFiniteSet(withheld), NEW x
    PROVE  LET a    == by_resource(usable, withheld, x)
               C    == Total(AmountsOf(usable, x), SlotKeys(usable, x))
           IN  /\ C \in Nat /\ a.total =< C
               /\ C =< CounterLimit => /\ a.total = C
                                       /\ a.total = Total(TotalsOf(a.scoped), DOMAIN a.scoped)
                                       /\ a.reserved = Total(ReservesOf(a.scoped), DOMAIN a.scoped)
               /\ capacity_is_usable(a.status) =>
                     /\ C =< CounterLimit /\ a.reserved + a.headroom = a.total
                     /\ Settled(withheld, usable, x, SlotKeys(usable \cup withheld, x))
               /\ a.status \in CapacityStatuses /\ IsFiniteSet(DOMAIN a.scoped)
               /\ \A d \in DOMAIN a.scoped :
                     /\ a.scoped[d].total \in Nat /\ a.scoped[d].reserved \in Nat
                     /\ a.scoped[d].status \in CapacityStatuses
                     /\ a.scoped[d].owners \subseteq Owners(usable)
  <1> DEFINE a       == by_resource(usable, withheld, x)
             C       == Total(AmountsOf(usable, x), SlotKeys(usable, x))
             R       == Total(ReservedOf(usable, x), SlotKeys(usable, x))
             keys    == SlotKeys(usable \cup withheld, x)
             account == Account(usable, withheld, x)
             all     == {c.owner : c \in {y \in usable \cup withheld : y.resource = x}}
             T       == Accounts(Owners(usable))
  <1>1. a = Closed(account, all)
    BY DEF by_resource
  <1>2. IsFiniteSet(keys)
    <2> DEFINE claims == usable \cup withheld
    <2>1. IsFiniteSet(claims)
      BY FS_Union
    <2> HIDE DEF claims
    <2>2. IsFiniteSet(SlotKeys(claims, x))
      BY <2>1, SlotKeysFinite
    <2> QED  BY <2>2 DEF claims
  <1> HIDE DEF keys, account, a
  <1>3. PICK g : Counts(g, usable, withheld, x, keys) /\ account = g[keys]
    BY <1>2, AccountCounts DEF keys, account
  <1>4. account \in T
    BY <1>3 DEF Counts
  <1>5. /\ C \in Nat /\ R \in Nat /\ Tallies(account, C, R)
        /\ capacity_is_usable(account.status) => Settled(withheld, usable, x, keys)
    <2>1. /\ C \in Nat /\ R \in Nat /\ Tallies(g[keys], C, R)
          /\ capacity_is_usable(g[keys].status) =>
                \A k \in keys : Slot(withheld, x, k) = {} /\ SameAmount(Slot(usable, x, k))
      BY <1>2, <1>3, AccountsTally DEF keys
    <2> QED  BY <1>3, <2>1 DEF Settled
  <1> HIDE DEF C, R, T
  <1>6. /\ a.total = account.total /\ a.reserved = account.reserved
        /\ a.status \in CapacityStatuses
        /\ capacity_is_usable(a.status) =>
              capacity_is_usable(account.status) /\ a.reserved + a.headroom = a.total
        /\ DOMAIN a.scoped = DOMAIN account.scoped
        /\ \A d \in DOMAIN account.scoped :
              /\ a.scoped[d].total = account.scoped[d].total
              /\ a.scoped[d].reserved = account.scoped[d].reserved
              /\ a.scoped[d].owners = account.scoped[d].owners
              /\ a.scoped[d].status \in CapacityStatuses
    <2> HIDE DEF all
    <2> QED  BY <1>1, <1>4, AccountClosed DEF T
  <1>7. /\ account.scoped \in Scopes(Owners(usable))
    BY <1>4 DEF T, Accounts
  <1>8. \A d \in DOMAIN account.scoped :
           /\ account.scoped[d].total \in Nat /\ account.scoped[d].reserved \in Nat
           /\ account.scoped[d].owners \subseteq Owners(usable)
    BY <1>7, ScopeOpened
  <1>9. /\ TotalsOf(a.scoped) = TotalsOf(account.scoped)
        /\ ReservesOf(a.scoped) = ReservesOf(account.scoped)
    BY <1>6 DEF TotalsOf, ReservesOf
  <1>10. C =< CounterLimit => /\ a.total = C
                              /\ a.total = Total(TotalsOf(a.scoped), DOMAIN a.scoped)
                              /\ a.reserved = Total(ReservesOf(a.scoped), DOMAIN a.scoped)
    BY <1>5, <1>6, <1>9 DEF Tallies, SharesTally
  <1>11. a.total =< C /\ IsFiniteSet(DOMAIN a.scoped) /\ (capacity_is_usable(a.status) => C =< CounterLimit)
    BY <1>5, <1>6 DEF Tallies
  <1>12. \A d \in DOMAIN a.scoped :
            /\ a.scoped[d].total \in Nat /\ a.scoped[d].reserved \in Nat
            /\ a.scoped[d].status \in CapacityStatuses
            /\ a.scoped[d].owners \subseteq Owners(usable)
    BY <1>6, <1>8
  <1> QED  BY <1>5, <1>6, <1>10, <1>11, <1>12 DEF a, C, keys

-----------------------------------------------------------------------------
\* The worst of several codes, and of what the parts of an obligation contribute, is
\* one of them and no milder than any.
Codes == DOMAIN CodeSeverity
DomainStatuses == {"ok", "degraded", "incomplete", "conflicting"}
ObligationStatuses == DOMAIN ObligationSeverity

LEMMA WorstCode ==
    ASSUME NEW codes, codes \subseteq Codes, codes # {}
    PROVE  worst(codes) \in codes /\ \A c \in codes : CodeSeverity[worst(codes)] >= CodeSeverity[c]
  <1> DEFINE ranks == {CodeSeverity[c] : c \in codes}
  <1>1. \A c \in Codes : CodeSeverity[c] \in 0 .. 12
    BY DEF Codes, CodeSeverity
  <1>2. ranks \subseteq 0 .. 12 /\ ranks # {}
    BY <1>1
  <1>3. PICK k \in ranks : \A j \in ranks : j =< k
    <2> HIDE DEF ranks
    <2> QED  BY <1>2, LargestMember
  <1>4. PICK x \in codes : CodeSeverity[x] = k
    BY <1>3
  <1>5. \A c \in codes : CodeSeverity[c] \in ranks
    OBVIOUS
  <1>6. \A c \in codes : CodeSeverity[x] >= CodeSeverity[c]
    <2> HIDE DEF ranks
    <2> QED  BY <1>1, <1>3, <1>4, <1>5
  <1> QED  BY <1>6 DEF worst

LEMMA WorstPart ==
    ASSUME NEW parts, parts \subseteq ObligationStatuses, parts # {}
    PROVE  /\ WorstObligation(parts) \in parts
           /\ \A x \in parts : ObligationSeverity[WorstObligation(parts)] >= ObligationSeverity[x]
  <1> DEFINE ranks == {ObligationSeverity[c] : c \in parts}
  <1>1. \A c \in ObligationStatuses : ObligationSeverity[c] \in 0 .. 4
    BY DEF ObligationStatuses, ObligationSeverity
  <1>2. ranks \subseteq 0 .. 4 /\ ranks # {}
    BY <1>1
  <1>3. PICK k \in ranks : \A j \in ranks : j =< k
    <2> HIDE DEF ranks
    <2> QED  BY <1>2, LargestMember
  <1>4. PICK x \in parts : ObligationSeverity[x] = k
    BY <1>3
  <1>5. \A c \in parts : ObligationSeverity[c] \in ranks
    OBVIOUS
  <1>6. \A c \in parts : ObligationSeverity[x] >= ObligationSeverity[c]
    <2> HIDE DEF ranks
    <2> QED  BY <1>1, <1>3, <1>4, <1>5
  <1> QED  BY <1>6 DEF WorstObligation

\* The outcomes of the verdicts, and the codes they contribute.
LEMMA CodesOfVerdicts ==
           /\ \A status : member_code(status) \in Codes
           /\ \A status \in DomainStatuses : domain_code(status) \in Codes
           /\ \A status \in CapacityStatuses : capacity_code(status) \in Codes
           /\ \A obligation, status : ObligationCode(obligation, status) \in Codes
  <1>1. /\ {"ok", "incomplete", "stale", "unsupported", "indeterminate", "conflicting",
            "exhausted", "refused"} \subseteq Codes
    BY DEF Codes, CodeSeverity
  <1>2. \A status : member_code(status) \in {"ok", "incomplete", "stale", "unsupported", "conflicting"}
    BY DEF member_code
  <1>3. \A status \in DomainStatuses : domain_code(status) \in {"ok", "incomplete", "conflicting"}
    BY DEF domain_code, DomainStatuses
  <1>4. \A status \in CapacityStatuses :
           capacity_code(status) \in {"ok", "incomplete", "indeterminate", "conflicting",
                                      "exhausted", "unsupported"}
    BY DEF capacity_code, CapacityStatuses, CapacitySeverity
  <1>5. \A obligation, status : ObligationCode(obligation, status) \in {"ok", "incomplete", "stale", "refused"}
    BY DEF ObligationCode
  <1> QED  BY <1>1, <1>2, <1>3, <1>4, <1>5

LEMMA DomainOutcomes ==
    ASSUME NEW s, NEW m, NEW d
    PROVE  DomainVerdict(s, m, d).status \in DomainStatuses
  BY DEF DomainVerdict, DomainStatuses

LEMMA CapacityOutcomes ==
    ASSUME NEW s, NEW m, Claims(s) \subseteq OwnedClaims, IsFiniteSet(Claims(s)),
           NEW x \in DOMAIN Capacity(s, m)
    PROVE  LET account == Capacity(s, m)[x]
           IN  /\ account.status \in CapacityStatuses
               /\ \A d \in DOMAIN account.scoped :
                     /\ account.scoped[d].status \in CapacityStatuses
                     /\ account.scoped[d].owners \subseteq m.usable
  <1> DEFINE U == UsableClaims(s, m)
             W == Claims(s) \ U
             a == by_resource(U, W, x)
  <1>1. Capacity(s, m)[x] = a
    BY DEF Capacity
  <1>2. U \subseteq Claims(s) /\ \A c \in U : c.owner \in m.usable
    BY DEF UsableClaims
  <1> HIDE DEF U
  <1>3. U \subseteq OwnedClaims /\ IsFiniteSet(U) /\ W \subseteq OwnedClaims /\ IsFiniteSet(W)
    BY <1>2, FS_Subset, FS_Difference
  <1> HIDE DEF W
  <1>4. /\ a.status \in CapacityStatuses
        /\ \A d \in DOMAIN a.scoped : /\ a.scoped[d].status \in CapacityStatuses
                                      /\ a.scoped[d].owners \subseteq Owners(U)
    BY <1>3, ByResource
  <1>5. Owners(U) \subseteq m.usable
    BY <1>2 DEF Owners
  <1> HIDE DEF a
  <1> QED  BY <1>1, <1>4, <1>5

\* evaluate_authority(): one of the codes, no milder than any rack's.
LEMMA AuthorityOutcome ==
    ASSUME NEW s, NEW m, NEW domains, \A d \in DOMAIN domains : domains[d].status \in DomainStatuses,
           NEW capacity, \A x \in DOMAIN capacity : capacity[x].status \in CapacityStatuses,
           NEW obligations, NEW lifecycle, NEW tokenValid
    PROVE  LET authority == AuthorityStatus(s, m, domains, capacity, obligations, lifecycle, tokenValid)
           IN  /\ authority \in Codes
               /\ \A r \in Composed(m) : CodeSeverity[authority] >= CodeSeverity[member_code(m.status[r])]
  <1> DEFINE ofMembers == {member_code(m.status[r]) : r \in Composed(m)}
             ofDomains == {domain_code(domains[d].status) : d \in DOMAIN domains}
             ofCapacity == {capacity_code(capacity[x].status) : x \in DOMAIN capacity}
             ofObligations == {ObligationCode(s.obligations[o], obligations[o].status) : o \in DOMAIN obligations}
             ofPod == When(lifecycle = "retired", "refused") \cup When(lifecycle = "constructing", "incomplete")
                      \cup When(RequireToken /\ ~tokenValid, "stale")
             codes == {"ok"} \cup ofMembers \cup ofDomains \cup ofCapacity \cup ofObligations \cup ofPod
  <1>1. AuthorityStatus(s, m, domains, capacity, obligations, lifecycle, tokenValid) = worst(codes)
    <2>1. codes = {"ok"} \cup ofMembers \cup ofDomains \cup ofCapacity \cup ofObligations
                  \cup When(lifecycle = "retired", "refused")
                  \cup When(lifecycle = "constructing", "incomplete")
                  \cup When(RequireToken /\ ~tokenValid, "stale")
      <3> HIDE DEF ofMembers, ofDomains, ofCapacity, ofObligations
      <3> QED  OBVIOUS
    <2> HIDE DEF codes
    <2> QED  BY <2>1 DEF AuthorityStatus
  <1>2. ofMembers \subseteq Codes /\ ofObligations \subseteq Codes
    BY CodesOfVerdicts
  <1>3. ofDomains \subseteq Codes /\ ofCapacity \subseteq Codes
    BY CodesOfVerdicts
  <1>4. {"ok"} \cup ofPod \subseteq Codes
    BY DEF When, Codes, CodeSeverity
  <1>5. \A r \in Composed(m) : member_code(m.status[r]) \in codes
    OBVIOUS
  <1> HIDE DEF ofMembers, ofDomains, ofCapacity, ofObligations, ofPod
  <1>6. codes \subseteq Codes /\ codes # {}
    BY <1>2, <1>3, <1>4
  <1> HIDE DEF codes
  <1> QED  BY <1>1, <1>5, <1>6, WorstCode

LEMMA FloorOutcomes ==
    ASSUME NEW capacity, NEW x, NEW minimum, NEW margin
    PROVE  FloorStatus(capacity, x, minimum, margin) \in {"satisfied", "atrisk", "indeterminate", "violated"}
  BY Zenon DEF FloorStatus

LEMMA ContributionsTyped ==
    ASSUME NEW s, NEW m, NEW domains, NEW capacity, NEW connectivity, NEW obligation,
           obligation.kind \in ObligationKinds
    PROVE  Contributions(s, m, domains, capacity, connectivity, obligation) \subseteq ObligationStatuses
  <1> USE DEF ObligationKinds
  <1> DEFINE parts == Contributions(s, m, domains, capacity, connectivity, obligation)
  <1>1. {"satisfied", "atrisk", "indeterminate", "unsupported", "violated"} = ObligationStatuses
    BY DEF ObligationStatuses, ObligationSeverity
  <1>2. parts \subseteq ObligationStatuses
    <2>1. CASE obligation.kind = "capacity floor"
      <3>1. \A x, minimum, margin :
               FloorStatus(capacity, x, minimum, margin) \in {"satisfied", "atrisk", "indeterminate", "violated"}
        BY FloorOutcomes
      <3>2. parts = {FloorStatus(capacity, x, obligation.floors[x], obligation.margin) :
                        x \in DOMAIN obligation.floors}
        BY <2>1 DEF Contributions
      <3> HIDE DEF parts
      <3> QED  BY <1>1, <3>1, <3>2
    <2>2. CASE obligation.kind = "protected path"
      <3>1. \A pair : ProtectedPairStatus(connectivity, pair) \in {"satisfied", "atrisk", "indeterminate", "violated"}
        BY DEF ProtectedPairStatus
      <3>2. parts = {IF r \in m.established THEN "satisfied" ELSE "violated" : r \in obligation.racks}
                    \cup {ProtectedPairStatus(connectivity, pair) : pair \in Pairs \cap SUBSET obligation.racks}
        BY <2>2 DEF Contributions
      <3> HIDE DEF parts
      <3> QED  BY <1>1, <3>1, <3>2
    <2>3. CASE obligation.kind \in {"domain diversity", "maintenance window"}
      <3>1. parts \subseteq {"satisfied", "indeterminate", "violated", "atrisk"}
        BY <2>3 DEF Contributions, When
      <3> HIDE DEF parts
      <3> QED  BY <1>1, <3>1
    <2> QED  BY <2>1, <2>2, <2>3
  <1> QED  BY <1>2

LEMMA ObligationOutcomes ==
    ASSUME NEW s, NEW m, NEW domains, NEW capacity, NEW connectivity, NEW obligation,
           obligation.kind \in ObligationKinds
    PROVE  ObligationVerdict(s, m, domains, capacity, connectivity, obligation).status
               \in ObligationStatuses
  <1> DEFINE parts == Contributions(s, m, domains, capacity, connectivity, obligation)
             verdict == ObligationVerdict(s, m, domains, capacity, connectivity, obligation)
  <1>1. parts \subseteq ObligationStatuses
    BY ContributionsTyped
  <1>2. verdict.status = IF parts = {} THEN "unsupported" ELSE WorstObligation(parts)
    BY DEF ObligationVerdict
  <1>3. "unsupported" \in ObligationStatuses
    BY DEF ObligationStatuses, ObligationSeverity
  <1> HIDE DEF parts, verdict
  <1>4. verdict.status \in ObligationStatuses
    BY <1>1, <1>2, <1>3, WorstPart
  <1> QED  BY <1>4 DEF verdict

-----------------------------------------------------------------------------
\* The greedy packing takes its candidates apart at the largest of them, by size and
\* then by identity.
LEMMA LastPackedIsOne ==
    ASSUME NEW s, NEW candidates, IsFiniteSet(candidates), candidates \subseteq Nat, candidates # {},
           \A d \in candidates : Listed(s, d) \subseteq Racks
    PROVE  LastPacked(s, candidates) \in candidates
  <1> DEFINE size(d) == Cardinality(Listed(s, d))
             sizes == {size(d) : d \in candidates}
  <1>1. Cardinality(Racks) \in Nat /\ \A d \in candidates : size(d) \in 0 .. Cardinality(Racks)
    <2>1. IsFiniteSet(Racks) /\ Cardinality(Racks) \in Nat
      BY CompositionAssumption, FS_CardinalityType
    <2>2. ASSUME NEW d \in candidates PROVE size(d) \in 0 .. Cardinality(Racks)
      <3>1. IsFiniteSet(Listed(s, d)) /\ Cardinality(Listed(s, d)) =< Cardinality(Racks)
        BY <2>1, FS_Subset
      <3>2. Cardinality(Listed(s, d)) \in Nat
        BY <3>1, FS_CardinalityType
      <3> QED  BY <2>1, <3>1, <3>2
    <2> QED  BY <2>1, <2>2
  <1>2. sizes \subseteq 0 .. Cardinality(Racks) /\ sizes # {}
    BY <1>1
  <1>3. PICK n \in sizes : \A k \in sizes : k =< n
    <2> HIDE DEF sizes
    <2> QED  BY <1>1, <1>2, LargestMember
  <1>4. \A d \in candidates : size(d) \in sizes
    OBVIOUS
  <1> DEFINE large == {d \in candidates : size(d) = n}
  <1>5. large # {} /\ large \subseteq Nat /\ IsFiniteSet(large)
    BY FS_Subset
  <1> HIDE DEF large, sizes, size
  <1>6. Max(large) \in large /\ \A k \in large : Max(large) >= k
    BY <1>5, MaxIsOne
  <1> DEFINE last == Max(large)
  <1>7. last \in candidates /\ last \in Nat /\ size(last) = n
    BY <1>6 DEF large
  <1>8. \A e \in candidates \ {last} : size(e) < size(last) \/ (size(e) = size(last) /\ e < last)
    <2> SUFFICES ASSUME NEW e \in candidates \ {last}
                 PROVE  size(e) < size(last) \/ (size(e) = size(last) /\ e < last)
      OBVIOUS
    <2>1. size(e) =< n /\ size(e) \in Int /\ n \in Int
      BY <1>1, <1>3, <1>4, <1>7
    <2>2. size(e) = n => e \in large
      BY DEF large
    <2>3. e \in large => e =< last
      BY <1>5, <1>6
    <2> HIDE DEF last
    <2> QED  BY <1>7, <2>1, <2>2, <2>3
  <1> HIDE DEF last
  <1>9. \A e \in candidates \ {last} : PackedBefore(s, e, last)
    BY <1>8 DEF PackedBefore, size
  <1> QED  BY <1>7, <1>9 DEF LastPacked

\* What it takes are candidates, no two with a rack in common.
Apart(s, taken) == \A d, e \in taken : d # e => Listed(s, d) \cap Listed(s, e) = {}

LEMMA TakeKeepsApart ==
    ASSUME NEW s, NEW taken, Apart(s, taken), NEW d
    PROVE  Apart(s, Take(s, d, taken)) /\ Take(s, d, taken) \subseteq taken \cup {d}
  <1>1. CASE \E e \in taken : Listed(s, d) \cap Listed(s, e) # {}
    BY <1>1 DEF Take
  <1>2. CASE ~\E e \in taken : Listed(s, d) \cap Listed(s, e) # {}
    <2>1. Take(s, d, taken) = taken \cup {d}
      BY <1>2 DEF Take
    <2>2. \A e \in taken : Listed(s, d) \cap Listed(s, e) = {} /\ Listed(s, e) \cap Listed(s, d) = {}
      BY <1>2
    <2> QED  BY <2>1, <2>2 DEF Apart
  <1> QED  BY <1>1, <1>2

LEMMA PackingIsApart ==
    ASSUME NEW s, NEW candidates, IsFiniteSet(candidates), candidates \subseteq Nat,
           \A d \in candidates : Listed(s, d) \subseteq Racks
    PROVE  Packing(s, candidates) \subseteq candidates /\ Apart(s, Packing(s, candidates))
  <1> DEFINE Next(r, h) == Take(s, LastPacked(s, r), h[r \ {LastPacked(s, r)}])
             h == CHOOSE h : h = [r \in SUBSET candidates |-> IF r = {} THEN {} ELSE Next(r, h)]
             pick == [r \in SUBSET candidates |-> LastPacked(s, r)]
             T == SUBSET candidates
             step == [a \in candidates \X T |-> Take(s, a[1], a[2]) \cap candidates]
  <1>1. Packing(s, candidates) = h[candidates]
    BY DEF Packing, MapThenFoldSet
  <1>2. \A r \in SUBSET candidates : r # {} => LastPacked(s, r) \in r
    <2> SUFFICES ASSUME NEW r \in SUBSET candidates, r # {} PROVE LastPacked(s, r) \in r
      OBVIOUS
    <2>1. IsFiniteSet(r) /\ r \subseteq Nat /\ \A d \in r : Listed(s, d) \subseteq Racks
      BY FS_Subset
    <2> QED  BY <2>1, LastPackedIsOne
  <1>3. \A d \in candidates : \A taken \in T : Take(s, d, taken) \subseteq candidates
    BY DEF Take
  <1>4. step \in [candidates \X T -> T] /\ {} \in T /\ \A r \in SUBSET candidates : r # {} => pick[r] \in r
    BY <1>2
  <1> HIDE DEF pick, step, T
  <1>5. PICK g \in [SUBSET candidates -> T] : FoldsBy(g, candidates, pick, step, {})
    BY <1>4, FoldExists
  <1>6. ASSUME NEW r \in SUBSET candidates, r # {}
        PROVE  step[<<pick[r], g[r \ {pick[r]}]>>] = Next(r, g)
    <2>1. pick[r] = LastPacked(s, r) /\ LastPacked(s, r) \in candidates /\ r \ {LastPacked(s, r)} \in SUBSET candidates
      BY <1>2, <1>6 DEF pick
    <2>2. g[r \ {LastPacked(s, r)}] \in T
      BY <1>5, <2>1
    <2>3. step[<<LastPacked(s, r), g[r \ {LastPacked(s, r)}]>>]
             = Take(s, LastPacked(s, r), g[r \ {LastPacked(s, r)}]) \cap candidates
      BY <2>1, <2>2 DEF step
    <2>4. Take(s, LastPacked(s, r), g[r \ {LastPacked(s, r)}]) \subseteq candidates
      BY <1>3, <2>1, <2>2
    <2> QED  BY <2>1, <2>3, <2>4
  <1>7. g = [r \in SUBSET candidates |-> IF r = {} THEN {} ELSE Next(r, g)]
    <2> HIDE DEF Next
    <2> QED  BY <1>5, <1>6 DEF FoldsBy
  <1>8. h = [r \in SUBSET candidates |-> IF r = {} THEN {} ELSE Next(r, h)]
    BY <1>7
  <1> HIDE DEF h
  <1> DEFINE Good == {r \in SUBSET candidates : h[r] \subseteq r /\ Apart(s, h[r])}
  <1>9. {} \in Good
    BY <1>8 DEF Apart
  <1>10. ASSUME NEW r \in SUBSET candidates, r # {}, \A d \in r : r \ {d} \in Good PROVE r \in Good
    <2> DEFINE d == LastPacked(s, r)
    <2>1. d \in r /\ h[r] = Take(s, d, h[r \ {d}])
      BY <1>2, <1>8, <1>10
    <2> HIDE DEF d
    <2>2. h[r \ {d}] \subseteq r \ {d} /\ Apart(s, h[r \ {d}])
      BY <1>10, <2>1
    <2> DEFINE before == h[r \ {d}]
    <2>3. before \subseteq r \ {d} /\ Apart(s, before) /\ h[r] = Take(s, d, before)
      BY <2>1, <2>2
    <2> HIDE DEF before
    <2>4. Apart(s, Take(s, d, before)) /\ Take(s, d, before) \subseteq before \cup {d}
      BY <2>3, TakeKeepsApart
    <2> QED  BY <2>1, <2>3, <2>4
  <1> HIDE DEF Good
  <1>11. SUBSET candidates \subseteq Good
    BY <1>9, <1>10, SubsetInduction
  <1>12. candidates \in Good
    BY <1>11
  <1> QED  BY <1>1, <1>12 DEF Good

\* The worst part of what holds is "satisfied" only when nothing is at risk.
LEMMA SatisfiedHasNoRisk ==
    ASSUME NEW parts, parts \subseteq ObligationStatuses, parts # {},
           WorstObligation(parts) = "satisfied"
    PROVE  "atrisk" \notin parts
  <1>1. \A x \in parts : ObligationSeverity["satisfied"] >= ObligationSeverity[x]
    BY WorstPart
  <1>2. ObligationSeverity["satisfied"] = 0 /\ ObligationSeverity["atrisk"] = 1
    BY DEF ObligationSeverity
  <1>3. ASSUME "atrisk" \in parts PROVE FALSE
    <2>1. 0 >= 1
      BY <1>1, <1>2, <1>3
    <2> QED  BY <2>1
  <1> QED  BY <1>3

LEMMA NotFewer == ASSUME NEW n \in Nat, NEW wanted \in Nat, ~(n < wanted) PROVE n >= wanted
  OBVIOUS

\* An obligation of diversity is reported satisfied only when as many domains as it
\* asks for can be packed.
DiversityKinds == {"domain diversity", "maintenance window"}

LEMMA DiversityPacked ==
    ASSUME NEW s, NEW m, NEW domains, NEW capacity, NEW connectivity, NEW obligation,
           obligation.kind \in DiversityKinds,
           ObligationVerdict(s, m, domains, capacity, connectivity, obligation).status = "satisfied",
           NEW n \in Nat, n = Cardinality(Satisfying(s, m, domains, obligation)),
           NEW wanted \in Nat, wanted = obligation.domains
    PROVE  n >= wanted
  <1> DEFINE parts == Contributions(s, m, domains, capacity, connectivity, obligation)
  <1>1. ObligationVerdict(s, m, domains, capacity, connectivity, obligation).status
            = IF parts = {} THEN "unsupported" ELSE WorstObligation(parts)
    BY DEF ObligationVerdict
  <1>2. parts # {} /\ n < wanted => "atrisk" \in parts
    BY DEF Contributions, When, DiversityKinds
  <1>3. parts \subseteq ObligationStatuses
    <2>1. obligation.kind \in ObligationKinds
      BY DEF ObligationKinds, DiversityKinds
    <2> QED  BY <2>1, ContributionsTyped
  <1> HIDE DEF parts
  <1>4. parts # {} /\ WorstObligation(parts) = "satisfied"
    BY <1>1
  <1>5. "atrisk" \notin parts
    BY <1>3, <1>4, SatisfiedHasNoRisk
  <1>6. ~(n < wanted)
    BY <1>2, <1>4, <1>5
  <1> QED  BY <1>6, NotFewer
=============================================================================
