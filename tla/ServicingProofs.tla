-------------------------- MODULE ServicingProofs --------------------------
(***************************************************************************)
(* Theorems of InterestEngine and LoanServicing.                           *)
(*                                                                         *)
(* The balances are read off a replay of the ledger and the plan is filled *)
(* by a recursion over the installments.  Both are functions defined by    *)
(* recursion on positions, so the module first shows that such a function  *)
(* exists and obeys its law, by the least position at which it would not,  *)
(* and then that replay order is a permutation of the rows: a row's place  *)
(* is one more than the rows before it.  On these rest                     *)
(*   - Typed, the typing invariant: no bucket and no stored principal is   *)
(*     negative, and no installment holds more than its total;             *)
(*   - StoredPrincipalIsTheLedgers: the stored principal and the replay;   *)
(*   - PaymentsSettleTheDebt: what a payment does to the debt;             *)
(*   - NoLateDebtWhileActive and PlanTakesTheCash, both where the nightly  *)
(*     job's transaction overlaps no other writer (~AgingOverlaps): the    *)
(*     run with the overlap has the counterexample.                        *)
(***************************************************************************)
EXTENDS LoanServicing, SumLemmas

(* Three buckets x, y, z served in this order give an amount away exactly,  *)
(* and none takes more than it holds.  The arithmetic behind the waterfall. *)
LEMMA ThreeBuckets ==
    ASSUME NEW x \in Nat, NEW y \in Nat, NEW z \in Nat, NEW a \in Nat,
           NEW sx, NEW sy, NEW sz, NEW ov,
           sx = Lesser(x, Positive(a - 0)),
           sy = Lesser(y, Positive(a - x)),
           sz = Lesser(z, Positive(a - (x + y))),
           ov = Positive(a - (x + y + z))
    PROVE  /\ sx \in 0 .. x /\ sy \in 0 .. y /\ sz \in 0 .. z
           /\ ov \in Nat
           /\ sx + sy + sz + ov = a
  BY DEF Lesser, Positive

(* The repayment order places the three buckets at three distinct positions.*)
LEMMA PriorityIsAnOrder ==
    /\ Priority["interest"] \in 1 .. 3
    /\ Priority["principal"] \in 1 .. 3
    /\ Priority["fees"] \in 1 .. 3
    /\ Priority["interest"] # Priority["principal"]
    /\ Priority["interest"] # Priority["fees"]
    /\ Priority["principal"] # Priority["fees"]
  BY PriorityAssumption DEF Buckets

(* The waterfall gives a regular payment away exactly: whatever the order,  *)
(* the shares of the three reachable buckets and the overpayment add up to  *)
(* the amount, and no bucket takes more than it is owed.                    *)
LEMMA WaterfallExhaustsAmount ==
    ASSUME NEW b \in Balances, NEW amount \in Nat
    PROVE  /\ Share("interest", amount, b) \in 0 .. b.interest
           /\ Share("principal", amount, b) \in 0 .. b.principal
           /\ Share("fees", amount, b) \in 0 .. b.fees
           /\ Overpayment("regular", amount, b) \in Nat
           /\ Share("interest", amount, b) + Share("principal", amount, b)
                + Share("fees", amount, b) + Overpayment("regular", amount, b)
              = amount
<1> DEFINE I == b.interest
           P == b.principal
           F == b.fees
           before(c, d, v) == IF Priority[d] < Priority[c] THEN v ELSE 0
<1>1. I \in Nat /\ P \in Nat /\ F \in Nat
  BY DEF Balances
<1>2. /\ OwedBefore("interest", b) = before("interest", "principal", P)
                                       + before("interest", "fees", F)
      /\ OwedBefore("principal", b) = before("principal", "interest", I)
                                       + before("principal", "fees", F)
      /\ OwedBefore("fees", b) = before("fees", "interest", I)
                                       + before("fees", "principal", P)
  BY <1>1, PriorityIsAnOrder DEF OwedBefore
<1>3. /\ Share("interest", amount, b) = Lesser(I, Positive(amount - OwedBefore("interest", b)))
      /\ Share("principal", amount, b) = Lesser(P, Positive(amount - OwedBefore("principal", b)))
      /\ Share("fees", amount, b) = Lesser(F, Positive(amount - OwedBefore("fees", b)))
      /\ Overpayment("regular", amount, b) = Positive(amount - (I + P + F))
  BY DEF Share, Overpayment
<1> DEFINE served(first, second, third, x, y, z) ==
              /\ OwedBefore(first, b) = 0
              /\ OwedBefore(second, b) = x
              /\ OwedBefore(third, b) = x + y
<1>4. \/ served("interest", "principal", "fees", I, P, F)
      \/ served("interest", "fees", "principal", I, F, P)
      \/ served("principal", "interest", "fees", P, I, F)
      \/ served("principal", "fees", "interest", P, F, I)
      \/ served("fees", "interest", "principal", F, I, P)
      \/ served("fees", "principal", "interest", F, P, I)
  BY <1>1, <1>2, PriorityIsAnOrder
<1> DEFINE si == Share("interest", amount, b)
           sp == Share("principal", amount, b)
           sf == Share("fees", amount, b)
           ov == Overpayment("regular", amount, b)
           Goal == /\ si \in 0 .. I /\ sp \in 0 .. P /\ sf \in 0 .. F
                   /\ ov \in Nat
                   /\ si + sp + sf + ov = amount
<1> HIDE DEF I, P, F, before
<1> HIDE DEF si, sp, sf, ov
<1> SUFFICES Goal
  BY DEF I, P, F, si, sp, sf, ov
<1>5. CASE served("interest", "principal", "fees", I, P, F)
  <2>1. /\ si = Lesser(I, Positive(amount - 0))
        /\ sp = Lesser(P, Positive(amount - I))
        /\ sf = Lesser(F, Positive(amount - (I + P)))
    BY <1>3, <1>5 DEF si, sp, sf
  <2>2. ov = Positive(amount - (I + P + F))
    <3>1. I + P + F = I + P + F
      BY <1>1
    <3>2. QED
      BY <1>3, <3>1 DEF ov
  <2>3. /\ si \in 0 .. I /\ sp \in 0 .. P /\ sf \in 0 .. F
        /\ ov \in Nat
        /\ si + sp + sf + ov = amount
    BY <1>1, <2>1, <2>2, ThreeBuckets
  <2>4. QED
    BY <1>1, <2>3
<1>6. CASE served("interest", "fees", "principal", I, F, P)
  <2>1. /\ si = Lesser(I, Positive(amount - 0))
        /\ sf = Lesser(F, Positive(amount - I))
        /\ sp = Lesser(P, Positive(amount - (I + F)))
    BY <1>3, <1>6 DEF si, sp, sf
  <2>2. ov = Positive(amount - (I + F + P))
    <3>1. I + P + F = I + F + P
      BY <1>1
    <3>2. QED
      BY <1>3, <3>1 DEF ov
  <2>3. /\ si \in 0 .. I /\ sf \in 0 .. F /\ sp \in 0 .. P
        /\ ov \in Nat
        /\ si + sf + sp + ov = amount
    BY <1>1, <2>1, <2>2, ThreeBuckets
  <2>4. QED
    BY <1>1, <2>3
<1>7. CASE served("principal", "interest", "fees", P, I, F)
  <2>1. /\ sp = Lesser(P, Positive(amount - 0))
        /\ si = Lesser(I, Positive(amount - P))
        /\ sf = Lesser(F, Positive(amount - (P + I)))
    BY <1>3, <1>7 DEF si, sp, sf
  <2>2. ov = Positive(amount - (P + I + F))
    <3>1. I + P + F = P + I + F
      BY <1>1
    <3>2. QED
      BY <1>3, <3>1 DEF ov
  <2>3. /\ sp \in 0 .. P /\ si \in 0 .. I /\ sf \in 0 .. F
        /\ ov \in Nat
        /\ sp + si + sf + ov = amount
    BY <1>1, <2>1, <2>2, ThreeBuckets
  <2>4. QED
    BY <1>1, <2>3
<1>8. CASE served("principal", "fees", "interest", P, F, I)
  <2>1. /\ sp = Lesser(P, Positive(amount - 0))
        /\ sf = Lesser(F, Positive(amount - P))
        /\ si = Lesser(I, Positive(amount - (P + F)))
    BY <1>3, <1>8 DEF si, sp, sf
  <2>2. ov = Positive(amount - (P + F + I))
    <3>1. I + P + F = P + F + I
      BY <1>1
    <3>2. QED
      BY <1>3, <3>1 DEF ov
  <2>3. /\ sp \in 0 .. P /\ sf \in 0 .. F /\ si \in 0 .. I
        /\ ov \in Nat
        /\ sp + sf + si + ov = amount
    BY <1>1, <2>1, <2>2, ThreeBuckets
  <2>4. QED
    BY <1>1, <2>3
<1>9. CASE served("fees", "interest", "principal", F, I, P)
  <2>1. /\ sf = Lesser(F, Positive(amount - 0))
        /\ si = Lesser(I, Positive(amount - F))
        /\ sp = Lesser(P, Positive(amount - (F + I)))
    BY <1>3, <1>9 DEF si, sp, sf
  <2>2. ov = Positive(amount - (F + I + P))
    <3>1. I + P + F = F + I + P
      BY <1>1
    <3>2. QED
      BY <1>3, <3>1 DEF ov
  <2>3. /\ sf \in 0 .. F /\ si \in 0 .. I /\ sp \in 0 .. P
        /\ ov \in Nat
        /\ sf + si + sp + ov = amount
    BY <1>1, <2>1, <2>2, ThreeBuckets
  <2>4. QED
    BY <1>1, <2>3
<1>10. CASE served("fees", "principal", "interest", F, P, I)
  <2>1. /\ sf = Lesser(F, Positive(amount - 0))
        /\ sp = Lesser(P, Positive(amount - F))
        /\ si = Lesser(I, Positive(amount - (F + P)))
    BY <1>3, <1>10 DEF si, sp, sf
  <2>2. ov = Positive(amount - (F + P + I))
    <3>1. I + P + F = F + P + I
      BY <1>1
    <3>2. QED
      BY <1>3, <3>1 DEF ov
  <2>3. /\ sf \in 0 .. F /\ sp \in 0 .. P /\ si \in 0 .. I
        /\ ov \in Nat
        /\ sf + sp + si + ov = amount
    BY <1>1, <2>1, <2>2, ThreeBuckets
  <2>4. QED
    BY <1>1, <2>3
<1>11. QED
  BY <1>4, <1>5, <1>6, <1>7, <1>8, <1>9, <1>10

(* Every accepted payment leaves well-formed balances, its allocation adds  *)
(* up to the cash received, and the payoff drops by exactly the amount less *)
(* the overpayment (the promise of allocate_payment's docstring), for every *)
(* repayment mode and every configured order.                               *)
THEOREM PaymentConservesMoney ==
    ASSUME NEW b \in Balances, NEW amount \in Nat, NEW mode \in Modes,
           Accepts(mode, amount, b)
    PROVE  /\ Allocate(mode, amount, b) \in Balances
           /\ Payoff(Allocate(mode, amount, b)) = amount
           /\ ApplyEvent(b, Allocate(mode, amount, b), NoMoney) \in Balances
           /\ Payoff(ApplyEvent(b, Allocate(mode, amount, b), NoMoney))
              = Payoff(b) - (amount - Overpayment(mode, amount, b))
<1> DEFINE al == Allocate(mode, amount, b)
           ov == Overpayment(mode, amount, b)
           Goal == /\ al \in Balances
                   /\ Payoff(al) = amount
                   /\ ApplyEvent(b, al, NoMoney) \in Balances
                   /\ Payoff(ApplyEvent(b, al, NoMoney)) = Payoff(b) - (amount - ov)
<1> SUFFICES Goal
  OBVIOUS
<1>1. /\ b.interest \in Nat /\ b.principal \in Nat
      /\ b.fees \in Nat /\ b.addOn \in Nat
  BY DEF Balances
<1>2. ASSUME al \in Balances,
             al.interest <= b.interest, al.fees <= b.fees, al.addOn <= b.addOn,
             al.principal = ov \/ al.principal - ov <= b.principal,
             ov \in Nat, ov > 0 => al.principal >= b.principal,
             Payoff(al) = amount,
             Positive(b.principal - al.principal)
               = b.principal - (al.principal - ov)
      PROVE  Goal
  <2>1. /\ al.interest \in Nat /\ al.principal \in Nat
        /\ al.fees \in Nat /\ al.addOn \in Nat
    BY <1>2 DEF Balances
  <2>2. Positive(al.interest - b.interest) = 0
    BY <1>1, <1>2, <2>1 DEF Positive
  <2>3. ApplyEvent(b, al, NoMoney)
          = [principal |-> Positive(b.principal - al.principal),
             interest  |-> b.interest - al.interest,
             fees      |-> b.fees - al.fees,
             addOn     |-> b.addOn - al.addOn]
    <3> HIDE DEF al, ov
    <3>1. /\ Positive(b.interest - al.interest) = b.interest - al.interest
          /\ Positive(b.fees + 0 - al.fees) = b.fees - al.fees
          /\ Positive(b.addOn + 0 - al.addOn) = b.addOn - al.addOn
          /\ b.principal - al.principal - 0 = b.principal - al.principal
      BY <1>1, <1>2, <2>1 DEF Positive
    <3>2. QED
      BY <2>2, <3>1 DEF ApplyEvent, NoMoney
  <2>4. Positive(b.principal - al.principal) \in Nat
    <3> HIDE DEF al, ov
    <3>1. QED
      BY <1>1, <2>1 DEF Positive
  <2>5. QED
    <3> HIDE DEF al, ov
    <3>1. ApplyEvent(b, al, NoMoney) \in Balances
      BY <1>1, <1>2, <2>1, <2>3, <2>4 DEF Balances
    <3>2. Payoff(ApplyEvent(b, al, NoMoney))
            = b.principal - (al.principal - ov) + (b.interest - al.interest)
              + (b.fees - al.fees) + (b.addOn - al.addOn)
      BY <1>2, <2>3 DEF Payoff
    <3>3. al.principal + al.interest + al.fees + al.addOn = amount
      BY <1>2 DEF Payoff
    <3>4. Payoff(ApplyEvent(b, al, NoMoney)) = Payoff(b) - (amount - ov)
      BY <1>1, <1>2, <2>1, <3>2, <3>3 DEF Payoff
    <3>5. QED
      BY <1>2, <3>1, <3>4
<1>3. CASE mode = "regular"
  <2>1. /\ al.interest = Share("interest", amount, b)
        /\ al.principal = Share("principal", amount, b) + ov
        /\ al.fees = Share("fees", amount, b)
        /\ al.addOn = 0
        /\ al = [principal |-> al.principal, interest |-> al.interest,
                 fees |-> al.fees, addOn |-> al.addOn]
    BY <1>3 DEF Allocate, AllocateRegular
  <2> DEFINE si == Share("interest", amount, b)
             sp == Share("principal", amount, b)
             sf == Share("fees", amount, b)
  <2>2. /\ si \in 0 .. b.interest /\ sp \in 0 .. b.principal /\ sf \in 0 .. b.fees
        /\ ov \in Nat
        /\ si + sp + sf + ov = amount
    BY <1>3, WaterfallExhaustsAmount
  <2>3. ov = Positive(amount - (b.interest + b.principal + b.fees))
    BY <1>3 DEF Overpayment
  <2> HIDE DEF al, ov, si, sp, sf
  <2>4. al \in Balances
    BY <1>1, <2>1, <2>2 DEF Balances, si, sp, sf
  <2>5. Payoff(al) = amount
    BY <1>1, <2>1, <2>2 DEF Payoff, si, sp, sf
  <2>6. ov > 0 => sp = b.principal
    BY <1>1, <2>2, <2>3 DEF Positive
  <2>7. Positive(b.principal - al.principal) = b.principal - (al.principal - ov)
    BY <1>1, <2>1, <2>2, <2>6, SMTT(30) DEF Positive, sp
  <2>8. QED
    BY <1>1, <1>2, <2>1, <2>2, <2>4, <2>5, <2>6, <2>7 DEF si, sp, sf
<1>4. CASE mode = "add_on"
  <2>1. ov = 0 /\ al = [principal |-> 0, interest |-> 0, fees |-> 0, addOn |-> amount]
    BY <1>4 DEF Allocate, Overpayment, NoMoney
  <2>2. amount <= b.addOn
    BY <1>4 DEF Accepts
  <2> HIDE DEF al, ov
  <2>3. QED
    BY <1>1, <1>2, <2>1, <2>2 DEF Balances, Payoff, Positive
<1>5. CASE mode = "special"
  <2>1. ov = 0 /\ al = [principal |-> amount, interest |-> 0, fees |-> 0, addOn |-> 0]
    BY <1>5 DEF Allocate, Overpayment, NoMoney
  <2>2. amount <= b.principal
    BY <1>5 DEF Accepts
  <2> HIDE DEF al, ov
  <2>3. QED
    BY <1>1, <1>2, <2>1, <2>2 DEF Balances, Payoff, Positive
<1>6. CASE mode = "payoff"
  <2>1. ov = 0 /\ al = b
    BY <1>6 DEF Allocate, Overpayment
  <2>2. amount = Payoff(b)
    BY <1>6 DEF Accepts
  <2> HIDE DEF al, ov
  <2>3. QED
    BY <1>1, <1>2, <2>1, <2>2 DEF Balances, Payoff, Positive
<1>7. QED
  BY <1>3, <1>4, <1>5, <1>6 DEF Modes

---------------------------------------------------------------------------
(* Functions by recursion on 0 .. n: the replay of the ledger, the filling  *)
(* of the plan and the cash counted so far are all of this shape.  g maps a *)
(* value and the next position to the next value.                           *)

Recurs(f, base, g, n) ==
    f = [k \in 0 .. n |-> IF k = 0 THEN base ELSE g[<<f[k - 1], k>>]]

(* One exists: the least length without one would extend the one before.    *)
LEMMA RecursionExists ==
    ASSUME NEW W, NEW base \in W, NEW n \in Nat, NEW g,
           \A w \in W, k \in 1 .. n : g[<<w, k>>] \in W
    PROVE  \E f \in [0 .. n -> W] : Recurs(f, base, g, n)
<1> DEFINE bad == {m \in Nat : m <= n /\ ~ \E f \in [0 .. m -> W] : Recurs(f, base, g, m)}
<1> SUFFICES ASSUME bad # {} PROVE FALSE
  OBVIOUS
<1>1. PICK m \in bad : \A k \in bad : m <= k
  <2>1. bad \in SUBSET Nat
    OBVIOUS
  <2> HIDE DEF bad
  <2> QED
    BY <2>1, NatHasMin
<1>2. m \in Nat /\ m <= n /\ ~ \E f \in [0 .. m -> W] : Recurs(f, base, g, m)
  OBVIOUS
<1>3. CASE m = 0
  <2> DEFINE f == [k \in 0 .. m |-> base]
  <2>1. f \in [0 .. m -> W]
    OBVIOUS
  <2>2. \A k \in 0 .. m : k = 0
    BY <1>3
  <2>3. Recurs(f, base, g, m)
    BY <2>2 DEF Recurs
  <2> QED
    BY <1>2, <2>1, <2>3
<1>4. CASE m # 0
  <2>1. m - 1 \in Nat /\ m - 1 <= n /\ ~(m <= m - 1)
    BY <1>2, <1>4
  <2>2. m - 1 \notin bad
    BY <1>1, <2>1
  <2>3. PICK f \in [0 .. m - 1 -> W] : Recurs(f, base, g, m - 1)
    BY <2>1, <2>2
  <2> DEFINE h == [k \in 0 .. m |-> IF k = m THEN g[<<f[m - 1], m>>] ELSE f[k]]
  <2>4. f[m - 1] \in W /\ m \in 1 .. n
    BY <1>2, <1>4, <2>1
  <2>5. h \in [0 .. m -> W]
    <3>1. g[<<f[m - 1], m>>] \in W
      BY <2>4
    <3>2. \A k \in 0 .. m : k # m => k \in 0 .. m - 1
      BY <1>2
    <3> QED
      BY <3>1, <3>2
  <2>6. ASSUME NEW k \in 0 .. m
        PROVE  h[k] = IF k = 0 THEN base ELSE g[<<h[k - 1], k>>]
    <3>1. CASE k = m
      <4>1. m - 1 \in 0 .. m /\ m - 1 # m
        BY <1>2, <1>4
      <4>2. h[m - 1] = f[m - 1]
        BY <4>1
      <4> QED
        BY <1>4, <3>1, <4>2
    <3>2. CASE k # m
      <4>1. k \in 0 .. m - 1
        BY <1>2, <3>2
      <4>2. f[k] = IF k = 0 THEN base ELSE g[<<f[k - 1], k>>]
        BY <2>3, <4>1 DEF Recurs
      <4>3. h[k] = f[k]
        BY <3>2
      <4>4. CASE k = 0
        BY <4>2, <4>3, <4>4
      <4>5. CASE k # 0
        <5>1. k - 1 \in 0 .. m /\ k - 1 # m
          BY <1>2, <4>1, <4>5
        <5>2. h[k - 1] = f[k - 1]
          BY <5>1
        <5> QED
          BY <4>2, <4>3, <4>5, <5>2
      <4> QED
        BY <4>4, <4>5
    <3> QED
      BY <3>1, <3>2
  <2>7. Recurs(h, base, g, m)
    <3>1. h = [k \in 0 .. m |-> h[k]]
      OBVIOUS
    <3> HIDE DEF h
    <3>2. [k \in 0 .. m |-> h[k]]
            = [k \in 0 .. m |-> IF k = 0 THEN base ELSE g[<<h[k - 1], k>>]]
      BY <2>6
    <3> QED
      BY <3>1, <3>2 DEF Recurs
  <2> QED
    BY <1>2, <2>5, <2>7
<1> QED
  BY <1>3, <1>4

(* Two such functions agree when their steps do, and stay in W when every   *)
(* step does.                                                               *)
Agrees(f, h, W, k) == f[k] \in W /\ h[k] = f[k]

(* Two functions that agree at 0, and at each position when they do at the  *)
(* one before it, agree at all of them.                                     *)
LEMMA RecursionsAgree ==
    ASSUME NEW W, NEW n \in Nat, NEW f, NEW h, Agrees(f, h, W, 0),
           \A k \in 1 .. n : Agrees(f, h, W, k - 1) => Agrees(f, h, W, k)
    PROVE  \A k \in 0 .. n : Agrees(f, h, W, k)
<1> DEFINE S == {k \in Nat : Agrees(f, h, W, k)}
<1>1. \A k \in 1 .. n : k \in Nat /\ k - 1 \in Nat
  OBVIOUS
<1>2. 0 \in S /\ \A k \in 1 .. n : k - 1 \in S => k \in S
  BY <1>1
<1>3. \A k \in 0 .. n : k \in S
  <2> HIDE DEF S
  <2> QED
    BY <1>2, UpFromZero
<1> QED
  BY <1>3

---------------------------------------------------------------------------
(* The replay.  A position of it is the day reached and the balances then.  *)

Positions == [cursor : Nat, b : Balances]
Events    == [eff : Nat, paid : Balances, charged : Balances]

AccruesTo(w, d) ==
    IF d > w.cursor
    THEN [cursor |-> d,
          b |-> [w.b EXCEPT !.interest = @ + AccrueInterest(w.b.principal, d - w.cursor)]]
    ELSE w
Replays(w, e, asOf) ==
    IF e.eff > asOf THEN w
    ELSE [AccruesTo(w, e.eff) EXCEPT !.b = ApplyEvent(@, e.paid, e.charged)]
Opening(advance, start) == [cursor |-> start, b |-> [NoMoney EXCEPT !.principal = advance]]
IsWalk(f, advance, start, events, asOf) ==
    f = [k \in 0 .. Len(events) |->
            IF k = 0 THEN Opening(advance, start) ELSE Replays(f[k - 1], events[k], asOf)]
WalkOf(advance, start, events, asOf) == CHOOSE f : IsWalk(f, advance, start, events, asOf)

(* The balances are those of the walk's last position, accrued to the day.  *)
LEMMA BalancesByWalk ==
    ASSUME NEW advance, NEW start, NEW events, NEW asOf
    PROVE  ComputeBalances(advance, start, events, asOf)
             = AccruesTo(WalkOf(advance, start, events, asOf)[Len(events)], asOf).b
  BY DEF ComputeBalances, WalkOf, IsWalk, AccruesTo, Replays, Opening

(* Interest is a whole number of cents, and none accrues on nothing.        *)
LEMMA InterestTyped ==
    ASSUME NEW p \in Nat, NEW d \in Nat
    PROVE  AccrueInterest(p, d) \in Nat /\ (p = 0 => AccrueInterest(p, d) = 0)
<1>1. p * RateNum * d \in Nat /\ RateDen \in Nat \ {0}
  <2>1. RateNum \in Nat /\ RateDen \in Nat \ {0}
    BY RateAssumption
  <2>2. p * RateNum \in Nat
    BY <2>1
  <2> QED
    BY <2>1, <2>2
<1>2. PICK n \in Nat, r \in Nat \ {0} : n = p * RateNum * d /\ r = RateDen
  BY <1>1
<1>3. n \div r \in Nat
  OBVIOUS
<1>4. AccrueInterest(p, d) \in {0, n \div r, n \div r + 1}
  BY <1>2 DEF AccrueInterest
<1>5. p = 0 => AccrueInterest(p, d) = 0
  BY DEF AccrueInterest
<1> QED
  BY <1>3, <1>4, <1>5

(* Accruing touches the interest alone, and twice to a day is once.         *)
LEMMA AccruesTyped ==
    ASSUME NEW w \in Positions, NEW d \in Nat
    PROVE  /\ AccruesTo(w, d) \in Positions
           /\ AccruesTo(w, d).cursor >= d
           /\ AccruesTo(w, d).b.principal = w.b.principal
           /\ AccruesTo(w, d).b.fees = w.b.fees
           /\ AccruesTo(w, d).b.addOn = w.b.addOn
           /\ AccruesTo(w, d).b.interest >= w.b.interest
           /\ w.b = NoMoney => AccruesTo(w, d).b = NoMoney
<1>1. PICK c \in Nat, bb \in Balances : w = [cursor |-> c, b |-> bb]
  BY DEF Positions
<1>2. PICK p \in Nat, i \in Nat, f \in Nat, a \in Nat :
        bb = [principal |-> p, interest |-> i, fees |-> f, addOn |-> a]
  BY DEF Balances
<1>3. CASE d > c
  <2>1. d - c \in Nat
    BY <1>3
  <2>2. PICK n \in Nat : n = AccrueInterest(p, d - c) /\ (p = 0 => n = 0)
    BY <2>1, InterestTyped
  <2>3. AccruesTo(w, d) = [cursor |-> d, b |-> [principal |-> p, interest |-> i + n,
                                                 fees |-> f, addOn |-> a]]
    BY <1>1, <1>2, <1>3, <2>2 DEF AccruesTo
  <2> QED
    BY <1>1, <1>2, <2>2, <2>3 DEF Positions, Balances, NoMoney
<1>4. CASE ~(d > c)
  <2>1. AccruesTo(w, d) = w
    BY <1>1, <1>4 DEF AccruesTo
  <2> QED
    BY <1>1, <1>2, <1>4, <2>1 DEF Positions, Balances
<1> QED
  BY <1>3, <1>4

(* An event leaves balances.                                                *)
LEMMA ApplyTyped ==
    ASSUME NEW b \in Balances, NEW paid \in Balances, NEW charged \in Balances
    PROVE  ApplyEvent(b, paid, charged) \in Balances
  BY DEF ApplyEvent, Balances, Positive

(* A replay stays among balances.                                           *)
LEMMA ReplaysTyped ==
    ASSUME NEW w \in Positions, NEW e \in Events, NEW asOf \in Nat
    PROVE  Replays(w, e, asOf) \in Positions
<1>1. e.eff \in Nat /\ e.paid \in Balances /\ e.charged \in Balances
  BY DEF Events
<1>2. AccruesTo(w, e.eff) \in Positions
  BY <1>1, AccruesTyped
<1>3. PICK v \in Positions : v = AccruesTo(w, e.eff)
  BY <1>2
<1>4. ApplyEvent(v.b, e.paid, e.charged) \in Balances
  BY <1>1, ApplyTyped DEF Positions
<1>5. [v EXCEPT !.b = ApplyEvent(v.b, e.paid, e.charged)] \in Positions
  BY <1>4 DEF Positions
<1> QED
  BY <1>3, <1>5 DEF Replays

(* The walk exists, so the replay is what its recursion says.               *)
Follows(f, advance, start, events, asOf) ==
    /\ f[0] = Opening(advance, start)
    /\ \A k \in 1 .. Len(events) : f[k] = Replays(f[k - 1], events[k], asOf)
    /\ \A k \in 0 .. Len(events) : f[k] \in Positions

(* The law of the replay: it starts from the advance, and each row is       *)
(* applied after the interest up to its date has accrued.                   *)
LEMMA WalkLaw ==
    ASSUME NEW advance \in Nat, NEW start \in Nat, NEW events \in Seq(Events), NEW asOf \in Nat
    PROVE  Follows(WalkOf(advance, start, events, asOf), advance, start, events, asOf)
<1> PICK f : f = WalkOf(advance, start, events, asOf)
  OBVIOUS
<1> SUFFICES Follows(f, advance, start, events, asOf)
  OBVIOUS
<1> DEFINE n == Len(events)
           W == Positions
           base == Opening(advance, start)
           g == [p \in W \X (1 .. n) |-> Replays(p[1], events[p[2]], asOf)]
<1>1. n \in Nat /\ \A k \in 1 .. n : events[k] \in Events
  OBVIOUS
<1>2. base \in W
  BY DEF Opening, Positions, NoMoney, Balances
<1>3. \A w \in W, k \in 1 .. n : g[<<w, k>>] = Replays(w, events[k], asOf)
  OBVIOUS
<1>4. \A w \in W, k \in 1 .. n : Replays(w, events[k], asOf) \in W
  BY <1>1, ReplaysTyped
<1>5. \A w \in W, k \in 1 .. n : g[<<w, k>>] \in W
  BY <1>3, <1>4
<1>6. \E h \in [0 .. n -> W] : IsWalk(h, advance, start, events, asOf)
  <2> HIDE DEF W, base, n, g
  <2>1. PICK h \in [0 .. n -> W] : Recurs(h, base, g, n)
    BY <1>1, <1>2, <1>5, RecursionExists
  <2>2. \A k \in 0 .. n : k # 0 => k \in 1 .. n /\ k - 1 \in 0 .. n
    BY <1>1
  <2>3. \A k \in 0 .. n : k # 0 => g[<<h[k - 1], k>>] = Replays(h[k - 1], events[k], asOf)
    BY <1>3, <2>2
  <2>4. h = [k \in 0 .. n |-> IF k = 0 THEN base ELSE Replays(h[k - 1], events[k], asOf)]
    BY <2>1, <2>3 DEF Recurs
  <2> QED
    BY <2>4 DEF IsWalk, n, base
<1>7. IsWalk(f, advance, start, events, asOf)
  BY <1>6 DEF WalkOf
<1>8. f[0] = base /\ \A k \in 1 .. n : f[k] = Replays(f[k - 1], events[k], asOf)
  <2>1. 0 \in 0 .. n /\ \A k \in 1 .. n : k \in 0 .. n /\ k # 0
    BY <1>1
  <2> QED
    BY <1>7, <2>1 DEF IsWalk
<1>9. \A k \in 0 .. n : f[k] \in W
  <2>1. \A k \in 1 .. n : Agrees(f, f, W, k - 1) => Agrees(f, f, W, k)
    BY <1>4, <1>8 DEF Agrees
  <2>2. Agrees(f, f, W, 0)
    BY <1>2, <1>8 DEF Agrees
  <2>3. \A k \in 0 .. n : Agrees(f, f, W, k)
    <3> HIDE DEF W, n
    <3> QED
      BY <1>1, <2>1, <2>2, RecursionsAgree
  <2> QED
    BY <2>3 DEF Agrees
<1> QED
  BY <1>8, <1>9 DEF Follows

(* No event takes effect after day d.                                       *)
Within(events, d) == \A k \in 1 .. Len(events) : events[k].eff <= d

(* Two replays that begin with the same events, none of them too late for   *)
(* either, agree as far as they share them.                                 *)
LEMMA WalksAgree ==
    ASSUME NEW advance \in Nat, NEW start \in Nat,
           NEW events \in Seq(Events), NEW more \in Seq(Events),
           Len(events) <= Len(more),
           \A k \in 1 .. Len(events) : more[k] = events[k],
           NEW c \in Nat, NEW d \in Nat, Within(events, c), Within(events, d)
    PROVE  WalkOf(advance, start, more, d)[Len(events)]
             = WalkOf(advance, start, events, c)[Len(events)]
<1>1. PICK f : f = WalkOf(advance, start, events, c)
  OBVIOUS
<1>2. PICK h : h = WalkOf(advance, start, more, d)
  OBVIOUS
<1>3. Follows(f, advance, start, events, c) /\ Follows(h, advance, start, more, d)
  BY <1>1, <1>2, WalkLaw
<1>4. /\ f[0] = Opening(advance, start) /\ h[0] = Opening(advance, start)
      /\ \A k \in 1 .. Len(events) : f[k] = Replays(f[k - 1], events[k], c)
      /\ \A k \in 0 .. Len(events) : f[k] \in Positions
      /\ \A k \in 1 .. Len(more) : h[k] = Replays(h[k - 1], more[k], d)
  BY <1>3 DEF Follows
<1>5. PICK n \in Nat : n = Len(events) /\ \A k \in 1 .. n : k \in 1 .. Len(more) /\ k \in 0 .. n
  OBVIOUS
<1>6. ASSUME NEW k \in 1 .. n, h[k - 1] = f[k - 1]
      PROVE  f[k] \in Positions /\ h[k] = f[k]
  <2>1. events[k].eff \in Nat /\ ~(events[k].eff > c) /\ ~(events[k].eff > d)
    <3>1. events[k] \in Events /\ events[k].eff <= c /\ events[k].eff <= d
      BY <1>5 DEF Within
    <3>2. events[k].eff \in Nat
      BY <3>1 DEF Events
    <3> QED
      BY <3>1, <3>2
  <2>2. Replays(f[k - 1], events[k], c) = Replays(f[k - 1], events[k], d)
    BY <2>1 DEF Replays
  <2> QED
    BY <1>4, <1>5, <1>6, <2>2
<1>7. 0 \in 0 .. n /\ n \in 0 .. n /\ f[0] \in Positions /\ h[0] = f[0]
  BY <1>4, <1>5
<1>8. \A k \in 0 .. n : Agrees(f, h, Positions, k)
  <2>1. Agrees(f, h, Positions, 0)
    BY <1>7 DEF Agrees
  <2>2. \A k \in 1 .. n : Agrees(f, h, Positions, k - 1) => Agrees(f, h, Positions, k)
    BY <1>6 DEF Agrees
  <2> QED
    BY <2>1, <2>2, RecursionsAgree
<1> QED
  BY <1>1, <1>2, <1>5, <1>7, <1>8 DEF Agrees

---------------------------------------------------------------------------
(* Replay order.  A row's place is one more than the rows before it.        *)

LedgerRows == [type : {"payment", "fee"}, mode : Modes \cup {"none"}, eff : Nat,
               amount : Nat, split : Balances]

Before(rows, j, k) == rows[j].eff < rows[k].eff \/ (rows[j].eff = rows[k].eff /\ j < k)
Earlier(rows, k)   == {j \in DOMAIN rows : Before(rows, j, k)}
Place(rows, k)     == 1 + Cardinality(Earlier(rows, k))
RowAt(rows, p)     == CHOOSE k \in DOMAIN rows : Place(rows, k) = p

(* Sorting puts each row at its place.                                      *)
LEMMA SortedByPlace ==
    ASSUME NEW rows
    PROVE  SortedTransactions(rows) = [p \in DOMAIN rows |-> rows[RowAt(rows, p)]]
  BY DEF SortedTransactions, RowAt, Place, Earlier, Before

(* What a sequence of rows offers: its length and each of its rows.         *)
LEMMA LedgerShape ==
    ASSUME NEW rows \in Seq(LedgerRows)
    PROVE  /\ Len(rows) \in Nat /\ DOMAIN rows = 1 .. Len(rows)
           /\ \A k \in 1 .. Len(rows) : rows[k] \in LedgerRows /\ rows[k].eff \in Nat
<1>1. Len(rows) \in Nat /\ \A k \in 1 .. Len(rows) : rows[k] \in LedgerRows
  OBVIOUS
<1>2. DOMAIN rows = 1 .. Len(rows)
  OBVIOUS
<1>3. \A r \in LedgerRows : r.eff \in Nat
  BY DEF LedgerRows
<1> QED
  BY <1>1, <1>2, <1>3

(* A row of a list of n has one of n places.                                *)
LEMMA PlaceTyped ==
    ASSUME NEW rows \in Seq(LedgerRows), NEW k \in DOMAIN rows
    PROVE  IsFiniteSet(Earlier(rows, k)) /\ Place(rows, k) \in 1 .. Len(rows)
<1>1. PICK n \in Nat : n = Len(rows) /\ DOMAIN rows = 1 .. n /\ k \in 1 .. n
                        /\ rows[k].eff \in Nat
  BY LedgerShape
<1>2. ~Before(rows, k, k)
  BY <1>1 DEF Before
<1> DEFINE I == 1 .. n
           J == I \ {k}
<1>3. IsFiniteSet(I) /\ Cardinality(I) = n
  BY FS_Interval
<1>4. Earlier(rows, k) \in SUBSET J
  BY <1>1, <1>2 DEF Earlier
<1>5. k \in I
  BY <1>1
<1> HIDE DEF I
<1>6. IsFiniteSet(J) /\ Cardinality(J) = n - 1
  BY <1>3, <1>5, FS_RemoveElement
<1>7. PICK E : E = Earlier(rows, k)
  OBVIOUS
<1>8. IsFiniteSet(E) /\ Cardinality(E) <= n - 1 /\ Cardinality(E) \in Nat
  BY <1>4, <1>6, <1>7, FS_Subset, FS_CardinalityType
<1>9. 1 + Cardinality(E) \in 1 .. n
  <2>1. PICK c \in Nat : c = Cardinality(E) /\ c <= n - 1
    BY <1>8
  <2> QED
    BY <2>1
<1> QED
  BY <1>1, <1>7, <1>8, <1>9 DEF Place

(* A row before another has a smaller place.                                *)
LEMMA PlaceFollowsOrder ==
    ASSUME NEW rows \in Seq(LedgerRows), NEW j \in DOMAIN rows, NEW k \in DOMAIN rows,
           Before(rows, j, k)
    PROVE  Place(rows, j) < Place(rows, k)
<1>1. PICK n \in Nat : n = Len(rows) /\ DOMAIN rows = 1 .. n
                        /\ \A i \in 1 .. n : rows[i].eff \in Nat
  BY LedgerShape
<1>2. ~Before(rows, j, j)
  BY <1>1 DEF Before
<1>3. \A i \in 1 .. n : Before(rows, i, j) => Before(rows, i, k)
  <2> TAKE i \in 1 .. n
  <2>1. rows[i].eff \in Nat /\ rows[j].eff \in Nat /\ rows[k].eff \in Nat
        /\ i \in Nat /\ j \in Nat /\ k \in Nat
    BY <1>1
  <2> QED
    BY <2>1 DEF Before
<1>4. PICK E, F : E = Earlier(rows, j) /\ F = Earlier(rows, k)
  OBVIOUS
<1>5. E \in SUBSET (F \ {j}) /\ j \in F
  BY <1>1, <1>2, <1>3, <1>4 DEF Earlier
<1>6. IsFiniteSet(E) /\ IsFiniteSet(F)
  BY <1>4, PlaceTyped
<1>7. IsFiniteSet(F \ {j}) /\ Cardinality(F \ {j}) = Cardinality(F) - 1
      /\ Cardinality(E) <= Cardinality(F \ {j})
  BY <1>5, <1>6, FS_RemoveElement, FS_Subset
<1>8. Cardinality(E) \in Nat /\ Cardinality(F) \in Nat
  BY <1>6, FS_CardinalityType
<1>9. Cardinality(E) < Cardinality(F)
  BY <1>7, <1>8
<1> QED
  BY <1>4, <1>8, <1>9 DEF Place

(* Any two rows are comparable, so every place is taken by one row.         *)
LEMMA PlacesAreTaken ==
    ASSUME NEW rows \in Seq(LedgerRows)
    PROVE  \A p \in DOMAIN rows : RowAt(rows, p) \in DOMAIN rows
                                   /\ Place(rows, RowAt(rows, p)) = p
<1>1. PICK n \in Nat : n = Len(rows) /\ DOMAIN rows = 1 .. n
                        /\ \A i \in 1 .. n : rows[i].eff \in Nat
  BY LedgerShape
<1> DEFINE I == 1 .. n
           f == [k \in I |-> Place(rows, k)]
<1>2. f \in [I -> I]
  BY <1>1, PlaceTyped
<1>3. ASSUME NEW j \in I, NEW k \in I, j # k
      PROVE  Place(rows, j) # Place(rows, k)
  <2>1. rows[j].eff \in Nat /\ rows[k].eff \in Nat /\ j \in Nat /\ k \in Nat
    BY <1>1
  <2>2. Before(rows, j, k) \/ Before(rows, k, j)
    BY <1>3, <2>1 DEF Before
  <2>3. Place(rows, j) \in Nat /\ Place(rows, k) \in Nat
    BY <1>1, PlaceTyped
  <2>4. Place(rows, j) < Place(rows, k) \/ Place(rows, k) < Place(rows, j)
    BY <1>1, <2>2, PlaceFollowsOrder
  <2> QED
    BY <2>3, <2>4
<1>4. IsFiniteSet(I)
  BY FS_Interval
<1>5. \A k \in I : f[k] = Place(rows, k)
  OBVIOUS
<1> HIDE DEF I, f
<1>6. f \in Injection(I, I)
  BY <1>2, <1>3, <1>5 DEF Injection, IsInjective
<1>7. f \in Surjection(I, I)
  BY <1>4, <1>6, FS_Injection
<1>8. \A p \in I : \E k \in I : Place(rows, k) = p
  BY <1>5, <1>7 DEF Surjection
<1>9. DOMAIN rows = I
  BY <1>1 DEF I
<1> QED
  BY <1>8, <1>9 DEF RowAt

(* The rows in replay order are rows of the ledger.                         *)
LEMMA SortedTyped ==
    ASSUME NEW rows \in Seq(LedgerRows)
    PROVE  /\ SortedTransactions(rows) \in Seq(LedgerRows)
           /\ Len(SortedTransactions(rows)) = Len(rows)
           /\ \A p \in 1 .. Len(rows) :
                \E k \in 1 .. Len(rows) : SortedTransactions(rows)[p] = rows[k]
<1>1. PICK n \in Nat : n = Len(rows) /\ DOMAIN rows = 1 .. n
                        /\ \A i \in 1 .. n : rows[i] \in LedgerRows
  BY LedgerShape
<1>2. PICK g : g = [p \in 1 .. n |-> RowAt(rows, p)]
  OBVIOUS
<1>3. \A p \in 1 .. n : g[p] \in 1 .. n /\ g[p] = RowAt(rows, p)
  BY <1>1, <1>2, PlacesAreTaken
<1>4. SortedTransactions(rows) = [p \in 1 .. n |-> rows[g[p]]]
  BY <1>1, <1>3, SortedByPlace
<1> QED
  BY <1>1, <1>3, <1>4

(* A row no other is later than takes the last place.                       *)
LEMMA SortedAppend ==
    ASSUME NEW rows \in Seq(LedgerRows), NEW r \in LedgerRows,
           \A k \in 1 .. Len(rows) : rows[k].eff <= r.eff
    PROVE  /\ \A p \in 1 .. Len(rows) :
                SortedTransactions(Append(rows, r))[p] = SortedTransactions(rows)[p]
           /\ SortedTransactions(Append(rows, r))[Len(rows) + 1] = r
<1>1. PICK n \in Nat : n = Len(rows) /\ DOMAIN rows = 1 .. n
                        /\ \A i \in 1 .. n : rows[i].eff \in Nat
  BY LedgerShape
<1>2. PICK more : more = Append(rows, r)
  OBVIOUS
<1>3. /\ more \in Seq(LedgerRows) /\ Len(more) = n + 1 /\ DOMAIN more = 1 .. n + 1
      /\ \A k \in 1 .. n : more[k] = rows[k]
      /\ more[n + 1] = r
  BY <1>1, <1>2
<1>4. r.eff \in Nat
  BY DEF LedgerRows
<1>5. ASSUME NEW k \in 1 .. n PROVE Earlier(more, k) = Earlier(rows, k)
  <2>1. ~Before(more, n + 1, k)
    <3>1. k \in Nat /\ k < n + 1 /\ rows[k].eff <= r.eff /\ rows[k].eff \in Nat
          /\ more[k] = rows[k] /\ more[n + 1] = r
      BY <1>1, <1>3
    <3> QED
      BY <1>4, <3>1 DEF Before
  <2>2. \A j \in 1 .. n : Before(more, j, k) <=> Before(rows, j, k)
    BY <1>3 DEF Before
  <2>3. \A j : j \in 1 .. n + 1 <=> j \in 1 .. n \/ j = n + 1
    OBVIOUS
  <2> QED
    BY <1>1, <1>3, <2>1, <2>2, <2>3 DEF Earlier
<1>6. \A k \in 1 .. n : Place(more, k) = Place(rows, k) /\ Place(rows, k) \in 1 .. n
  BY <1>1, <1>5, PlaceTyped DEF Place
<1>7. \A p \in 1 .. n + 1 : RowAt(more, p) \in 1 .. n + 1 /\ Place(more, RowAt(more, p)) = p
  BY <1>3, PlacesAreTaken
<1>8. RowAt(more, n + 1) = n + 1
  <2>1. RowAt(more, n + 1) \in 1 .. n + 1 /\ Place(more, RowAt(more, n + 1)) = n + 1
    BY <1>7
  <2>2. RowAt(more, n + 1) \notin 1 .. n
    BY <1>6, <2>1
  <2> QED
    BY <2>1, <2>2
<1>9. Place(more, n + 1) = n + 1
  <2>1. n + 1 \in 1 .. n + 1
    OBVIOUS
  <2> QED
    BY <1>7, <1>8, <2>1
<1>10. ASSUME NEW p \in 1 .. n PROVE RowAt(more, p) = RowAt(rows, p) /\ RowAt(rows, p) \in 1 .. n
  <2>1. \A k : (k \in DOMAIN more /\ Place(more, k) = p) <=> (k \in DOMAIN rows /\ Place(rows, k) = p)
    <3>1. \A k : k \in 1 .. n + 1 <=> k \in 1 .. n \/ k = n + 1
      OBVIOUS
    <3>2. Place(more, n + 1) # p
      BY <1>9
    <3> QED
      BY <1>1, <1>3, <1>6, <3>1, <3>2
  <2>2. RowAt(more, p) = RowAt(rows, p)
    BY <2>1 DEF RowAt
  <2> QED
    BY <1>1, <2>2, PlacesAreTaken
<1>11. /\ \A p \in 1 .. n : SortedTransactions(more)[p] = more[RowAt(more, p)]
                             /\ SortedTransactions(rows)[p] = rows[RowAt(rows, p)]
       /\ SortedTransactions(more)[n + 1] = more[RowAt(more, n + 1)]
  BY <1>1, <1>3, SortedByPlace
<1> QED
  BY <1>1, <1>2, <1>3, <1>8, <1>10, <1>11

---------------------------------------------------------------------------
(* The balances of the loan. *)

LedgerEvents(rows) == [k \in DOMAIN rows |-> EventOf(SortedTransactions(rows)[k])]
(* No row takes effect after day d.                                         *)
UpTo(rows, d) == \A k \in 1 .. Len(rows) : rows[k].eff <= d

(* A ledger row is a well-formed event of the engine.                       *)
LEMMA EventTyped ==
    ASSUME NEW r \in LedgerRows
    PROVE  EventOf(r) \in Events /\ EventOf(r).eff = r.eff
<1>1. r.split \in Balances /\ r.eff \in Nat
  BY DEF LedgerRows
<1>2. NoMoney \in Balances
  BY DEF NoMoney, Balances
<1> QED
  BY <1>1, <1>2 DEF EventOf, Events

(* So is each row in replay order.                                          *)
LEMMA EventsTyped ==
    ASSUME NEW rows \in Seq(LedgerRows)
    PROVE  /\ LedgerEvents(rows) \in Seq(Events)
           /\ Len(LedgerEvents(rows)) = Len(rows)
           /\ \A k \in 1 .. Len(rows) :
                LedgerEvents(rows)[k] = EventOf(SortedTransactions(rows)[k])
<1>1. PICK n \in Nat : n = Len(rows) /\ DOMAIN rows = 1 .. n
  BY LedgerShape
<1>2. PICK s \in Seq(LedgerRows) : s = SortedTransactions(rows) /\ Len(s) = n
  BY <1>1, SortedTyped
<1>3. \A k \in 1 .. n : s[k] \in LedgerRows
  BY <1>2
<1>4. \A k \in 1 .. n : EventOf(s[k]) \in Events
  BY <1>3, EventTyped
<1>5. LedgerEvents(rows) = [k \in 1 .. n |-> EventOf(s[k])]
  BY <1>1, <1>2 DEF LedgerEvents
<1> QED
  BY <1>1, <1>2, <1>4, <1>5

(* No event of the replay is dated after the last row's date.               *)
LEMMA EventsUpTo ==
    ASSUME NEW rows \in Seq(LedgerRows), NEW d \in Nat, UpTo(rows, d)
    PROVE  Within(LedgerEvents(rows), d)
<1> SUFFICES \A k \in 1 .. Len(rows) : LedgerEvents(rows)[k].eff <= d
  BY EventsTyped DEF Within
<1> TAKE k \in 1 .. Len(rows)
<1>1. PICK j \in 1 .. Len(rows) : SortedTransactions(rows)[k] = rows[j]
  BY SortedTyped
<1>2. rows[j] \in LedgerRows /\ rows[j].eff <= d
  BY LedgerShape DEF UpTo
<1>3. LedgerEvents(rows)[k] = EventOf(rows[j])
  BY <1>1, EventsTyped
<1> QED
  BY <1>2, <1>3, EventTyped

(* The last position of the replay.                                         *)
LastPosition(rows, asOf) == WalkOf(Advance, 0, LedgerEvents(rows), asOf)[Len(rows)]

(* The loan's balances on a date are balances: no bucket is negative.       *)
LEMMA BalancesOfLoan ==
    ASSUME NEW rows \in Seq(LedgerRows), NEW asOf \in Nat
    PROVE  /\ LastPosition(rows, asOf) \in Positions
           /\ LoanBalances(rows, asOf) = AccruesTo(LastPosition(rows, asOf), asOf).b
           /\ LoanBalances(rows, asOf) \in Balances
<1>1. PICK ev \in Seq(Events) : ev = LedgerEvents(rows) /\ Len(ev) = Len(rows)
  BY EventsTyped
<1>2. Advance \in Nat /\ 0 \in Nat
  BY LoanAssumption
<1>3. Follows(WalkOf(Advance, 0, ev, asOf), Advance, 0, ev, asOf)
  BY <1>2, WalkLaw
<1>4. Len(ev) \in 0 .. Len(ev)
  OBVIOUS
<1>5. LastPosition(rows, asOf) \in Positions
  BY <1>1, <1>3, <1>4 DEF Follows, LastPosition
<1>6. LoanBalances(rows, asOf) = AccruesTo(LastPosition(rows, asOf), asOf).b
  <2>1. LoanBalances(rows, asOf) = ComputeBalances(Advance, 0, ev, asOf)
    BY <1>1 DEF LoanBalances, LedgerEvents
  <2>2. ComputeBalances(Advance, 0, ev, asOf)
          = AccruesTo(WalkOf(Advance, 0, ev, asOf)[Len(ev)], asOf).b
    BY BalancesByWalk
  <2> QED
    BY <1>1, <2>1, <2>2 DEF LastPosition
<1>7. AccruesTo(LastPosition(rows, asOf), asOf) \in Positions
  BY <1>5, AccruesTyped
<1>8. LoanBalances(rows, asOf) \in Balances
  BY <1>6, <1>7 DEF Positions
<1> QED
  BY <1>5, <1>6, <1>8

(* With no row after either day, both days replay to the same position.     *)
LEMMA SamePosition ==
    ASSUME NEW rows \in Seq(LedgerRows), NEW c \in Nat, NEW d \in Nat,
           UpTo(rows, c), UpTo(rows, d)
    PROVE  LastPosition(rows, c) = LastPosition(rows, d)
<1>1. PICK ev \in Seq(Events) : ev = LedgerEvents(rows) /\ Len(ev) = Len(rows)
  BY EventsTyped
<1>2. Advance \in Nat /\ 0 \in Nat
  BY LoanAssumption
<1>3. Within(ev, c) /\ Within(ev, d)
  BY <1>1, EventsUpTo
<1>4. Len(ev) <= Len(ev)
  OBVIOUS
<1>5. WalkOf(Advance, 0, ev, d)[Len(ev)] = WalkOf(Advance, 0, ev, c)[Len(ev)]
  BY <1>2, <1>3, <1>4, WalksAgree
<1> QED
  BY <1>1, <1>5 DEF LastPosition

(* So time alone changes no principal, and where nothing is owed nothing    *)
(* comes to be owed.                                                        *)
LEMMA TimeAlone ==
    ASSUME NEW rows \in Seq(LedgerRows), NEW c \in Nat, NEW d \in Nat,
           UpTo(rows, c), UpTo(rows, d)
    PROVE  /\ LoanBalances(rows, c).principal = LoanBalances(rows, d).principal
           /\ LoanBalances(rows, c) = NoMoney => LoanBalances(rows, d) = NoMoney
<1>1. PICK w \in Positions : w = LastPosition(rows, c) /\ w = LastPosition(rows, d)
  BY SamePosition, BalancesOfLoan
<1>2. LoanBalances(rows, c) = AccruesTo(w, c).b /\ LoanBalances(rows, d) = AccruesTo(w, d).b
  BY <1>1, BalancesOfLoan
<1>3. AccruesTo(w, c).b.principal = w.b.principal /\ AccruesTo(w, d).b.principal = w.b.principal
  BY AccruesTyped
<1>4. ASSUME AccruesTo(w, c).b = NoMoney PROVE AccruesTo(w, d).b = NoMoney
  <2>1. PICK p \in Nat, i \in Nat, f \in Nat, a \in Nat :
          w.b = [principal |-> p, interest |-> i, fees |-> f, addOn |-> a]
    BY DEF Positions, Balances
  <2>2. p = 0 /\ f = 0 /\ a = 0 /\ i <= 0
    BY <1>4, <2>1, AccruesTyped DEF NoMoney
  <2>3. w.b = NoMoney
    BY <2>1, <2>2 DEF NoMoney
  <2> QED
    BY <2>3, AccruesTyped
<1> QED
  BY <1>2, <1>3, <1>4

(* A row dated no earlier than the others is applied to the balances of its *)
(* day.                                                                     *)
LEMMA LatestRow ==
    ASSUME NEW rows \in Seq(LedgerRows), NEW r \in LedgerRows, UpTo(rows, r.eff)
    PROVE  LoanBalances(Append(rows, r), r.eff)
             = ApplyEvent(LoanBalances(rows, r.eff), EventOf(r).paid, EventOf(r).charged)
<1>1. PICK d \in Nat : d = r.eff
  BY DEF LedgerRows
<1>2. PICK more \in Seq(LedgerRows) : more = Append(rows, r) /\ Len(more) = Len(rows) + 1
  <2>1. Append(rows, r) \in Seq(LedgerRows) /\ Len(Append(rows, r)) = Len(rows) + 1
    OBVIOUS
  <2> QED
    BY <2>1
<1>3. PICK ev \in Seq(Events) : ev = LedgerEvents(rows) /\ Len(ev) = Len(rows)
  BY EventsTyped
<1>4. PICK ev2 \in Seq(Events) : ev2 = LedgerEvents(more) /\ Len(ev2) = Len(rows) + 1
  BY <1>2, EventsTyped
<1>5. PICK n \in Nat : n = Len(rows)
  OBVIOUS
<1>6. PICK e \in Events : e = EventOf(r) /\ e.eff = d
  BY <1>1, EventTyped
<1>7. (\A k \in 1 .. n : ev2[k] = ev[k]) /\ ev2[n + 1] = e
  <2>1. \A k \in 1 .. n : SortedTransactions(more)[k] = SortedTransactions(rows)[k]
    BY <1>2, <1>5, SortedAppend DEF UpTo
  <2>2. SortedTransactions(more)[n + 1] = r
    BY <1>2, <1>5, SortedAppend DEF UpTo
  <2>3. \A k \in 1 .. n : k \in 1 .. n + 1
    OBVIOUS
  <2>4. n + 1 \in 1 .. n + 1
    OBVIOUS
  <2>5. \A k \in 1 .. n + 1 : ev2[k] = EventOf(SortedTransactions(more)[k])
    BY <1>2, <1>4, <1>5, EventsTyped
  <2>6. \A k \in 1 .. n : ev[k] = EventOf(SortedTransactions(rows)[k])
    BY <1>3, <1>5, EventsTyped
  <2> QED
    BY <1>6, <2>1, <2>2, <2>3, <2>4, <2>5, <2>6
<1>8. Advance \in Nat /\ 0 \in Nat
  BY LoanAssumption
<1>9. PICK f, h : f = WalkOf(Advance, 0, ev, d) /\ h = WalkOf(Advance, 0, ev2, d)
  OBVIOUS
<1>10. Follows(h, Advance, 0, ev2, d)
  BY <1>8, <1>9, WalkLaw
<1>11. h[n] = f[n]
  <2>1. Within(ev, d)
    BY <1>1, <1>3, EventsUpTo
  <2>2. Len(ev) <= Len(ev2)
    BY <1>3, <1>4
  <2>3. \A k \in 1 .. Len(ev) : ev2[k] = ev[k]
    BY <1>3, <1>5, <1>7
  <2>4. WalkOf(Advance, 0, ev2, d)[Len(ev)] = WalkOf(Advance, 0, ev, d)[Len(ev)]
    BY <1>8, <2>1, <2>2, <2>3, WalksAgree
  <2> QED
    BY <1>3, <1>5, <1>9, <2>4
<1>12. PICK w \in Positions : w = f[n] /\ w = LastPosition(rows, d)
  <2>1. f[n] = LastPosition(rows, d)
    BY <1>3, <1>5, <1>9 DEF LastPosition
  <2> QED
    BY <2>1, BalancesOfLoan
<1>13. h[n + 1] = Replays(w, e, d)
  <2>1. n + 1 \in 1 .. Len(ev2) /\ (n + 1) - 1 = n
    BY <1>4, <1>5
  <2> QED
    BY <1>7, <1>10, <1>11, <1>12, <2>1 DEF Follows
<1>14. PICK v \in Positions : v = AccruesTo(w, d) /\ v.cursor >= d
  BY AccruesTyped
<1>15. h[n + 1] = [v EXCEPT !.b = ApplyEvent(v.b, e.paid, e.charged)]
  BY <1>6, <1>13, <1>14 DEF Replays
<1>16. AccruesTo(h[n + 1], d) = h[n + 1] /\ h[n + 1].b = ApplyEvent(v.b, e.paid, e.charged)
  <2>1. h[n + 1].cursor = v.cursor /\ h[n + 1].b = ApplyEvent(v.b, e.paid, e.charged)
    BY <1>15 DEF Positions
  <2>2. v.cursor \in Nat /\ ~(d > v.cursor)
    BY <1>14 DEF Positions
  <2> QED
    BY <2>1, <2>2 DEF AccruesTo
<1>17. LoanBalances(more, d) = h[n + 1].b
  <2>1. LastPosition(more, d) = h[n + 1]
    BY <1>2, <1>4, <1>5, <1>9 DEF LastPosition
  <2> QED
    BY <1>16, <2>1, BalancesOfLoan
<1>18. LoanBalances(rows, d) = v.b
  BY <1>12, <1>14, BalancesOfLoan
<1> QED
  BY <1>1, <1>2, <1>6, <1>16, <1>17, <1>18

---------------------------------------------------------------------------
(* Types. *)

Installments == [paid : Nat, status : ItemStatuses]
Postings     == [mode : Modes, amount : Nat, eff : Nat]
AgingRuns    == [phase : {"idle", "items", "loan"}, items : SUBSET Items, mark : BOOLEAN]

PlanTyped ==
    /\ schedule \in [Items -> Installments]
    /\ \A i \in Items : schedule[i].paid <= Total[i]
BooksTyped ==
    /\ day \in Nat /\ day <= MaxDay
    /\ ledger \in Seq(LedgerRows) /\ UpTo(ledger, day)
    /\ principalBalance \in Nat /\ principalBalance <= Advance
RestTyped ==
    /\ status \in LoanStatuses
    /\ posting = NoPosting \/ (posting \in Postings /\ posting.eff <= day)
    /\ aging \in AgingRuns
    /\ parked \in SUBSET Items
Typed == PlanTyped /\ BooksTyped /\ RestTyped

(* The typing invariant gives the range of every variable.                  *)
LEMMA TypedGivesTypeOK == Typed => TypeOK
<1> SUFFICES ASSUME Typed PROVE TypeOK
  OBVIOUS
<1>1. MaxDay \in Nat /\ Advance \in Nat /\ \A i \in Items : Total[i] \in Nat
  BY LoanAssumption
<1>2. day \in 0 .. MaxDay /\ principalBalance \in 0 .. Advance
  BY <1>1 DEF Typed, BooksTyped
<1>3. ASSUME NEW k \in DOMAIN ledger
      PROVE  /\ ledger[k].type \in {"payment", "fee"}
             /\ ledger[k].split \in Balances
             /\ ledger[k].eff \in 0 .. day
  <2>1. k \in 1 .. Len(ledger) /\ ledger[k] \in LedgerRows
    BY <1>3, LedgerShape DEF Typed, BooksTyped
  <2>2. ledger[k].eff <= day /\ day \in Nat
    BY <2>1 DEF Typed, BooksTyped, UpTo
  <2>3. ledger[k].type \in {"payment", "fee"} /\ ledger[k].split \in Balances /\ ledger[k].eff \in Nat
    BY <2>1 DEF LedgerRows
  <2> QED
    BY <2>2, <2>3
<1>4. ASSUME NEW i \in Items
      PROVE  schedule[i].paid \in 0 .. Total[i] /\ schedule[i].status \in ItemStatuses
  <2>1. schedule[i] \in Installments /\ schedule[i].paid <= Total[i]
    BY DEF Typed, PlanTyped
  <2> QED
    BY <1>1, <2>1 DEF Installments
<1>5. posting.mode \in Modes \cup {"none"}
  BY DEF Typed, RestTyped, NoPosting, Postings
<1>6. aging.phase \in {"idle", "items", "loan"} /\ aging.items \subseteq Items
  BY DEF Typed, RestTyped, AgingRuns
<1> QED
  BY <1>2, <1>3, <1>4, <1>5, <1>6 DEF TypeOK, Typed, RestTyped

(* A new loan is well typed.                                                *)
LEMMA InitTyped == Init => Typed
<1> SUFFICES ASSUME Init PROVE Typed
  OBVIOUS
<1>1. Advance \in Nat /\ MaxDay \in Nat /\ \A i \in Items : Total[i] \in Nat
  BY LoanAssumption
<1>2. PlanTyped
  BY <1>1 DEF Init, PlanTyped, Installments, ItemStatuses
<1>3. ledger \in Seq(LedgerRows) /\ Len(ledger) = 0
  BY DEF Init
<1>4. BooksTyped
  BY <1>1, <1>3 DEF Init, BooksTyped, UpTo
<1>5. RestTyped
  BY DEF Init, RestTyped, LoanStatuses, AgingIdle, AgingRuns
<1> QED
  BY <1>2, <1>4, <1>5 DEF Typed

---------------------------------------------------------------------------
(* Filling the plan.  left[i] is what remains of the payment after i.       *)

IsLeft(left, amount) ==
    left = [i \in 0 .. Cardinality(Items) |->
              IF i = 0 THEN amount
              ELSE IF schedule[i].status \in Settled THEN left[i - 1]
              ELSE left[i - 1] - Lesser(left[i - 1], Outstanding(i))]
LeftOf(amount) == CHOOSE left : IsLeft(left, amount)

(* What one installment takes of what is left, and what it then holds.      *)
Takes(left, i) ==
    IF schedule[i].status \in Settled THEN 0 ELSE Lesser(left, Outstanding(i))
Filled(left, i) ==
    IF left[i - 1] = 0 \/ schedule[i].status \in Settled
    THEN schedule[i]
    ELSE [paid |-> schedule[i].paid + left[i - 1] - left[i],
          status |-> IF schedule[i].paid + left[i - 1] - left[i] >= Total[i]
                     THEN "paid" ELSE "partial"]

(* The plan after a payment, read off what is left of the payment before    *)
(* and after each installment.                                              *)
LEMMA FillPlanByLeft ==
    ASSUME NEW amount
    PROVE  FillPlan(amount) = [i \in Items |-> Filled(LeftOf(amount), i)]
  BY DEF FillPlan, LeftOf, IsLeft, Filled

(* The plan's positions and what each can hold.                             *)
LEMMA PlanShape ==
    ASSUME PlanTyped
    PROVE  \A i \in Items : /\ schedule[i] \in Installments
                            /\ schedule[i].paid \in Nat /\ schedule[i].status \in ItemStatuses
                            /\ Total[i] \in Nat /\ Total[i] > 0 /\ schedule[i].paid <= Total[i]
                            /\ Outstanding(i) = Total[i] - schedule[i].paid
<1> TAKE i \in Items
<1>1. Total[i] \in Nat /\ Total[i] > 0
  BY LoanAssumption
<1>2. schedule[i] \in Installments /\ schedule[i].paid <= Total[i]
  BY DEF PlanTyped
<1>3. schedule[i].paid \in Nat /\ schedule[i].status \in ItemStatuses
  BY <1>2 DEF Installments
<1>4. PICK t \in Nat, p \in Nat : t = Total[i] /\ p = schedule[i].paid
  BY <1>1, <1>3
<1>5. Outstanding(i) = t - p
  BY <1>2, <1>4 DEF Outstanding, Positive
<1> QED
  BY <1>1, <1>2, <1>3, <1>4, <1>5

(* The recursion of the filling exists and is what it says.                 *)
Drains(left, amount) ==
    /\ left[0] = amount
    /\ \A i \in Items : /\ left[i - 1] \in Nat /\ left[i] \in Nat
                        /\ left[i] = left[i - 1] - Takes(left[i - 1], i)
                        /\ Takes(left[i - 1], i) \in Nat
                        /\ Takes(left[i - 1], i) <= left[i - 1]

(* What is left of a payment drains installment by installment.             *)
LEMMA LeftLaw ==
    ASSUME PlanTyped, NEW amount \in Nat
    PROVE  Drains(LeftOf(amount), amount)
<1>1. PICK n \in Nat : n = Cardinality(Items) /\ Items = 1 .. n
  BY LoanAssumption, FS_CardinalityType
<1>2. \A w \in Nat, i \in Items : /\ Takes(w, i) \in Nat /\ Takes(w, i) <= w
                                  /\ w - Takes(w, i) \in Nat
  <2> TAKE w \in Nat, i \in Items
  <2>1. PICK o \in Nat : o = Outstanding(i)
    <3>1. Total[i] - schedule[i].paid \in Nat
      BY PlanShape
    <3> QED
      BY <3>1, PlanShape
  <2>2. Takes(w, i) \in {0, Lesser(w, o)}
    BY <2>1 DEF Takes
  <2>3. Lesser(w, o) \in Nat /\ Lesser(w, o) <= w
    BY DEF Lesser
  <2> QED
    BY <2>2, <2>3
<1> DEFINE g == [p \in Nat \X (1 .. n) |-> p[1] - Takes(p[1], p[2])]
<1>3. \A w \in Nat, i \in 1 .. n : g[<<w, i>>] = w - Takes(w, i)
  OBVIOUS
<1>4. \A w \in Nat, i \in 1 .. n : g[<<w, i>>] \in Nat
  BY <1>1, <1>2, <1>3
<1>5. \E left \in [0 .. n -> Nat] : IsLeft(left, amount)
  <2> HIDE DEF g
  <2>1. PICK left \in [0 .. n -> Nat] : Recurs(left, amount, g, n)
    BY <1>4, RecursionExists
  <2>2. \A i \in 0 .. n : i # 0 => i \in 1 .. n /\ i - 1 \in 0 .. n
    OBVIOUS
  <2>3. \A i \in 0 .. n : i # 0 => g[<<left[i - 1], i>>] = left[i - 1] - Takes(left[i - 1], i)
    BY <1>3, <2>2
  <2>4. \A i \in 0 .. n : i # 0 =>
          left[i - 1] - Takes(left[i - 1], i)
            = IF schedule[i].status \in Settled THEN left[i - 1]
              ELSE left[i - 1] - Lesser(left[i - 1], Outstanding(i))
    BY <2>2 DEF Takes
  <2>5. left = [i \in 0 .. n |->
              IF i = 0 THEN amount
              ELSE IF schedule[i].status \in Settled THEN left[i - 1]
              ELSE left[i - 1] - Lesser(left[i - 1], Outstanding(i))]
    BY <2>1, <2>3, <2>4 DEF Recurs
  <2> QED
    BY <1>1, <2>5 DEF IsLeft
<1>6. PICK left : left = LeftOf(amount)
  OBVIOUS
<1>7. IsLeft(left, amount)
  BY <1>5, <1>6 DEF LeftOf
<1>8. left[0] = amount
  <2>1. 0 \in 0 .. n
    OBVIOUS
  <2> QED
    BY <1>1, <1>7, <2>1 DEF IsLeft
<1>9. ASSUME NEW i \in 1 .. n, left[i - 1] \in Nat
      PROVE  left[i] = left[i - 1] - Takes(left[i - 1], i) /\ left[i] \in Nat
  <2>1. i \in 0 .. n /\ i # 0
    OBVIOUS
  <2>2. left[i] = IF schedule[i].status \in Settled THEN left[i - 1]
                  ELSE left[i - 1] - Lesser(left[i - 1], Outstanding(i))
    BY <1>1, <1>7, <2>1 DEF IsLeft
  <2>3. left[i] = left[i - 1] - Takes(left[i - 1], i)
    BY <1>9, <2>2 DEF Takes
  <2> QED
    BY <1>1, <1>2, <1>9, <2>3
<1>10. \A i \in 0 .. n : Agrees(left, left, Nat, i)
  <2>1. Agrees(left, left, Nat, 0)
    BY <1>8 DEF Agrees
  <2>2. \A i \in 1 .. n : Agrees(left, left, Nat, i - 1) => Agrees(left, left, Nat, i)
    BY <1>9 DEF Agrees
  <2> QED
    BY <2>1, <2>2, RecursionsAgree
<1>11. \A i \in 1 .. n : left[i - 1] \in Nat
  <2>1. \A i \in 1 .. n : i - 1 \in 0 .. n
    OBVIOUS
  <2> QED
    BY <1>10, <2>1 DEF Agrees
<1> QED
  BY <1>1, <1>2, <1>6, <1>8, <1>9, <1>11 DEF Drains

(* An installment's share of a payment: what it takes is what it holds more,*)
(* never beyond its total, and it is full when something passes it by.      *)
LEMMA FilledItem ==
    ASSUME PlanTyped, NEW amount \in Nat, NEW i \in Items,
           NEW left, Drains(left, amount)
    PROVE  /\ Filled(left, i) \in Installments
           /\ Filled(left, i).paid = schedule[i].paid + Takes(left[i - 1], i)
           /\ Filled(left, i).paid <= Total[i]
           /\ schedule[i].status \in Settled => Filled(left, i) = schedule[i]
           /\ Filled(left, i) = schedule[i] \/ Filled(left, i).status \in {"paid", "partial"}
           /\ Filled(left, i) # schedule[i] =>
                (Filled(left, i).status = "paid" <=> Filled(left, i).paid = Total[i])
           /\ left[i] > 0 /\ schedule[i].status \notin Settled => Filled(left, i).paid = Total[i]
<1>1. PICK t \in Nat, p \in Nat : t = Total[i] /\ p = schedule[i].paid /\ p <= t
                                   /\ Outstanding(i) = t - p
  BY PlanShape
<1>2. PICK l \in Nat, m \in Nat, k \in Nat : l = left[i - 1] /\ m = left[i] /\ m = l - k
                                              /\ k = Takes(l, i) /\ k <= l
  BY DEF Drains
<1>3. schedule[i] \in Installments
  BY PlanShape
<1>4. CASE schedule[i].status \in Settled
  <2>1. k = 0 /\ Filled(left, i) = schedule[i]
    BY <1>2, <1>4 DEF Takes, Filled
  <2> QED
    BY <1>1, <1>2, <1>3, <1>4, <2>1
<1>5. CASE schedule[i].status \notin Settled
  <2>1. k = Lesser(l, t - p)
    BY <1>1, <1>2, <1>5 DEF Takes
  <2>2. CASE l = 0
    <3>1. k = 0 /\ m = 0 /\ Filled(left, i) = schedule[i]
      BY <1>1, <1>2, <2>1, <2>2 DEF Filled, Lesser
    <3>2. PICK x \in Installments : x = schedule[i] /\ x.paid = p
      BY <1>1, <1>3
    <3>3. Filled(left, i) = x
      BY <3>1, <3>2
    <3>4. Takes(left[i - 1], i) = 0 /\ left[i] = 0
      BY <1>2, <3>1
    <3>5. Filled(left, i).paid = p /\ p + 0 = p
      BY <3>2, <3>3
    <3> QED
      BY <1>1, <1>5, <3>2, <3>3, <3>4, <3>5
  <2>3. CASE l # 0
    <3>1. p + l - m = p + k /\ p + k \in Nat /\ p + k <= t /\ (m > 0 => p + k = t)
      BY <1>1, <1>2, <2>1, <2>3 DEF Lesser
    <3>2. PICK s \in {"paid", "partial"} :
            s = (IF p + k >= t THEN "paid" ELSE "partial")
            /\ (s = "paid" <=> p + k = t)
      BY <3>1
    <3>3. Filled(left, i) = [paid |-> p + k, status |-> s]
      BY <1>1, <1>2, <1>5, <2>3, <3>1, <3>2 DEF Filled
    <3>4. s \in ItemStatuses
      BY <3>2 DEF ItemStatuses
    <3> QED
      BY <1>1, <1>2, <1>5, <3>1, <3>2, <3>3, <3>4 DEF Installments
  <2> QED
    BY <2>2, <2>3
<1> QED
  BY <1>4, <1>5

---------------------------------------------------------------------------
(* What record_payment writes. *)

PaymentRow(mode, amount, eff) ==
    [type |-> "payment", mode |-> mode, eff |-> eff, amount |-> amount,
     split |-> Allocate(mode, amount, LoanBalances(ledger, eff))]
FillOf(mode, amount) == IF mode = "regular" THEN FillPlan(amount) ELSE schedule

(* record_payment, with the row it appends and the plan it fills named.     *)
LEMMA PaymentWrites ==
    ASSUME NEW mode, NEW amount, NEW eff, NEW r, r = PaymentRow(mode, amount, eff),
           RecordPayment(mode, amount, eff)
    PROVE  /\ Accepts(mode, amount, LoanBalances(ledger, eff))
           /\ ledger' = Append(ledger, r)
           /\ principalBalance' = Positive(principalBalance - r.split.principal)
           /\ schedule' = IF PayoffAsOf(Append(ledger, r), eff) = 0
                          THEN WaiveOpen(FillOf(mode, amount)) ELSE FillOf(mode, amount)
           /\ status' = StatusAfterPayment(PayoffAsOf(Append(ledger, r), eff) = 0,
                                           FillOf(mode, amount))
  BY DEF RecordPayment, PaymentRow, FillOf

(* The row is well formed: its split adds up to the cash received and takes *)
(* no more interest, fee or add-on than is owed.                            *)
LEMMA RowTyped ==
    ASSUME BooksTyped, NEW mode \in Modes, NEW amount \in Nat, NEW eff \in Nat,
           Accepts(mode, amount, LoanBalances(ledger, eff)),
           NEW r, r = PaymentRow(mode, amount, eff)
    PROVE  /\ r \in LedgerRows
           /\ r.type = "payment" /\ r.mode = mode /\ r.amount = amount /\ r.eff = eff
           /\ LoanBalances(ledger, eff) \in Balances
           /\ r.split = Allocate(mode, amount, LoanBalances(ledger, eff))
           /\ EventOf(r).paid = r.split /\ EventOf(r).charged = NoMoney
<1>1. LoanBalances(ledger, eff) \in Balances
  BY BalancesOfLoan DEF BooksTyped
<1>2. PICK b \in Balances : b = LoanBalances(ledger, eff)
  BY <1>1
<1>3. PICK s \in Balances : s = Allocate(mode, amount, b)
  BY <1>2, PaymentConservesMoney
<1>4. r = [type |-> "payment", mode |-> mode, eff |-> eff, amount |-> amount, split |-> s]
  BY <1>2, <1>3 DEF PaymentRow
<1> QED
  BY <1>2, <1>3, <1>4 DEF LedgerRows, EventOf

(* The books stay well typed when a row dated today or earlier is appended. *)
LEMMA AppendedBooks ==
    ASSUME NEW rows \in Seq(LedgerRows), NEW r \in LedgerRows, NEW d \in Nat,
           UpTo(rows, d), r.eff <= d
    PROVE  Append(rows, r) \in Seq(LedgerRows) /\ UpTo(Append(rows, r), d)
<1>1. PICK n \in Nat : n = Len(rows)
  OBVIOUS
<1>2. /\ Append(rows, r) \in Seq(LedgerRows) /\ Len(Append(rows, r)) = n + 1
      /\ \A k \in 1 .. n : Append(rows, r)[k] = rows[k]
      /\ Append(rows, r)[n + 1] = r
  BY <1>1
<1>3. \A k \in 1 .. n + 1 : k \in 1 .. n \/ k = n + 1
  OBVIOUS
<1> QED
  BY <1>1, <1>2, <1>3 DEF UpTo

(* The filled plan, and the plan when its open installments are waived.     *)
LEMMA FillTyped ==
    ASSUME PlanTyped, NEW mode \in Modes, NEW amount \in Nat, NEW sch, sch = FillOf(mode, amount)
    PROVE  /\ sch \in [Items -> Installments]
           /\ \A i \in Items : sch[i].paid <= Total[i]
           /\ \A i \in Items : sch[i] = schedule[i] \/ sch[i].status \in {"paid", "partial"}
           /\ \A i \in Items : schedule[i].status \in Settled => sch[i] = schedule[i]
<1>1. CASE mode = "regular"
  <2>1. PICK left : left = LeftOf(amount)
    OBVIOUS
  <2>2. Drains(left, amount)
    BY <2>1, LeftLaw
  <2>3. sch = [i \in Items |-> Filled(left, i)]
    BY <1>1, <2>1, FillPlanByLeft DEF FillOf
  <2>4. \A i \in Items :
          /\ Filled(left, i) \in Installments
          /\ Filled(left, i).paid <= Total[i]
          /\ schedule[i].status \in Settled => Filled(left, i) = schedule[i]
          /\ Filled(left, i) = schedule[i] \/ Filled(left, i).status \in {"paid", "partial"}
    BY <2>2, FilledItem
  <2> QED
    BY <2>3, <2>4
<1>2. CASE mode # "regular"
  BY <1>2 DEF FillOf, PlanTyped
<1> QED
  BY <1>1, <1>2

(* A payoff's sweep settles what is open and leaves the rest as it is.      *)
LEMMA WaiveTyped ==
    ASSUME NEW sch \in [Items -> Installments], NEW w, w = WaiveOpen(sch)
    PROVE  /\ w \in [Items -> Installments]
           /\ \A i \in Items : /\ w[i].paid = sch[i].paid
                               /\ w[i].status \in Settled
                               /\ sch[i].status \in Settled => w[i] = sch[i]
                               /\ sch[i].status \notin Settled => w[i].status = "waived"
<1>1. \A i \in Items : w[i] = IF sch[i].status \in Settled THEN sch[i]
                              ELSE [sch[i] EXCEPT !.status = "waived"]
  BY DEF WaiveOpen
<1>2. ASSUME NEW i \in Items
      PROVE  [sch[i] EXCEPT !.status = "waived"] = [paid |-> sch[i].paid, status |-> "waived"]
             /\ [paid |-> sch[i].paid, status |-> "waived"] \in Installments
             /\ sch[i] \in Installments
  <2>1. PICK x \in Installments : x = sch[i]
    OBVIOUS
  <2> QED
    BY <2>1 DEF Installments, ItemStatuses
<1>3. w = [i \in Items |-> w[i]]
  BY DEF WaiveOpen
<1>4. ASSUME NEW i \in Items
      PROVE  /\ w[i] \in Installments /\ w[i].paid = sch[i].paid
             /\ w[i].status \in Settled
             /\ sch[i].status \in Settled => w[i] = sch[i]
             /\ sch[i].status \notin Settled => w[i].status = "waived"
  <2>1. CASE sch[i].status \in Settled
    <3>1. w[i] = sch[i]
      BY <1>1, <2>1
    <3> QED
      BY <1>2, <2>1, <3>1
  <2>2. CASE sch[i].status \notin Settled
    <3>1. w[i] = [paid |-> sch[i].paid, status |-> "waived"] /\ w[i] \in Installments
      BY <1>1, <1>2, <2>2
    <3>2. w[i].paid = sch[i].paid /\ w[i].status = "waived"
      BY <3>1
    <3> QED
      BY <2>2, <3>1, <3>2 DEF Settled
  <2> QED
    BY <2>1, <2>2
<1> QED
  BY <1>3, <1>4

(* The plan after a payment.                                                *)
LEMMA PlanAfterPayment ==
    ASSUME PlanTyped, NEW mode \in Modes, NEW amount \in Nat, NEW eff \in Nat,
           RecordPayment(mode, amount, eff)
    PROVE  /\ schedule' \in [Items -> Installments]
           /\ \A i \in Items : /\ schedule'[i].paid = FillOf(mode, amount)[i].paid
                               /\ schedule'[i].paid <= Total[i]
<1>1. PICK sch : sch = FillOf(mode, amount)
  OBVIOUS
<1>2. sch \in [Items -> Installments] /\ \A i \in Items : sch[i].paid <= Total[i]
  BY <1>1, FillTyped
<1>3. schedule' = WaiveOpen(sch) \/ schedule' = sch
  BY <1>1, PaymentWrites
<1> QED
  BY <1>1, <1>2, <1>3, WaiveTyped

---------------------------------------------------------------------------
(* Every step keeps the types. *)

(* The gate's step keeps the types.                                         *)
LEMMA GateTyped == ASSUME Typed, GatePosting PROVE Typed'
<1>1. /\ posting \in {posting} /\ status' = status /\ aging' = aging /\ parked' = parked
      /\ day' = day /\ ledger' = ledger /\ principalBalance' = principalBalance
      /\ schedule' = schedule
  BY DEF GatePosting, book
<1>2. PICK mode \in Modes, back \in DaysBack :
        /\ back <= day
        /\ \E amount \in IF mode = "payoff"
                         THEN {PayoffAsOf(ledger, day - back)} ELSE Amounts :
             posting' = [mode |-> mode, amount |-> amount, eff |-> day - back]
  BY DEF GatePosting
<1>3. PICK e \in Nat : e = day - back /\ e <= day
  <2>1. day \in Nat /\ back \in 0 .. 30
    BY LoanAssumption DEF Typed, BooksTyped
  <2>2. day - back \in Nat /\ day - back <= day
    BY <1>2, <2>1
  <2> QED
    BY <2>2
<1>4. PayoffAsOf(ledger, e) \in Nat
  <2>1. PICK b \in Balances : b = LoanBalances(ledger, e)
    BY BalancesOfLoan DEF Typed, BooksTyped
  <2>2. Payoff(b) \in Nat
    BY DEF Payoff, Balances
  <2> QED
    BY <2>1, <2>2 DEF PayoffAsOf
<1>5. PICK amount \in Nat : posting' = [mode |-> mode, amount |-> amount, eff |-> e]
  BY <1>2, <1>3, <1>4, LoanAssumption
<1>6. posting' \in Postings /\ posting'.eff <= day
  BY <1>3, <1>5 DEF Postings
<1>7. PlanTyped' /\ BooksTyped'
  BY <1>1 DEF Typed, PlanTyped, BooksTyped
<1>8. RestTyped'
  BY <1>1, <1>6 DEF Typed, RestTyped
<1> QED
  BY <1>7, <1>8 DEF Typed

(* What PostPayment is called with.                                         *)
LEMMA Posted ==
    ASSUME Typed, PostPayment
    PROVE  /\ posting.mode \in Modes /\ posting.amount \in Nat
           /\ posting.eff \in Nat /\ posting.eff <= day
           /\ RecordPayment(posting.mode, posting.amount, posting.eff)
           /\ posting' = NoPosting /\ day' = day /\ aging' = aging /\ parked' = parked
  BY DEF PostPayment, Typed, RestTyped, Postings

(* A posted payment keeps them.                                             *)
LEMMA PostTyped == ASSUME Typed, PostPayment PROVE Typed'
<1>1. PICK mode \in Modes, amount \in Nat, eff \in Nat :
        mode = posting.mode /\ amount = posting.amount /\ eff = posting.eff
  BY Posted
<1>2. /\ RecordPayment(mode, amount, eff) /\ eff <= day
      /\ posting' = NoPosting /\ day' = day /\ aging' = aging /\ parked' = parked
  BY <1>1, Posted
<1>3. PICK r : r = PaymentRow(mode, amount, eff)
  OBVIOUS
<1>4. /\ Accepts(mode, amount, LoanBalances(ledger, eff))
      /\ ledger' = Append(ledger, r)
      /\ principalBalance' = Positive(principalBalance - r.split.principal)
      /\ status' = StatusAfterPayment(PayoffAsOf(Append(ledger, r), eff) = 0,
                                      FillOf(mode, amount))
  BY <1>2, <1>3, PaymentWrites
<1>5. r \in LedgerRows /\ r.eff = eff
  BY <1>3, <1>4, RowTyped DEF Typed
<1>6. PlanTyped'
  BY <1>2, PlanAfterPayment DEF Typed, PlanTyped
<1>7. BooksTyped'
  <2>1. ledger' \in Seq(LedgerRows) /\ UpTo(ledger', day)
    BY <1>2, <1>4, <1>5, AppendedBooks DEF Typed, BooksTyped
  <2>2. principalBalance' \in Nat /\ principalBalance' <= Advance
    <3>1. r.split.principal \in Nat
      BY <1>5 DEF LedgerRows, Balances
    <3>2. PICK s \in Nat, p \in Nat : s = r.split.principal /\ p = principalBalance /\ p <= Advance
      BY <3>1 DEF Typed, BooksTyped
    <3>3. Advance \in Nat
      BY LoanAssumption
    <3> QED
      BY <1>4, <3>2, <3>3 DEF Positive
  <2> QED
    BY <1>2, <2>1, <2>2 DEF Typed, BooksTyped
<1>8. RestTyped'
  <2>1. status' \in LoanStatuses
    BY <1>4 DEF StatusAfterPayment, LoanStatuses, Typed, RestTyped
  <2> QED
    BY <1>2, <2>1 DEF Typed, RestTyped
<1> QED
  BY <1>6, <1>7, <1>8 DEF Typed

(* A fee keeps them.                                                        *)
LEMMA FeeTyped == ASSUME Typed, ChargeFee PROVE Typed'
<1>1. PICK fee \in FeeAmounts :
        ledger' = Append(ledger, [type |-> "fee", mode |-> "none", eff |-> day, amount |-> fee,
                                  split |-> [NoMoney EXCEPT !.addOn = fee]])
  BY DEF ChargeFee
<1>2. PICK r : r = [type |-> "fee", mode |-> "none", eff |-> day, amount |-> fee,
                    split |-> [NoMoney EXCEPT !.addOn = fee]]
  OBVIOUS
<1>3. fee \in Nat /\ day \in Nat
  BY LoanAssumption DEF Typed, BooksTyped
<1>4. r \in LedgerRows /\ r.eff <= day
  BY <1>2, <1>3 DEF LedgerRows, NoMoney, Balances
<1>5. ledger' \in Seq(LedgerRows) /\ UpTo(ledger', day)
  BY <1>1, <1>2, <1>3, <1>4, AppendedBooks DEF Typed, BooksTyped
<1>6. PlanTyped' /\ RestTyped'
  BY DEF ChargeFee, Typed, PlanTyped, RestTyped
<1>7. BooksTyped'
  BY <1>5 DEF ChargeFee, Typed, BooksTyped
<1> QED
  BY <1>6, <1>7 DEF Typed

(* One installment is written, with what it held.                           *)
LEMMA OneInstallment ==
    ASSUME PlanTyped, NEW i \in Items, NEW s \in ItemStatuses,
           schedule' = [schedule EXCEPT ![i].status = s]
    PROVE  /\ PlanTyped'
           /\ \A j \in Items : schedule'[j].paid = schedule[j].paid
           /\ schedule'[i].status = s
           /\ \A j \in Items \ {i} : schedule'[j] = schedule[j]
<1>1. PICK x \in Installments : x = schedule[i]
  BY DEF PlanTyped
<1>2. [x EXCEPT !.status = s] \in Installments
      /\ [x EXCEPT !.status = s].paid = x.paid /\ [x EXCEPT !.status = s].status = s
  BY DEF Installments
<1>3. schedule' = [schedule EXCEPT ![i] = [x EXCEPT !.status = s]]
  BY <1>1
<1>4. /\ schedule' \in [Items -> Installments]
      /\ \A j \in Items : schedule'[j].paid = schedule[j].paid
      /\ schedule'[i].status = s
      /\ \A j \in Items \ {i} : schedule'[j] = schedule[j]
  BY <1>1, <1>2, <1>3 DEF PlanTyped
<1>5. \A j \in Items : schedule'[j].paid <= Total[j]
  BY <1>4 DEF PlanTyped
<1> QED
  BY <1>4, <1>5 DEF PlanTyped

(* Suspending or releasing an installment keeps them.                       *)
LEMMA SurgeryTyped ==
    ASSUME Typed, NEW i \in Items, SuspendInstallment(i) \/ UnsuspendInstallment(i)
    PROVE  Typed'
<1>1. PICK s \in ItemStatuses : schedule' = [schedule EXCEPT ![i].status = s]
  <2>1. CASE SuspendInstallment(i)
    <3>1. "suspended" \in ItemStatuses
      BY DEF ItemStatuses
    <3> QED
      BY <2>1, <3>1 DEF SuspendInstallment
  <2>2. CASE UnsuspendInstallment(i)
    <3>1. PICK s \in ItemStatuses : s = IF schedule[i].paid > 0 THEN "partial" ELSE "scheduled"
      BY DEF ItemStatuses
    <3> QED
      BY <2>2, <3>1 DEF UnsuspendInstallment
  <2> QED
    BY <2>1, <2>2
<1>2. PlanTyped'
  BY <1>1, OneInstallment DEF Typed
<1>3. /\ day' = day /\ ledger' = ledger /\ principalBalance' = principalBalance
      /\ status' = status /\ posting' = posting /\ aging' = aging
      /\ parked' \in SUBSET Items
  BY DEF SuspendInstallment, UnsuspendInstallment, book, Typed, RestTyped
<1>4. BooksTyped' /\ RestTyped'
  BY <1>3 DEF Typed, BooksTyped, RestTyped
<1> QED
  BY <1>2, <1>4 DEF Typed

(* The nightly job's commit.                                                *)
LEMMA CommitTyped == ASSUME Typed, AgingCommit PROVE Typed'
<1>1. ASSUME NEW i \in Items
      PROVE  [schedule[i] EXCEPT !.status = "late"] = [paid |-> schedule[i].paid, status |-> "late"]
             /\ [paid |-> schedule[i].paid, status |-> "late"] \in Installments
             /\ schedule[i] \in Installments /\ schedule[i].paid <= Total[i]
  <2>1. PICK x \in Installments : x = schedule[i]
    BY DEF Typed, PlanTyped
  <2> QED
    BY <2>1 DEF Installments, ItemStatuses, Typed, PlanTyped
<1>2. schedule' = [i \in Items |-> IF i \in aging.items
                                   THEN [paid |-> schedule[i].paid, status |-> "late"]
                                   ELSE schedule[i]]
  BY <1>1 DEF AgingCommit
<1>3. PlanTyped'
  BY <1>1, <1>2 DEF PlanTyped
<1>4. BooksTyped'
  BY DEF AgingCommit, book, Typed, BooksTyped
<1>5. RestTyped'
  BY DEF AgingCommit, Typed, RestTyped, LoanStatuses, AgingIdle, AgingRuns
<1> QED
  BY <1>3, <1>4, <1>5 DEF Typed

(* So does every other step.                                                *)
LEMMA OthersTyped ==
    ASSUME Typed,
           \/ RejectPosting \/ ChargeOff \/ AgingReadItems \/ AgingReadLoan \/ NextDay
           \/ UNCHANGED vars
    PROVE  Typed'
<1>1. CASE RejectPosting
  BY <1>1 DEF RejectPosting, book, Typed, PlanTyped, BooksTyped, RestTyped
<1>2. CASE ChargeOff
  BY <1>2 DEF ChargeOff, book, Typed, PlanTyped, BooksTyped, RestTyped, LoanStatuses
<1>3. CASE AgingReadItems
  <2>1. aging' \in AgingRuns
    BY <1>3 DEF AgingReadItems, AgingRuns
  <2> QED
    BY <1>3, <2>1 DEF AgingReadItems, book, Typed, PlanTyped, BooksTyped, RestTyped
<1>4. CASE AgingReadLoan
  <2>1. PICK m \in BOOLEAN : m = (/\ status = "active"
                                  /\ aging.items # {} \/ \E i \in Items : schedule[i].status = "late")
    OBVIOUS
  <2>2. aging' = [aging EXCEPT !.phase = "loan", !.mark = m]
    BY <1>4, <2>1 DEF AgingReadLoan
  <2>3. aging \in AgingRuns
    BY DEF Typed, RestTyped
  <2>4. aging' \in AgingRuns
    BY <2>2, <2>3 DEF AgingRuns
  <2> QED
    BY <1>4, <2>4 DEF AgingReadLoan, book, Typed, PlanTyped, BooksTyped, RestTyped
<1>5. CASE NextDay
  <2>1. day + 1 \in Nat /\ day + 1 <= MaxDay
    BY <1>5, LoanAssumption DEF NextDay, Typed, BooksTyped
  <2>2. UpTo(ledger, day + 1)
    <3>1. \A k \in 1 .. Len(ledger) : ledger[k].eff \in Nat /\ ledger[k].eff <= day /\ day \in Nat
      BY LedgerShape DEF Typed, BooksTyped, UpTo
    <3>2. \A k \in 1 .. Len(ledger) : ledger[k].eff <= day + 1
      BY <3>1
    <3> QED
      BY <3>2 DEF UpTo
  <2>3. /\ day' = day + 1 /\ ledger' = ledger /\ principalBalance' = principalBalance
        /\ schedule' = schedule /\ status' = status /\ posting' = posting /\ aging' = aging
        /\ parked' = parked /\ posting = NoPosting
    BY <1>5 DEF NextDay, book
  <2> QED
    BY <2>1, <2>2, <2>3 DEF Typed, PlanTyped, BooksTyped, RestTyped
<1>6. CASE UNCHANGED vars
  BY <1>6 DEF vars, Typed, PlanTyped, BooksTyped, RestTyped
<1> QED
  BY <1>1, <1>2, <1>3, <1>4, <1>5, <1>6

(* Every step keeps the types.                                              *)
LEMMA NextTyped == Typed /\ [Next]_vars => Typed'
<1> SUFFICES ASSUME Typed, [Next]_vars PROVE Typed'
  OBVIOUS
<1>1. CASE \E i \in Items : SuspendInstallment(i) \/ UnsuspendInstallment(i)
  BY <1>1, SurgeryTyped
<1> QED
  BY <1>1, GateTyped, PostTyped, FeeTyped, CommitTyped, OthersTyped DEF Next

(* Every variable stays in its range: the cursor of the replay, the splits  *)
(* of the ledger and what each installment has received, for every plan,    *)
(* rate and repayment order.                                                *)
THEOREM ServicingTyped == Spec => []TypeOK
<1>1. Spec => []Typed
  BY InitTyped, NextTyped, PTL DEF Spec
<1> QED
  BY <1>1, TypedGivesTypeOK, PTL

---------------------------------------------------------------------------
(* The two books of the debt. *)

(* A split never pays more interest than is owed, so no excess falls        *)
(* through to principal.                                                    *)
LEMMA SplitInterest ==
    ASSUME NEW b \in Balances, NEW amount \in Nat, NEW mode \in Modes
    PROVE  Allocate(mode, amount, b).interest <= b.interest
<1>1. PICK i \in Nat : i = b.interest
  BY DEF Balances
<1>2. CASE mode = "regular"
  <2>1. Allocate(mode, amount, b).interest = Share("interest", amount, b)
    BY <1>2 DEF Allocate, AllocateRegular
  <2>2. Share("interest", amount, b) \in 0 .. b.interest
    BY WaterfallExhaustsAmount
  <2> QED
    BY <1>1, <2>1, <2>2
<1>3. CASE mode = "add_on"
  BY <1>1, <1>3 DEF Allocate, NoMoney
<1>4. CASE mode = "special"
  BY <1>1, <1>4 DEF Allocate, NoMoney
<1>5. CASE mode = "payoff"
  BY <1>1, <1>5 DEF Allocate
<1> QED
  BY <1>2, <1>3, <1>4, <1>5 DEF Modes

(* Applying a row takes its principal off the balance, never below zero.    *)
LEMMA AppliedPrincipal ==
    ASSUME NEW b \in Balances, NEW paid \in Balances, NEW charged, paid.interest <= b.interest
    PROVE  ApplyEvent(b, paid, charged).principal = Positive(b.principal - paid.principal)
<1>1. PICK p \in Nat, i \in Nat, q \in Nat, j \in Nat :
        p = b.principal /\ i = b.interest /\ q = paid.principal /\ j = paid.interest
  BY DEF Balances
<1>2. Positive(j - i) = 0
  BY <1>1 DEF Positive
<1>3. p - q - 0 = p - q
  BY <1>1
<1> QED
  BY <1>1, <1>2, <1>3 DEF ApplyEvent

(* What an appended ledger in date order says of the one before.            *)
LEMMA AppendedInOrder ==
    ASSUME NEW rows \in Seq(LedgerRows), NEW r \in LedgerRows, InDateOrder(Append(rows, r))
    PROVE  InDateOrder(rows) /\ UpTo(rows, r.eff) /\ UpTo(Append(rows, r), r.eff)
<1>1. PICK n \in Nat : n = Len(rows) /\ DOMAIN rows = 1 .. n
  BY LedgerShape
<1>2. PICK more : more = Append(rows, r)
  OBVIOUS
<1>3. /\ Len(more) = n + 1 /\ DOMAIN more = 1 .. n + 1
      /\ \A k \in 1 .. n : more[k] = rows[k]
      /\ more[n + 1] = r
  BY <1>1, <1>2
<1>4. \A j, k \in 1 .. n + 1 : j < k => more[j].eff <= more[k].eff
  BY <1>2, <1>3 DEF InDateOrder
<1>5. \A j \in 1 .. n : j \in 1 .. n + 1 /\ j < n + 1 /\ n + 1 \in 1 .. n + 1
  OBVIOUS
<1>6. \A j, k \in 1 .. n : j < k => rows[j].eff <= rows[k].eff
  BY <1>3, <1>4, <1>5
<1>7. \A j \in 1 .. n : rows[j].eff <= r.eff
  BY <1>3, <1>4, <1>5
<1>8. r.eff \in Nat /\ r.eff <= r.eff
  BY DEF LedgerRows
<1> QED
  BY <1>1, <1>6, <1>7, <1>8, AppendedBooks DEF InDateOrder, UpTo

(* An appended row in date order moves the principal of the replay by its   *)
(* split, on its own day and on every later one.                            *)
LEMMA AppendedPrincipal ==
    ASSUME NEW rows \in Seq(LedgerRows), NEW r \in LedgerRows, NEW d \in Nat,
           InDateOrder(Append(rows, r)), UpTo(rows, d), r.eff <= d,
           EventOf(r).paid.interest <= LoanBalances(rows, r.eff).interest
    PROVE  LoanBalances(Append(rows, r), d).principal
             = Positive(LoanBalances(rows, d).principal - EventOf(r).paid.principal)
<1>1. PICK e \in Nat : e = r.eff
  BY DEF LedgerRows
<1>2. /\ UpTo(rows, e) /\ UpTo(Append(rows, r), e) /\ UpTo(Append(rows, r), d)
      /\ Append(rows, r) \in Seq(LedgerRows)
  BY <1>1, AppendedInOrder, AppendedBooks
<1>3. LoanBalances(Append(rows, r), d).principal = LoanBalances(Append(rows, r), e).principal
  BY <1>2, TimeAlone
<1>4. LoanBalances(rows, d).principal = LoanBalances(rows, e).principal
  BY <1>2, TimeAlone
<1>5. PICK b \in Balances : b = LoanBalances(rows, e)
  BY BalancesOfLoan
<1>6. EventOf(r).paid \in Balances
  BY EventTyped DEF Events
<1>7. LoanBalances(Append(rows, r), e) = ApplyEvent(b, EventOf(r).paid, EventOf(r).charged)
  BY <1>1, <1>2, <1>5, LatestRow
<1>8. ApplyEvent(b, EventOf(r).paid, EventOf(r).charged).principal
        = Positive(b.principal - EventOf(r).paid.principal)
  BY <1>1, <1>5, <1>6, AppliedPrincipal
<1> QED
  BY <1>3, <1>4, <1>5, <1>7, <1>8

(* An empty ledger replays to the advance.                                  *)
LEMMA NothingReplayed ==
    ASSUME NEW rows \in Seq(LedgerRows), Len(rows) = 0, NEW d \in Nat, d = 0
    PROVE  LoanBalances(rows, d).principal = Advance
<1>1. Advance \in Nat
  BY LoanAssumption
<1>2. PICK ev \in Seq(Events) : ev = LedgerEvents(rows) /\ Len(ev) = 0
  BY EventsTyped
<1>3. Follows(WalkOf(Advance, 0, ev, d), Advance, 0, ev, d)
  BY <1>1, WalkLaw
<1>4. LastPosition(rows, d) = Opening(Advance, 0)
  BY <1>2, <1>3 DEF Follows, LastPosition
<1>5. PICK w \in Positions : w = LastPosition(rows, d)
  BY BalancesOfLoan
<1>6. AccruesTo(w, d).b.principal = w.b.principal
  BY AccruesTyped
<1>7. LoanBalances(rows, d).principal = w.b.principal
  BY <1>5, <1>6, BalancesOfLoan
<1> QED
  BY <1>4, <1>5, <1>7 DEF Opening, NoMoney

(* A new loan stores its advance.                                           *)
LEMMA InitStored == Init => StoredPrincipalMatchesLedger
<1> SUFFICES ASSUME Init PROVE principalBalance = LoanBalances(ledger, day).principal
  BY DEF StoredPrincipalMatchesLedger
<1>1. principalBalance = Advance /\ day = 0 /\ ledger = << >>
  BY DEF Init
<1>2. << >> \in Seq(LedgerRows) /\ Len(<< >>) = 0
  OBVIOUS
<1>3. LoanBalances(<< >>, 0).principal = Advance
  BY <1>2, NothingReplayed
<1> QED
  BY <1>1, <1>3

(* Every step keeps the stored principal at what the ledger replays to.     *)
LEMMA NextStored ==
    ASSUME Typed, StoredPrincipalMatchesLedger, [Next]_vars
    PROVE  StoredPrincipalMatchesLedger'
<1>1. ledger \in Seq(LedgerRows) /\ UpTo(ledger, day) /\ day \in Nat /\ principalBalance \in Nat
  BY DEF Typed, BooksTyped
<1>2. CASE PostPayment
  <2>1. PICK mode \in Modes, amount \in Nat, eff \in Nat :
          mode = posting.mode /\ amount = posting.amount /\ eff = posting.eff
    BY <1>2, Posted
  <2>2. RecordPayment(mode, amount, eff) /\ eff <= day /\ day' = day
    BY <1>2, <2>1, Posted
  <2>3. PICK r : r = PaymentRow(mode, amount, eff)
    OBVIOUS
  <2>4. /\ Accepts(mode, amount, LoanBalances(ledger, eff))
        /\ ledger' = Append(ledger, r)
        /\ principalBalance' = Positive(principalBalance - r.split.principal)
    BY <2>2, <2>3, PaymentWrites
  <2>5. /\ r \in LedgerRows /\ r.eff = eff /\ LoanBalances(ledger, eff) \in Balances
        /\ r.split = Allocate(mode, amount, LoanBalances(ledger, eff))
        /\ EventOf(r).paid = r.split
    BY <2>3, <2>4, RowTyped DEF Typed
  <2>6. EventOf(r).paid.interest <= LoanBalances(ledger, r.eff).interest
    BY <2>5, SplitInterest
  <2>7. ASSUME InDateOrder(ledger') PROVE principalBalance' = LoanBalances(ledger', day').principal
    <3>1. InDateOrder(Append(ledger, r))
      BY <2>4, <2>7
    <3>2. LoanBalances(Append(ledger, r), day).principal
            = Positive(LoanBalances(ledger, day).principal - EventOf(r).paid.principal)
      BY <1>1, <2>2, <2>5, <2>6, <3>1, AppendedPrincipal
    <3>3. principalBalance = LoanBalances(ledger, day).principal
      BY <1>1, <2>5, <3>1, AppendedInOrder DEF StoredPrincipalMatchesLedger
    <3> QED
      BY <2>2, <2>4, <2>5, <3>2, <3>3
  <2> QED
    BY <2>7 DEF StoredPrincipalMatchesLedger
<1>3. CASE ChargeFee
  <2>1. PICK fee \in FeeAmounts :
          ledger' = Append(ledger, [type |-> "fee", mode |-> "none", eff |-> day, amount |-> fee,
                                    split |-> [NoMoney EXCEPT !.addOn = fee]])
    BY <1>3 DEF ChargeFee
  <2>2. PICK r : r = [type |-> "fee", mode |-> "none", eff |-> day, amount |-> fee,
                      split |-> [NoMoney EXCEPT !.addOn = fee]]
    OBVIOUS
  <2>3. fee \in Nat
    BY LoanAssumption
  <2>4. r \in LedgerRows /\ r.eff = day /\ EventOf(r).paid = NoMoney
    BY <1>1, <2>2, <2>3 DEF LedgerRows, NoMoney, Balances, EventOf
  <2>5. PICK b \in Balances : b = LoanBalances(ledger, day)
    BY <1>1, BalancesOfLoan
  <2>6. NoMoney.interest <= b.interest /\ NoMoney.principal = 0 /\ b.principal \in Nat
    BY DEF NoMoney, Balances
  <2>7. ASSUME InDateOrder(ledger') PROVE principalBalance' = LoanBalances(ledger', day').principal
    <3>1. InDateOrder(Append(ledger, r))
      BY <2>1, <2>2, <2>7
    <3>2. LoanBalances(Append(ledger, r), day).principal = Positive(b.principal - 0)
      <4>1. EventOf(r).paid.interest <= LoanBalances(ledger, r.eff).interest /\ r.eff <= day
        BY <1>1, <2>4, <2>5, <2>6
      <4> QED
        BY <1>1, <2>4, <2>5, <2>6, <3>1, <4>1, AppendedPrincipal
    <3>3. Positive(b.principal - 0) = b.principal
      BY <2>6 DEF Positive
    <3>4. principalBalance = b.principal
      BY <1>1, <2>4, <2>5, <3>1, AppendedInOrder DEF StoredPrincipalMatchesLedger
    <3>5. day' = day /\ principalBalance' = principalBalance
      BY <1>3 DEF ChargeFee
    <3> QED
      BY <2>1, <2>2, <3>2, <3>3, <3>4, <3>5
  <2> QED
    BY <2>7 DEF StoredPrincipalMatchesLedger
<1>4. CASE NextDay
  <2>1. day' = day + 1 /\ ledger' = ledger /\ principalBalance' = principalBalance
    BY <1>4 DEF NextDay, book
  <2>2. UpTo(ledger, day + 1) /\ day + 1 \in Nat
    <3>1. BooksTyped'
      BY NextTyped DEF Typed
    <3> QED
      BY <2>1, <3>1 DEF BooksTyped
  <2>3. LoanBalances(ledger, day).principal = LoanBalances(ledger, day + 1).principal
    BY <1>1, <2>2, TimeAlone
  <2> QED
    BY <2>1, <2>3 DEF StoredPrincipalMatchesLedger
<1>5. CASE \/ GatePosting \/ RejectPosting \/ ChargeOff
           \/ AgingReadItems \/ AgingReadLoan \/ AgingCommit \/ UNCHANGED vars
           \/ \E i \in Items : SuspendInstallment(i) \/ UnsuspendInstallment(i)
  <2>1. day' = day /\ ledger' = ledger /\ principalBalance' = principalBalance
    BY <1>5 DEF GatePosting, RejectPosting, ChargeOff, AgingReadItems, AgingReadLoan,
                AgingCommit, SuspendInstallment, UnsuspendInstallment, book, vars
  <2> QED
    BY <2>1 DEF StoredPrincipalMatchesLedger
<1> QED
  BY <1>2, <1>3, <1>4, <1>5 DEF Next

(* The stored principal and the ledger's replay agree on every day, through *)
(* any sequence of payments in any mode, fees and days, as long as no row   *)
(* was backdated: no payment is counted twice, no interest leaks into       *)
(* principal, and no fee reaches it.                                        *)
THEOREM StoredPrincipalIsTheLedgers == Spec => []StoredPrincipalMatchesLedger
<1>1. Spec => [](Typed /\ StoredPrincipalMatchesLedger)
  BY InitTyped, NextTyped, InitStored, NextStored, PTL DEF Spec
<1> QED
  BY <1>1, PTL

---------------------------------------------------------------------------
(* What a payment does to the debt. *)

(* Only a posted payment writes a payment row, and only it waives.          *)
LEMMA OnlyPaymentsPay ==
    ASSUME Typed, [Next]_vars, ~PostPayment
    PROVE  /\ ~(Len(ledger') > Len(ledger) /\ ledger'[Len(ledger')].type = "payment")
           /\ ~WaivesInstallment
<1>1. ledger \in Seq(LedgerRows) /\ day \in Nat
  BY DEF Typed, BooksTyped
<1>2. CASE ChargeFee
  <2>1. PICK r : ledger' = Append(ledger, r) /\ r.type = "fee"
    BY <1>2 DEF ChargeFee
  <2>2. ledger'[Len(ledger')] = r
    BY <1>1, <2>1
  <2>3. schedule' = schedule
    BY <1>2 DEF ChargeFee
  <2> QED
    BY <2>1, <2>2, <2>3 DEF WaivesInstallment
<1>3. CASE ~ChargeFee
  <2>1. ledger' = ledger
    BY <1>3 DEF Next, GatePosting, RejectPosting, ChargeOff, AgingReadItems, AgingReadLoan,
                AgingCommit, SuspendInstallment, UnsuspendInstallment, NextDay, book, vars
  <2>2. ~(Len(ledger') > Len(ledger))
    BY <1>1, <2>1
  <2>3. CASE \E i \in Items : SuspendInstallment(i) \/ UnsuspendInstallment(i)
    <3>1. PICK i \in Items : SuspendInstallment(i) \/ UnsuspendInstallment(i)
      BY <2>3
    <3>2. PICK s \in ItemStatuses \ {"waived"} : schedule' = [schedule EXCEPT ![i].status = s]
      <4>1. CASE SuspendInstallment(i)
        <5>1. "suspended" \in ItemStatuses \ {"waived"}
          BY DEF ItemStatuses
        <5> QED
          BY <4>1, <5>1 DEF SuspendInstallment
      <4>2. CASE UnsuspendInstallment(i)
        <5>1. PICK s \in ItemStatuses \ {"waived"} :
                s = IF schedule[i].paid > 0 THEN "partial" ELSE "scheduled"
          BY DEF ItemStatuses
        <5> QED
          BY <4>2, <5>1 DEF UnsuspendInstallment
      <4> QED
        BY <3>1, <4>1, <4>2
    <3>3. schedule'[i].status = s /\ \A j \in Items \ {i} : schedule'[j] = schedule[j]
      BY <3>2, OneInstallment DEF Typed
    <3> QED
      BY <2>2, <3>2, <3>3 DEF WaivesInstallment
  <2>4. CASE AgingCommit
    <3>1. ASSUME NEW i \in Items PROVE schedule'[i] = schedule[i] \/ schedule'[i].status = "late"
      <4>1. PICK x \in Installments : x = schedule[i]
        BY DEF Typed, PlanTyped
      <4>2. [x EXCEPT !.status = "late"].status = "late"
        BY DEF Installments
      <4> QED
        BY <2>4, <4>1, <4>2 DEF AgingCommit
    <3> QED
      BY <2>2, <3>1 DEF WaivesInstallment
  <2>5. CASE ~AgingCommit /\ ~\E i \in Items : SuspendInstallment(i) \/ UnsuspendInstallment(i)
    <3>1. schedule' = schedule
      BY <1>3, <2>5 DEF Next, GatePosting, RejectPosting, ChargeOff, AgingReadItems,
                        AgingReadLoan, NextDay, vars
    <3> QED
      BY <2>2, <3>1 DEF WaivesInstallment
  <2> QED
    BY <2>3, <2>4, <2>5
<1> QED
  BY <1>2, <1>3

PaymentMoves ==
    LET row == ledger'[Len(ledger')] IN
    /\ Len(ledger') > Len(ledger)
    /\ row.type = "payment"
    /\ row.eff = day
    => PayoffAsOf(ledger', day) =
         PayoffAsOf(ledger, day)
           - (row.amount - Overpayment(row.mode, row.amount, LoanBalances(ledger, day)))
WaiverSettles == WaivesInstallment /\ InDateOrder(ledger') => LoanBalances(ledger', day) = NoMoney

(* The two action properties, for a posted payment.                         *)
LEMMA PaymentIsExact ==
    ASSUME Typed, PostPayment
    PROVE  PaymentMoves /\ WaiverSettles
<1>1. PICK mode \in Modes, amount \in Nat, eff \in Nat :
        mode = posting.mode /\ amount = posting.amount /\ eff = posting.eff
  BY Posted
<1>2. RecordPayment(mode, amount, eff) /\ eff <= day
  BY <1>1, Posted
<1>3. PICK r : r = PaymentRow(mode, amount, eff)
  OBVIOUS
<1>4. /\ Accepts(mode, amount, LoanBalances(ledger, eff))
      /\ ledger' = Append(ledger, r)
      /\ schedule' = IF PayoffAsOf(Append(ledger, r), eff) = 0
                     THEN WaiveOpen(FillOf(mode, amount)) ELSE FillOf(mode, amount)
  BY <1>2, <1>3, PaymentWrites
<1>5. /\ r \in LedgerRows /\ r.type = "payment" /\ r.mode = mode /\ r.amount = amount
      /\ r.eff = eff
      /\ r.split = Allocate(mode, amount, LoanBalances(ledger, eff))
      /\ EventOf(r).paid = r.split /\ EventOf(r).charged = NoMoney
  BY <1>3, <1>4, RowTyped DEF Typed
<1>6. ledger \in Seq(LedgerRows) /\ UpTo(ledger, day) /\ day \in Nat
  BY DEF Typed, BooksTyped
<1>7. PaymentMoves
  <2>1. ledger'[Len(ledger')] = r
    BY <1>4, <1>6
  <2>2. ASSUME eff = day
        PROVE  PayoffAsOf(ledger', day) =
                 PayoffAsOf(ledger, day)
                   - (amount - Overpayment(mode, amount, LoanBalances(ledger, day)))
    <3>1. PICK b \in Balances : b = LoanBalances(ledger, day)
      BY <1>6, BalancesOfLoan
    <3>2. LoanBalances(ledger', day) = ApplyEvent(b, Allocate(mode, amount, b), NoMoney)
      BY <1>4, <1>5, <1>6, <2>2, <3>1, LatestRow
    <3>3. Payoff(ApplyEvent(b, Allocate(mode, amount, b), NoMoney))
            = Payoff(b) - (amount - Overpayment(mode, amount, b))
      BY <1>4, <2>2, <3>1, PaymentConservesMoney
    <3> QED
      BY <3>1, <3>2, <3>3 DEF PayoffAsOf
  <2> QED
    BY <1>5, <2>1, <2>2 DEF PaymentMoves
<1>8. WaiverSettles
  <2> SUFFICES ASSUME WaivesInstallment, InDateOrder(ledger')
               PROVE  LoanBalances(ledger', day) = NoMoney
    BY DEF WaiverSettles
  <2>1. PayoffAsOf(Append(ledger, r), eff) = 0
    <3>1. PICK sch : sch = FillOf(mode, amount)
      OBVIOUS
    <3>2. \A i \in Items : sch[i] = schedule[i] \/ sch[i].status \in {"paid", "partial"}
      BY <3>1, FillTyped DEF Typed
    <3>3. schedule' # sch
      BY <3>2 DEF WaivesInstallment
    <3> QED
      BY <1>4, <3>1, <3>3
  <2>2. PICK rows \in Seq(LedgerRows) : rows = ledger' /\ UpTo(rows, eff) /\ UpTo(rows, day)
    <3>1. /\ Append(ledger, r) \in Seq(LedgerRows) /\ UpTo(Append(ledger, r), eff)
          /\ UpTo(Append(ledger, r), day)
      BY <1>2, <1>4, <1>5, <1>6, AppendedInOrder, AppendedBooks
    <3> QED
      BY <1>4, <3>1
  <2>3. PICK b \in Balances : b = LoanBalances(rows, eff)
    BY BalancesOfLoan
  <2>4. b = NoMoney
    <3>1. Payoff(b) = 0
      BY <1>4, <2>1, <2>2, <2>3 DEF PayoffAsOf
    <3> QED
      BY <3>1 DEF Payoff, Balances, NoMoney
  <2> QED
    BY <1>6, <2>2, <2>3, <2>4, TimeAlone
<1> QED
  BY <1>7, <1>8

(* Every step of the loan: a payment dated today lowers today's payoff by   *)
(* its amount less the overpayment, whatever backdated rows the ledger      *)
(* holds, and installments are waived only when, without a backdated row,   *)
(* nothing is owed in any bucket.                                           *)
THEOREM PaymentsSettleTheDebt == Spec => PaymentSettlesDebt
<1>1. Spec => []Typed
  BY InitTyped, NextTyped, PTL DEF Spec
<1>2. Typed /\ [Next]_vars => PaymentMoves /\ WaiverSettles
  <2> SUFFICES ASSUME Typed, [Next]_vars PROVE PaymentMoves /\ WaiverSettles
    OBVIOUS
  <2>1. CASE PostPayment
    BY <2>1, PaymentIsExact
  <2>2. CASE ~PostPayment
    BY <2>2, OnlyPaymentsPay DEF PaymentMoves, WaiverSettles
  <2> QED
    BY <2>1, <2>2
<1>3. Spec => [][PaymentMoves /\ WaiverSettles]_vars
  BY <1>1, <1>2, PTL DEF Spec
<1>4. [PaymentMoves /\ WaiverSettles]_vars => [PaymentMoves]_vars /\ [WaiverSettles]_vars
  OBVIOUS
<1>5. Spec => [][PaymentMoves]_vars /\ [][WaiverSettles]_vars
  BY <1>3, <1>4, PTL
<1> QED
  BY <1>5 DEF PaymentSettlesDebt, PaymentMovesPayoff, SettledWhenWaived, PaymentMoves, WaiverSettles

---------------------------------------------------------------------------
(* The plan and the cash. *)

(* The model's sum is the one the counting lemmas speak of.                 *)
LEMMA SumOverIsSum ==
    ASSUME NEW S, IsFiniteSet(S), NEW f \in [S -> Nat]
    PROVE  SumOver(f) = SumOf(f, S)
<1> DEFINE iter == CHOOSE i : Adds(i, f, S)
<1>1. DOMAIN f = S /\ \A y \in S : f[y] \in Nat
  OBVIOUS
<1>2. SumOver(f) = iter[S]
  BY <1>1 DEF SumOver, FoldFunction, FoldFunctionOnSet, MapThenFoldSet, Adds, Pick
<1>3. Adds(iter, f, S)
  BY <1>1, SumAdds
<1> QED
  BY <1>1, <1>2, <1>3, AddsIsSum

(* A sum up to k is the sum up to k - 1 and the k-th weight.                *)
LEMMA SumUpTo ==
    ASSUME NEW n \in Nat, NEW k \in 1 .. n, NEW w, \A i \in 1 .. n : w[i] \in Nat
    PROVE  /\ SumOf(w, 1 .. k - 1) \in Nat /\ SumOf(w, 1 .. k) \in Nat
           /\ SumOf(w, 1 .. k) = SumOf(w, 1 .. k - 1) + w[k]
<1> DEFINE I == 1 .. k
           J == 1 .. k - 1
<1>1. IsFiniteSet(I) /\ IsFiniteSet(J)
  BY FS_Interval
<1>2. k \in I /\ I \ {k} = J /\ J \in SUBSET I /\ \A i \in I : i \in 1 .. n
  OBVIOUS
<1>3. \A i \in I : w[i] \in Nat
  BY <1>2
<1> HIDE DEF I, J
<1>4. SumOf(w, I) = w[k] + SumOf(w, J)
  BY <1>1, <1>2, <1>3, SumStep
<1>5. SumOf(w, I) \in Nat /\ SumOf(w, J) \in Nat /\ w[k] \in Nat
  BY <1>1, <1>2, <1>3, SumShrinks
<1>6. SumOf(w, I) = SumOf(w, J) + w[k]
  BY <1>4, <1>5
<1> QED
  BY <1>5, <1>6 DEF I, J

(* Larger weights add up to more.                                           *)
LEMMA SumBelow ==
    ASSUME NEW n \in Nat, NEW v, NEW w,
           \A i \in 1 .. n : v[i] \in Nat /\ w[i] \in Nat /\ v[i] <= w[i]
    PROVE  SumOf(v, 1 .. n) \in Nat /\ SumOf(w, 1 .. n) \in Nat
           /\ SumOf(v, 1 .. n) <= SumOf(w, 1 .. n)
<1> DEFINE S == {k \in 0 .. n : /\ SumOf(v, 1 .. k) \in Nat /\ SumOf(w, 1 .. k) \in Nat
                                 /\ SumOf(v, 1 .. k) <= SumOf(w, 1 .. k)}
<1>1. 0 \in S
  <2>1. 1 .. 0 = {}
    OBVIOUS
  <2>2. SumOf(v, 1 .. 0) = 0 /\ SumOf(w, 1 .. 0) = 0
    BY <2>1, SumOfNone
  <2> QED
    BY <2>2
<1>2. ASSUME NEW k \in 1 .. n, k - 1 \in S PROVE k \in S
  <2>1. PICK a \in Nat, b \in Nat : a = SumOf(v, 1 .. k - 1) /\ b = SumOf(w, 1 .. k - 1) /\ a <= b
    BY <1>2
  <2>2. PICK x \in Nat, y \in Nat : x = v[k] /\ y = w[k] /\ x <= y
    OBVIOUS
  <2>3. SumOf(v, 1 .. k) = a + x /\ SumOf(w, 1 .. k) = b + y
    BY <2>1, <2>2, SumUpTo
  <2>4. a + x <= b + y /\ a + x \in Nat /\ b + y \in Nat
    BY <2>1, <2>2
  <2>5. k \in 0 .. n
    OBVIOUS
  <2> QED
    BY <2>3, <2>4, <2>5
<1>3. \A k \in 0 .. n : k \in S
  <2> HIDE DEF S
  <2> QED
    BY <1>1, <1>2, UpFromZero
<1>4. n \in 0 .. n
  OBVIOUS
<1> QED
  BY <1>3, <1>4

(* Every settled installment is full: nothing was waived.                   *)
PaidInFull == \A i \in Items : schedule[i].status = "paid" => schedule[i].paid = Total[i]

(* The arithmetic of one installment: what leaves the payment enters the    *)
(* plan.                                                                    *)
LEMMA MovedOver ==
    ASSUME NEW a \in Nat, NEW b \in Nat, NEW p \in Nat, NEW t \in Nat, NEW l \in Nat,
           NEW m \in Nat, NEW x \in Nat, m = l - t, b + l = a + x
    PROVE  b + (p + t) + m = a + p + x /\ a + p \in Nat /\ b + (p + t) \in Nat
  OBVIOUS

(* The filling moves into the plan what it takes off the payment, and       *)
(* passes an installment by only when it is full.                           *)
Moves(left, old, new) ==
    \A i \in Items : old[i] = schedule[i].paid /\ new[i] = Filled(left, i).paid
SettledIsFull == \A i \in Items : schedule[i].status \in Settled => schedule[i].paid = Total[i]

(* Filling adds to the plan what the payment loses.                         *)
LEMMA FillAddsUp ==
    ASSUME PlanTyped, NEW amount \in Nat, NEW left, Drains(left, amount),
           NEW n \in Nat, Items = 1 .. n,
           NEW old, NEW new, Moves(left, old, new), SettledIsFull
    PROVE  \A k \in 0 .. n :
             /\ left[k] \in Nat
             /\ SumOf(old, 1 .. k) \in Nat /\ SumOf(new, 1 .. k) \in Nat
             /\ SumOf(new, 1 .. k) + left[k] = SumOf(old, 1 .. k) + amount
             /\ left[k] > 0 => \A i \in 1 .. k : new[i] = Total[i]
<1> DEFINE Sums(k) == /\ SumOf(old, 1 .. k) \in Nat /\ SumOf(new, 1 .. k) \in Nat
                      /\ SumOf(new, 1 .. k) + left[k] = SumOf(old, 1 .. k) + amount
           Full(k) == left[k] > 0 => \A i \in 1 .. k : new[i] = Total[i]
           S == {k \in 0 .. n : left[k] \in Nat /\ Sums(k) /\ Full(k)}
<1>1. 0 \in S
  <2>1. 1 .. 0 = {} /\ 0 \in 0 .. n
    OBVIOUS
  <2>2. SumOf(old, 1 .. 0) = 0 /\ SumOf(new, 1 .. 0) = 0
    BY <2>1, SumOfNone
  <2>3. left[0] = amount
    BY DEF Drains
  <2>4. 0 + amount = 0 + amount
    OBVIOUS
  <2> QED
    BY <2>1, <2>2, <2>3, <2>4
<1>2. ASSUME NEW k \in 1 .. n, k - 1 \in S PROVE k \in S
  <2>1. k \in Items /\ k \in 0 .. n
    OBVIOUS
  <2>2. PICK l \in Nat, m \in Nat, t \in Nat :
          l = left[k - 1] /\ m = left[k] /\ t = Takes(left[k - 1], k) /\ m = l - t /\ t <= l
    BY <2>1 DEF Drains
  <2>3. \A i \in Items : old[i] \in Nat /\ new[i] \in Nat
    <3> TAKE i \in Items
    <3>1. Filled(left, i) \in Installments
      BY FilledItem
    <3>2. Filled(left, i).paid \in Nat
      BY <3>1 DEF Installments
    <3> QED
      BY <3>2, PlanShape DEF Moves
  <2>4. old[k] = schedule[k].paid /\ new[k] = schedule[k].paid + t
    BY <2>1, <2>2, FilledItem DEF Moves
  <2>5. PICK p \in Nat : p = old[k]
    BY <2>1, <2>3
  <2>6. PICK a \in Nat, b \in Nat : a = SumOf(old, 1 .. k - 1) /\ b = SumOf(new, 1 .. k - 1)
                                    /\ b + l = a + amount
    BY <1>2, <2>2
  <2>7. SumOf(old, 1 .. k) = a + p /\ SumOf(new, 1 .. k) = b + (p + t)
    <3>1. new[k] = p + t
      BY <2>4, <2>5
    <3>2. \A i \in 1 .. n : old[i] \in Nat
      BY <2>3
    <3>3. \A i \in 1 .. n : new[i] \in Nat
      BY <2>3
    <3>4. SumOf(old, 1 .. k) = SumOf(old, 1 .. k - 1) + old[k]
      BY <3>2, SumUpTo
    <3>5. SumOf(new, 1 .. k) = SumOf(new, 1 .. k - 1) + new[k]
      BY <3>3, SumUpTo
    <3>6. SumOf(old, 1 .. k) = a + p
      BY <2>5, <2>6, <3>4
    <3>7. SumOf(new, 1 .. k) = b + (p + t)
      BY <2>6, <3>1, <3>5
    <3> QED
      BY <3>6, <3>7
  <2>8. b + (p + t) + m = a + p + amount /\ a + p \in Nat /\ b + (p + t) \in Nat
    <3>1. m = l - t
      BY <2>2
    <3>2. b + l = a + amount
      BY <2>6
    <3> QED
      BY <3>1, <3>2, MovedOver
  <2>9. Full(k)
    <3> SUFFICES ASSUME left[k] > 0, NEW i \in 1 .. k PROVE new[i] = Total[i]
      OBVIOUS
    <3>1. CASE i = k
      <4>1. schedule[k].status \in Settled => Filled(left, k) = schedule[k]
        BY <2>1, FilledItem
      <4>2. schedule[k].status \notin Settled => Filled(left, k).paid = Total[k]
        BY <2>1, FilledItem
      <4> QED
        BY <2>1, <3>1, <4>1, <4>2 DEF Moves, SettledIsFull
    <3>2. CASE i # k
      <4>1. i \in 1 .. k - 1 /\ l > 0
        BY <2>2, <3>2
      <4> QED
        BY <1>2, <2>2, <4>1
    <3> QED
      BY <3>1, <3>2
  <2> QED
    BY <2>1, <2>2, <2>7, <2>8, <2>9
<1>3. \A k \in 0 .. n : k \in S
  <2> HIDE DEF S
  <2> QED
    BY <1>1, <1>2, UpFromZero
<1> QED
  BY <1>3

(* The regular cash of a ledger, and of one with a row more.                *)
CashIn(row) == IF row.mode = "regular" THEN row.amount ELSE 0
IsCash(cash, rows) ==
    cash = [k \in 0 .. Len(rows) |-> IF k = 0 THEN 0 ELSE cash[k - 1] + CashIn(rows[k])]
CashOf(rows) == CHOOSE cash : IsCash(cash, rows)
TotalCash(rows) == CashOf(rows)[Len(rows)]

(* The model's count of regular cash, as the total of the ledger it is      *)
(* taken over.                                                              *)
LEMMA RegularCashIs == RegularCash = TotalCash(ledger)
  BY DEF RegularCash, TotalCash, CashOf, IsCash, CashIn

(* A row brings a natural amount of regular cash.                           *)
LEMMA CashTyped ==
    ASSUME NEW r \in LedgerRows
    PROVE  CashIn(r) \in Nat
<1>1. r.amount \in Nat
  BY DEF LedgerRows
<1> QED
  BY <1>1 DEF CashIn

(* The law of the running total.                                            *)
LEMMA CashLaw ==
    ASSUME NEW rows \in Seq(LedgerRows), NEW cash, cash = CashOf(rows)
    PROVE  /\ cash[0] = 0
           /\ \A k \in 1 .. Len(rows) : cash[k] = cash[k - 1] + CashIn(rows[k])
           /\ \A k \in 0 .. Len(rows) : cash[k] \in Nat
<1>1. PICK n \in Nat : n = Len(rows) /\ \A k \in 1 .. n : CashIn(rows[k]) \in Nat
  BY CashTyped, LedgerShape
<1> DEFINE g == [p \in Nat \X (1 .. n) |-> p[1] + CashIn(rows[p[2]])]
<1>2. \A w \in Nat, k \in 1 .. n : g[<<w, k>>] = w + CashIn(rows[k])
  OBVIOUS
<1>3. \A w \in Nat, k \in 1 .. n : w + CashIn(rows[k]) \in Nat
  BY <1>1
<1>4. \A w \in Nat, k \in 1 .. n : g[<<w, k>>] \in Nat
  BY <1>2, <1>3
<1>5. \E f \in [0 .. n -> Nat] : IsCash(f, rows)
  <2> HIDE DEF g
  <2>1. PICK f \in [0 .. n -> Nat] : Recurs(f, 0, g, n)
    BY <1>4, RecursionExists
  <2>2. \A k \in 0 .. n : k # 0 => k \in 1 .. n /\ k - 1 \in 0 .. n
    OBVIOUS
  <2>3. \A k \in 0 .. n : k # 0 => g[<<f[k - 1], k>>] = f[k - 1] + CashIn(rows[k])
    BY <1>2, <2>2
  <2>4. f = [k \in 0 .. n |-> IF k = 0 THEN 0 ELSE f[k - 1] + CashIn(rows[k])]
    BY <2>1, <2>3 DEF Recurs
  <2> QED
    BY <1>1, <2>4 DEF IsCash
<1>6. IsCash(cash, rows)
  BY <1>5 DEF CashOf
<1>7. cash[0] = 0 /\ \A k \in 1 .. n : cash[k] = cash[k - 1] + CashIn(rows[k])
  <2>1. 0 \in 0 .. n /\ \A k \in 1 .. n : k \in 0 .. n /\ k # 0
    OBVIOUS
  <2> QED
    BY <1>1, <1>6, <2>1 DEF IsCash
<1>8. \A k \in 0 .. n : Agrees(cash, cash, Nat, k)
  <2>1. Agrees(cash, cash, Nat, 0)
    BY <1>7 DEF Agrees
  <2>2. \A k \in 1 .. n : Agrees(cash, cash, Nat, k - 1) => Agrees(cash, cash, Nat, k)
    BY <1>3, <1>7 DEF Agrees
  <2> QED
    BY <2>1, <2>2, RecursionsAgree
<1> QED
  BY <1>1, <1>7, <1>8 DEF Agrees

(* A row appended adds what it brings.                                      *)
LEMMA CashAppend ==
    ASSUME NEW rows \in Seq(LedgerRows), NEW r \in LedgerRows
    PROVE  /\ TotalCash(rows) \in Nat
           /\ TotalCash(Append(rows, r)) = TotalCash(rows) + CashIn(r)
<1>1. PICK n \in Nat : n = Len(rows)
  OBVIOUS
<1>2. PICK more : more = Append(rows, r)
  OBVIOUS
<1>3. /\ more \in Seq(LedgerRows) /\ Len(more) = n + 1
      /\ \A k \in 1 .. n : more[k] = rows[k]
      /\ more[n + 1] = r
  BY <1>1, <1>2
<1>4. PICK f, h : f = CashOf(rows) /\ h = CashOf(more)
  OBVIOUS
<1>5. /\ f[0] = 0 /\ \A k \in 1 .. n : f[k] = f[k - 1] + CashIn(rows[k])
      /\ \A k \in 0 .. n : f[k] \in Nat
  BY <1>1, <1>4, CashLaw
<1>6. h[0] = 0 /\ \A k \in 1 .. n + 1 : h[k] = h[k - 1] + CashIn(more[k])
  BY <1>3, <1>4, CashLaw
<1>7. \A k \in 0 .. n : Agrees(f, h, Nat, k)
  <2>1. Agrees(f, h, Nat, 0)
    BY <1>5, <1>6 DEF Agrees
  <2>2. ASSUME NEW k \in 1 .. n, Agrees(f, h, Nat, k - 1) PROVE Agrees(f, h, Nat, k)
    <3>1. k \in 1 .. n + 1 /\ k \in 0 .. n
      OBVIOUS
    <3> QED
      BY <1>3, <1>5, <1>6, <2>2, <3>1 DEF Agrees
  <2> QED
    BY <2>1, <2>2, RecursionsAgree
<1>8. n \in 0 .. n /\ n + 1 \in 1 .. n + 1 /\ (n + 1) - 1 = n
  OBVIOUS
<1>9. f[n] \in Nat /\ h[n] = f[n]
  BY <1>7, <1>8 DEF Agrees
<1>10. h[n + 1] = h[n] + CashIn(r)
  BY <1>3, <1>6, <1>8
<1> QED
  BY <1>1, <1>2, <1>3, <1>4, <1>9, <1>10 DEF TotalCash

---------------------------------------------------------------------------
(* The plan takes every cent of regular cash, oldest first. *)

PlanInv == PaidInFull /\ PlanTakesCash
PaidOf(sch) == [i \in Items |-> sch[i].paid]

(* What the installments hold are naturals.                                 *)
LEMMA PaidTyped ==
    ASSUME NEW sch \in [Items -> Installments]
    PROVE  PaidOf(sch) \in [Items -> Nat]
<1>1. \A i \in Items : sch[i].paid \in Nat
  BY DEF Installments
<1> QED
  BY <1>1 DEF PaidOf

(* The arithmetic of one more payment p into a plan of total t that holds   *)
(* s, the lesser of the cash c and t, and then s2.                          *)
LEMMA LesserOfCash ==
    ASSUME NEW s \in Nat, NEW s2 \in Nat, NEW c \in Nat, NEW t \in Nat, NEW p \in Nat,
           NEW l \in Nat, s = Lesser(c, t), s2 + l = s + p, s2 <= t, l > 0 => s2 = t
    PROVE  s2 = Lesser(c + p, t)
  BY DEF Lesser

(* A regular payment, with nothing waived.                                  *)
LEMMA RegularPayment ==
    ASSUME PlanTyped, PlanInv, NothingWaived, NEW amount \in Nat,
           NEW sch, sch = FillPlan(amount), RegularCash \in Nat
    PROVE  /\ SumOver(PaidOf(sch)) = Lesser(RegularCash + amount, SumOver(Total))
           /\ \A i, j \in Items : i < j /\ sch[j].paid > 0 => sch[i].paid = Total[i]
<1>1. PICK n \in Nat : n = Cardinality(Items) /\ Items = 1 .. n /\ IsFiniteSet(Items)
  BY LoanAssumption, FS_CardinalityType
<1>2. PICK left : left = LeftOf(amount)
  OBVIOUS
<1>3. Drains(left, amount)
  BY <1>2, LeftLaw
<1>4. sch = [i \in Items |-> Filled(left, i)]
  BY <1>2, FillPlanByLeft
<1>5. sch \in [Items -> Installments] /\ \A i \in Items : sch[i].paid <= Total[i]
  BY <1>3, <1>4, FilledItem
<1>6. PICK old, new : old = PaidOf(schedule) /\ new = PaidOf(sch)
  OBVIOUS
<1>7. old \in [Items -> Nat] /\ new \in [Items -> Nat] /\ Total \in [Items -> Nat]
  BY <1>5, <1>6, PaidTyped, LoanAssumption DEF PlanTyped
<1>8. \A i \in Items : /\ old[i] = schedule[i].paid
                       /\ new[i] = Filled(left, i).paid
                       /\ new[i] = sch[i].paid
  BY <1>4, <1>6 DEF PaidOf
<1>9. SettledIsFull
  BY DEF PlanInv, PaidInFull, NothingWaived, Settled, SettledIsFull
<1>10. \A k \in 0 .. n : /\ left[k] \in Nat
                         /\ SumOf(old, 1 .. k) \in Nat /\ SumOf(new, 1 .. k) \in Nat
                         /\ SumOf(new, 1 .. k) + left[k] = SumOf(old, 1 .. k) + amount
                         /\ left[k] > 0 => \A i \in 1 .. k : new[i] = Total[i]
  <2>1. Moves(left, old, new)
    BY <1>8 DEF Moves
  <2> QED
    BY <1>1, <1>3, <1>9, <2>1, FillAddsUp
<1>11. SumOver(PaidOf(sch)) = Lesser(RegularCash + amount, SumOver(Total))
  <2>1. SumOver(old) = SumOf(old, 1 .. n) /\ SumOver(new) = SumOf(new, 1 .. n)
        /\ SumOver(Total) = SumOf(Total, 1 .. n)
    BY <1>1, <1>7, SumOverIsSum
  <2>2. SumOf(new, 1 .. n) <= SumOf(Total, 1 .. n) /\ SumOf(Total, 1 .. n) \in Nat
    <3>1. \A i \in 1 .. n : new[i] \in Nat /\ Total[i] \in Nat /\ new[i] <= Total[i]
      BY <1>1, <1>5, <1>7, <1>8
    <3> QED
      BY <3>1, SumBelow
  <2>3. PICK s \in Nat, s2 \in Nat, t \in Nat, l \in Nat, c \in Nat :
          /\ s = SumOf(old, 1 .. n) /\ s2 = SumOf(new, 1 .. n) /\ t = SumOf(Total, 1 .. n)
          /\ l = left[n] /\ c = RegularCash
          /\ s2 + l = s + amount /\ s2 <= t
    <3>1. n \in 0 .. n
      OBVIOUS
    <3> QED
      BY <1>10, <2>2, <3>1
  <2>4. s = Lesser(c, t)
    <3>1. SumOver(old) = Lesser(RegularCash, SumOver(Total))
      BY <1>6 DEF PlanInv, PlanTakesCash, PlanAbsorbsRegularCash, PaidOf
    <3> QED
      BY <2>1, <2>3, <3>1
  <2>5. ASSUME l > 0 PROVE s2 = t
    <3>1. \A i \in 1 .. n : new[i] = Total[i]
      BY <1>10, <2>3, <2>5
    <3>2. SumOf(new, 1 .. n) = SumOf(Total, 1 .. n)
      BY <3>1, SumSame
    <3>3. s2 = SumOf(new, 1 .. n) /\ t = SumOf(Total, 1 .. n)
      BY <2>3
    <3> QED
      BY <3>2, <3>3
  <2>6. s2 = Lesser(c + amount, t)
    <3>1. s2 + l = s + amount /\ s2 <= t
      BY <2>3
    <3> QED
      BY <2>4, <2>5, <3>1, LesserOfCash
  <2> QED
    BY <1>6, <2>1, <2>3, <2>6
<1>12. ASSUME NEW i \in Items, NEW j \in Items, i < j, sch[j].paid > 0
       PROVE  sch[i].paid = Total[i]
  <2>1. sch[j].paid = schedule[j].paid + Takes(left[j - 1], j)
        /\ sch[i].paid = schedule[i].paid + Takes(left[i - 1], i)
    BY <1>3, <1>4, FilledItem
  <2>2. PICK p \in Nat, q \in Nat, k \in Nat, m \in Nat, l \in Nat, t \in Nat :
          /\ p = schedule[j].paid /\ q = schedule[i].paid /\ k = Takes(left[j - 1], j)
          /\ m = Takes(left[i - 1], i) /\ l = left[j - 1] /\ k <= l /\ t = Total[i]
    BY <1>3, PlanShape DEF Drains
  <2>3. CASE p > 0
    <3>1. q = t
      BY <1>12, <2>2, <2>3 DEF PlanInv, PlanTakesCash, OldestFirst
    <3>2. q + m <= t
      BY <1>5, <2>1, <2>2
    <3> QED
      BY <2>1, <2>2, <3>1, <3>2
  <2>4. CASE p = 0
    <3>1. l > 0
      BY <1>12, <2>1, <2>2, <2>4
    <3>2. j - 1 \in 0 .. n /\ i \in 1 .. j - 1
      <4>1. i \in 1 .. n /\ j \in 1 .. n /\ i < j
        BY <1>1, <1>12
      <4> QED
        BY <4>1
    <3>3. new[i] = Total[i]
      BY <1>10, <2>2, <3>1, <3>2
    <3> QED
      BY <1>8, <3>3
  <2> QED
    BY <2>2, <2>3, <2>4
<1> QED
  BY <1>11, <1>12

---------------------------------------------------------------------------
(* The nightly job on its own: while it runs nothing else does. *)

(* What is late is overdue; what the job read is still overdue and not      *)
(* settled; and once it decides to leave an active loan alone, the loan has *)
(* nothing late.                                                            *)
LateIsOverdue == \A i \in Items : schedule[i].status = "late" => Due[i] < day
NoneLate      == \A i \in Items : schedule[i].status # "late"
ReadStands    == aging.phase # "idle" =>
                   \A i \in aging.items : schedule[i].status \in Ageable /\ Due[i] < day
IdleInv       == aging.phase = "idle" /\ status = "active" => NoneLate
MarkInv       == aging.phase = "loan" /\ status = "active" /\ ~aging.mark
                   => aging.items = {} /\ NoneLate
AgingInv == LateIsOverdue /\ ReadStands /\ IdleInv /\ MarkInv

(* A new loan has no late installment and no pass under way.                *)
LEMMA InitAging == Init => AgingInv
  BY DEF Init, AgingInv, LateIsOverdue, NoneLate, ReadStands, IdleInv, MarkInv, AgingIdle

(* What a payment makes of the statuses.                                    *)
LEMMA StatusesAfterPayment ==
    ASSUME Typed, PostPayment
    PROVE  /\ \A i \in Items : schedule[i].status \in Settled => schedule'[i] = schedule[i]
           /\ \A i \in Items : schedule'[i].status = "late" => schedule[i].status = "late"
           /\ status' = "active" /\ LateIsOverdue =>
                \/ status = "active"
                \/ \A i \in Items : schedule'[i].status # "late"
<1>1. PICK mode \in Modes, amount \in Nat, eff \in Nat :
        mode = posting.mode /\ amount = posting.amount /\ eff = posting.eff
  BY Posted
<1>2. RecordPayment(mode, amount, eff)
  BY <1>1, Posted
<1>3. PICK r : r = PaymentRow(mode, amount, eff)
  OBVIOUS
<1>4. PICK sch : sch = FillOf(mode, amount)
  OBVIOUS
<1>5. PICK cleared \in BOOLEAN : cleared = (PayoffAsOf(Append(ledger, r), eff) = 0)
  OBVIOUS
<1>6. /\ schedule' = IF cleared THEN WaiveOpen(sch) ELSE sch
      /\ status' = StatusAfterPayment(cleared, sch)
  <2>1. /\ schedule' = IF PayoffAsOf(Append(ledger, r), eff) = 0
                       THEN WaiveOpen(FillOf(mode, amount)) ELSE FillOf(mode, amount)
        /\ status' = StatusAfterPayment(PayoffAsOf(Append(ledger, r), eff) = 0,
                                         FillOf(mode, amount))
    BY <1>2, <1>3, PaymentWrites
  <2> QED
    BY <1>4, <1>5, <2>1
<1>7. /\ sch \in [Items -> Installments]
      /\ \A i \in Items : sch[i] = schedule[i] \/ sch[i].status \in {"paid", "partial"}
      /\ \A i \in Items : schedule[i].status \in Settled => sch[i] = schedule[i]
  BY <1>4, FillTyped DEF Typed
<1>8. PICK w : w = WaiveOpen(sch)
  OBVIOUS
<1>9. \A i \in Items : /\ w[i].status \in Settled
                       /\ sch[i].status \in Settled => w[i] = sch[i]
  BY <1>7, <1>8, WaiveTyped
<1>10. \A i \in Items : schedule[i].status \in Settled => schedule'[i] = schedule[i]
  BY <1>6, <1>7, <1>8, <1>9
<1>11. \A i \in Items : sch[i].status = "late" => schedule[i].status = "late"
  BY <1>7
<1>12. \A i \in Items : schedule'[i].status = "late" => schedule[i].status = "late"
  BY <1>6, <1>8, <1>9, <1>11 DEF Settled
<1>13. ASSUME status' = "active", status # "active", LateIsOverdue, NEW i \in Items,
              schedule'[i].status = "late"
       PROVE  FALSE
  <2>1. ~cleared /\ ~HasOverdueUnpaid(sch)
    BY <1>6, <1>13 DEF StatusAfterPayment
  <2>2. sch[i].status = "late" /\ Due[i] < day
    BY <1>6, <1>12, <1>13, <2>1 DEF LateIsOverdue
  <2> QED
    BY <2>1, <2>2 DEF HasOverdueUnpaid, Settled
<1> QED
  BY <1>10, <1>12, <1>13

(* What the other writers of the plan make of it.                           *)
LEMMA StatusesAfterSurgery ==
    ASSUME Typed, NEW i \in Items, SuspendInstallment(i) \/ UnsuspendInstallment(i)
    PROVE  /\ \A j \in Items : schedule'[j].paid = schedule[j].paid
           /\ schedule[i].status \notin Settled /\ schedule'[i].status \notin Settled
           /\ schedule'[i].status # "late"
           /\ \A j \in Items \ {i} : schedule'[j] = schedule[j]
<1>1. PICK s \in ItemStatuses \ (Settled \cup {"late"}) :
        schedule' = [schedule EXCEPT ![i].status = s]
  <2>1. CASE SuspendInstallment(i)
    <3>1. "suspended" \in ItemStatuses \ (Settled \cup {"late"})
      BY DEF ItemStatuses, Settled
    <3> QED
      BY <2>1, <3>1 DEF SuspendInstallment
  <2>2. CASE UnsuspendInstallment(i)
    <3>1. PICK s \in ItemStatuses \ (Settled \cup {"late"}) :
            s = IF schedule[i].paid > 0 THEN "partial" ELSE "scheduled"
      BY DEF ItemStatuses, Settled
    <3> QED
      BY <2>2, <3>1 DEF UnsuspendInstallment
  <2> QED
    BY <2>1, <2>2
<1>2. schedule[i].status \notin Settled
  BY DEF SuspendInstallment, UnsuspendInstallment, Suspendable, Settled
<1>3. s \in ItemStatuses /\ s \notin Settled /\ s # "late" /\ PlanTyped
  BY DEF Typed
<1>4. /\ \A j \in Items : schedule'[j].paid = schedule[j].paid
      /\ schedule'[i].status = s
      /\ \A j \in Items \ {i} : schedule'[j] = schedule[j]
  BY <1>1, <1>3, OneInstallment
<1> QED
  BY <1>2, <1>3, <1>4

(* The pass writes late on what it read, and nothing else.                  *)
LEMMA StatusesAfterCommit ==
    ASSUME Typed, AgingCommit
    PROVE  \A i \in Items : /\ schedule'[i].paid = schedule[i].paid
                            /\ i \in aging.items => schedule'[i].status = "late"
                            /\ i \notin aging.items => schedule'[i] = schedule[i]
<1> TAKE i \in Items
<1>1. PICK x \in Installments : x = schedule[i]
  BY DEF Typed, PlanTyped
<1>2. [x EXCEPT !.status = "late"].status = "late" /\ [x EXCEPT !.status = "late"].paid = x.paid
  BY DEF Installments
<1> QED
  BY <1>1, <1>2 DEF AgingCommit

(* Every step keeps AgingInv when the job overlaps no other writer: what    *)
(* the job read still stands when it writes.                                *)
LEMMA NextAging ==
    ASSUME ~AgingOverlaps, Typed, AgingInv, [Next]_vars
    PROVE  AgingInv'
<1>1. aging \in AgingRuns /\ day \in Nat /\ \A i \in Items : Due[i] \in Nat
  BY LoanAssumption DEF Typed, RestTyped, BooksTyped
<1>2. CASE PostPayment
  <2>1. aging.phase = "idle" /\ aging' = aging /\ day' = day
    BY <1>2, Posted DEF PostPayment, Quiet
  <2>2. LateIsOverdue'
    BY <1>2, <2>1, StatusesAfterPayment DEF AgingInv, LateIsOverdue
  <2>3. status' = "active" => NoneLate'
    <3> SUFFICES ASSUME status' = "active" PROVE NoneLate'
      OBVIOUS
    <3>1. CASE status = "active"
      <4>1. NoneLate
        BY <2>1, <3>1 DEF AgingInv, IdleInv
      <4> QED
        BY <1>2, <4>1, StatusesAfterPayment DEF NoneLate
    <3>2. CASE status # "active"
      BY <1>2, <3>2, StatusesAfterPayment DEF NoneLate, AgingInv
    <3> QED
      BY <3>1, <3>2
  <2> QED
    BY <2>1, <2>2, <2>3 DEF AgingInv, ReadStands, IdleInv, MarkInv
<1>3. CASE \E i \in Items : SuspendInstallment(i) \/ UnsuspendInstallment(i)
  <2>1. PICK i \in Items : SuspendInstallment(i) \/ UnsuspendInstallment(i)
    BY <1>3
  <2>2. aging.phase = "idle" /\ aging' = aging /\ day' = day /\ status' = status
    BY <2>1 DEF SuspendInstallment, UnsuspendInstallment, Quiet
  <2>3. schedule'[i].status # "late" /\ \A j \in Items \ {i} : schedule'[j] = schedule[j]
    BY <2>1, StatusesAfterSurgery
  <2>4. LateIsOverdue' /\ (NoneLate => NoneLate')
    BY <2>2, <2>3 DEF AgingInv, LateIsOverdue, NoneLate
  <2> QED
    BY <2>2, <2>4 DEF AgingInv, ReadStands, IdleInv, MarkInv
<1>4. CASE AgingReadItems
  <2>1. /\ aging'.phase = "items" /\ schedule' = schedule /\ day' = day /\ status' = status
        /\ aging'.items = {i \in Items : Due[i] < day /\ schedule[i].status \in Ageable}
    BY <1>4 DEF AgingReadItems
  <2> QED
    BY <2>1 DEF AgingInv, LateIsOverdue, ReadStands, IdleInv, MarkInv
<1>5. CASE AgingReadLoan
  <2>1. PICK m \in BOOLEAN : m = (/\ status = "active"
                                  /\ aging.items # {} \/ \E i \in Items : schedule[i].status = "late")
    OBVIOUS
  <2>2. aging.phase = "items" /\ aging' = [aging EXCEPT !.phase = "loan", !.mark = m]
    BY <1>5, <2>1 DEF AgingReadLoan
  <2>3. aging'.phase = "loan" /\ aging'.mark = m /\ aging'.items = aging.items
    BY <1>1, <2>2 DEF AgingRuns
  <2>4. schedule' = schedule /\ day' = day /\ status' = status
    BY <1>5 DEF AgingReadLoan
  <2> QED
    BY <2>1, <2>2, <2>3, <2>4
       DEF AgingInv, LateIsOverdue, ReadStands, IdleInv, MarkInv, NoneLate
<1>6. CASE AgingCommit
  <2>1. /\ aging.phase = "loan" /\ day' = day /\ aging'.phase = "idle"
        /\ status' = IF aging.mark THEN "delinquent" ELSE status
    BY <1>6 DEF AgingCommit, AgingIdle
  <2>2. \A i \in Items : /\ i \in aging.items => schedule'[i].status = "late"
                         /\ i \notin aging.items => schedule'[i] = schedule[i]
    BY <1>6, StatusesAfterCommit
  <2>3. LateIsOverdue'
    BY <2>1, <2>2 DEF AgingInv, LateIsOverdue, ReadStands
  <2>4. IdleInv'
    <3> SUFFICES ASSUME status' = "active" PROVE NoneLate'
      BY DEF IdleInv
    <3>1. aging.items = {} /\ NoneLate
      BY <2>1 DEF AgingInv, MarkInv
    <3> QED
      BY <2>2, <3>1 DEF NoneLate
  <2> QED
    BY <2>1, <2>3, <2>4 DEF AgingInv, ReadStands, MarkInv
<1>7. CASE NextDay
  <2>1. /\ aging.phase = "idle" /\ aging' = aging /\ schedule' = schedule /\ status' = status
        /\ day' = day + 1
    BY <1>7 DEF NextDay
  <2>2. \A i \in Items : Due[i] < day => Due[i] < day + 1
    BY <1>1
  <2> QED
    BY <2>1, <2>2 DEF AgingInv, LateIsOverdue, ReadStands, IdleInv, MarkInv, NoneLate
<1>8. CASE GatePosting \/ RejectPosting \/ ChargeFee \/ UNCHANGED vars
  <2>1. aging' = aging /\ schedule' = schedule /\ status' = status /\ day' = day
    BY <1>8 DEF GatePosting, RejectPosting, ChargeFee, vars
  <2> QED
    BY <2>1 DEF AgingInv, LateIsOverdue, ReadStands, IdleInv, MarkInv, NoneLate
<1>9. CASE ChargeOff
  <2>1. aging' = aging /\ schedule' = schedule /\ status' = "charged_off" /\ day' = day
    BY <1>9 DEF ChargeOff
  <2> QED
    BY <2>1 DEF AgingInv, LateIsOverdue, ReadStands, IdleInv, MarkInv, NoneLate
<1> QED
  BY <1>2, <1>3, <1>4, <1>5, <1>6, <1>7, <1>8, <1>9 DEF Next

(* So it always holds.                                                      *)
LEMMA AgingHolds == ~AgingOverlaps => (Spec => [](Typed /\ AgingInv))
<1> SUFFICES ASSUME ~AgingOverlaps PROVE Spec => [](Typed /\ AgingInv)
  OBVIOUS
<1> QED
  BY InitTyped, NextTyped, InitAging, NextAging, PTL DEF Spec

(* Where the nightly job's transaction overlaps no other writer, an active  *)
(* loan carries no late installment between two passes of it, through any   *)
(* order of payments, cures, suspensions, releases and days.                *)
THEOREM NoLateDebtWhileActive == ~AgingOverlaps => (Spec => []ActiveLoanHasNoLateDebt)
<1>1. Typed /\ AgingInv => ActiveLoanHasNoLateDebt
  BY DEF AgingInv, IdleInv, NoneLate, ActiveLoanHasNoLateDebt
<1>2. ~AgingOverlaps => (Spec => [](Typed /\ AgingInv))
  BY AgingHolds
<1> QED
  BY <1>1, <1>2, PTL

---------------------------------------------------------------------------
(* The plan and the cash, step by step. *)

(* RegularCashIs, after a step.                                             *)
LEMMA RegularCashNext == RegularCash' = TotalCash(ledger')
  BY DEF RegularCash, TotalCash, CashOf, IsCash, CashIn

(* An empty ledger has paid no installment.                                 *)
LEMMA InitPlan == Init => PlanInv
<1> SUFFICES ASSUME Init PROVE PlanInv
  OBVIOUS
<1>1. ledger = << >> /\ \A i \in Items : schedule[i].paid = 0 /\ schedule[i].status = "scheduled"
  BY DEF Init
<1>2. PICK n \in Nat : n = Cardinality(Items) /\ Items = 1 .. n /\ IsFiniteSet(Items)
  BY LoanAssumption, FS_CardinalityType
<1>3. PICK w : w = PaidOf(schedule)
  OBVIOUS
<1>4. w \in [Items -> Nat] /\ \A i \in Items : w[i] = 0
  BY <1>1, <1>3 DEF PaidOf
<1>5. SumOf(w, Items) = 0
  <2>1. Units(w, Items) = {}
    <3>1. \A i \in Items : UnitsOf(i, w[i]) = {}
      BY <1>4 DEF UnitsOf
    <3> QED
      BY <3>1 DEF Units
  <2> QED
    BY <2>1, FS_EmptySet DEF SumOf
<1>6. SumOver(w) = 0
  BY <1>2, <1>4, <1>5, SumOverIsSum
<1>7. RegularCash = 0
  <2>1. << >> \in Seq(LedgerRows) /\ Len(<< >>) = 0
    OBVIOUS
  <2>2. CashOf(<< >>)[0] = 0
    BY <2>1, CashLaw
  <2> QED
    BY <1>1, <2>1, <2>2, RegularCashIs DEF TotalCash
<1>8. SumOver(Total) \in Nat
  <2>1. Total \in [Items -> Nat] /\ \A i \in Items : Total[i] \in Nat
    BY LoanAssumption
  <2>2. SumOver(Total) = SumOf(Total, Items)
    BY <1>2, <2>1, SumOverIsSum
  <2> QED
    BY <1>2, <2>1, <2>2, UnitsFinite
<1>9. 0 = Lesser(0, SumOver(Total))
  BY <1>8 DEF Lesser
<1>10. PlanAbsorbsRegularCash
  BY <1>3, <1>6, <1>7, <1>9 DEF PlanAbsorbsRegularCash, PaidOf
<1>11. OldestFirst
  BY <1>1 DEF OldestFirst
<1> QED
  BY <1>1, <1>10, <1>11 DEF PlanInv, PaidInFull, PlanTakesCash

(* A step that neither takes cash nor touches what an installment holds.    *)
LEMMA PlanStands ==
    ASSUME PlanInv, RegularCash' = RegularCash, NothingWaived' => NothingWaived,
           \A i \in Items : schedule'[i].paid = schedule[i].paid,
           \A i \in Items : schedule'[i].status = "paid" => schedule[i].status = "paid"
    PROVE  PlanInv'
<1>1. PaidInFull'
  BY DEF PlanInv, PaidInFull
<1>2. PaidOf(schedule)' = PaidOf(schedule)
  BY DEF PaidOf
<1>3. PlanAbsorbsRegularCash'
  BY <1>2 DEF PlanInv, PlanTakesCash, PlanAbsorbsRegularCash, PaidOf
<1>4. OldestFirst'
  BY DEF PlanInv, PlanTakesCash, OldestFirst
<1> QED
  BY <1>1, <1>3, <1>4 DEF PlanInv, PlanTakesCash

(* A posted payment keeps PlanInv: in regular mode through the filling, in  *)
(* the others because the plan stands.                                      *)
LEMMA PlanAfterPost ==
    ASSUME Typed, PlanInv, PostPayment
    PROVE  PlanInv'
<1>1. PICK mode \in Modes, amount \in Nat, eff \in Nat :
        mode = posting.mode /\ amount = posting.amount /\ eff = posting.eff
  BY Posted
<1>2. RecordPayment(mode, amount, eff)
  BY <1>1, Posted
<1>3. PICK r : r = PaymentRow(mode, amount, eff)
  OBVIOUS
<1>4. PICK sch : sch = FillOf(mode, amount)
  OBVIOUS
<1>5. PICK w : w = WaiveOpen(sch)
  OBVIOUS
<1>6. /\ Accepts(mode, amount, LoanBalances(ledger, eff))
      /\ ledger' = Append(ledger, r)
      /\ schedule' = w \/ schedule' = sch
  <2>1. /\ Accepts(mode, amount, LoanBalances(ledger, eff))
        /\ ledger' = Append(ledger, r)
        /\ schedule' = IF PayoffAsOf(Append(ledger, r), eff) = 0
                       THEN WaiveOpen(FillOf(mode, amount)) ELSE FillOf(mode, amount)
    BY <1>2, <1>3, PaymentWrites
  <2> QED
    BY <1>4, <1>5, <2>1
<1>7. r \in LedgerRows /\ r.mode = mode /\ r.amount = amount
  <2>1. BooksTyped /\ Accepts(mode, amount, LoanBalances(ledger, eff))
    BY <1>6 DEF Typed
  <2>2. /\ r \in LedgerRows
        /\ r.type = "payment" /\ r.mode = mode /\ r.amount = amount /\ r.eff = eff
    BY <1>3, <2>1, RowTyped
  <2> QED
    BY <2>2
<1>8. RegularCash \in Nat /\ RegularCash' = RegularCash + CashIn(r)
  <2>1. ledger \in Seq(LedgerRows)
    BY DEF Typed, BooksTyped
  <2>2. TotalCash(ledger) \in Nat /\ TotalCash(Append(ledger, r)) = TotalCash(ledger) + CashIn(r)
    BY <1>7, <2>1, CashAppend
  <2>3. RegularCash' = TotalCash(ledger')
    BY RegularCashNext
  <2>4. TotalCash(ledger') = TotalCash(Append(ledger, r))
    BY <1>6
  <2> QED
    BY <2>2, <2>3, <2>4, RegularCashIs
<1>9. /\ sch \in [Items -> Installments]
      /\ \A i \in Items : sch[i] = schedule[i] \/ sch[i].status \in {"paid", "partial"}
      /\ \A i \in Items : schedule[i].status \in Settled => sch[i] = schedule[i]
  BY <1>4, FillTyped DEF Typed
<1>10. \A i \in Items : /\ w[i].paid = sch[i].paid
                        /\ sch[i].status \in Settled => w[i] = sch[i]
                        /\ sch[i].status \notin Settled => w[i].status = "waived"
  BY <1>5, <1>9, WaiveTyped
<1>11. \A i \in Items : schedule'[i].paid = sch[i].paid
  BY <1>6, <1>10
<1>12. NothingWaived' => NothingWaived
  BY <1>6, <1>9, <1>10 DEF NothingWaived, Settled
<1>13. \A i \in Items : schedule'[i].status = "paid" => sch[i].status = "paid"
  BY <1>6, <1>10 DEF Settled
<1>14. CASE mode = "regular"
  <2>1. sch = FillPlan(amount) /\ CashIn(r) = amount
    BY <1>4, <1>7, <1>14 DEF FillOf, CashIn
  <2>2. PaidInFull'
    <3> SUFFICES ASSUME NEW i \in Items, schedule'[i].status = "paid"
                 PROVE  schedule'[i].paid = Total[i]
      BY DEF PaidInFull
    <3>1. sch[i].status = "paid" /\ schedule'[i].paid = sch[i].paid
      BY <1>11, <1>13
    <3>2. PICK left : left = LeftOf(amount)
      OBVIOUS
    <3>3. Drains(left, amount) /\ sch[i] = Filled(left, i)
      BY <2>1, <3>2, LeftLaw, FillPlanByLeft DEF Typed
    <3>4. sch[i] # schedule[i] => sch[i].paid = Total[i]
      BY <3>1, <3>3, FilledItem DEF Typed
    <3> QED
      BY <3>1, <3>4 DEF PlanInv, PaidInFull
  <2>3. ASSUME NothingWaived'
        PROVE  /\ SumOver(PaidOf(schedule)') = Lesser(RegularCash', SumOver(Total))
               /\ \A i, j \in Items : i < j /\ schedule'[j].paid > 0 => schedule'[i].paid = Total[i]
    <3>1. PaidOf(schedule)' = PaidOf(sch)
      BY <1>11 DEF PaidOf
    <3>2. /\ SumOver(PaidOf(sch)) = Lesser(RegularCash + amount, SumOver(Total))
          /\ \A i, j \in Items : i < j /\ sch[j].paid > 0 => sch[i].paid = Total[i]
      BY <1>8, <1>12, <2>1, <2>3, RegularPayment DEF Typed
    <3> QED
      BY <1>8, <1>11, <2>1, <3>1, <3>2
  <2> QED
    BY <2>2, <2>3 DEF PlanInv, PlanTakesCash, PlanAbsorbsRegularCash, OldestFirst, PaidOf
<1>15. CASE mode # "regular"
  <2>1. sch = schedule /\ CashIn(r) = 0
    BY <1>4, <1>7, <1>15 DEF FillOf, CashIn
  <2>2. RegularCash' = RegularCash
    BY <1>8, <2>1
  <2> QED
    BY <1>11, <1>12, <1>13, <2>1, <2>2, PlanStands
<1> QED
  BY <1>14, <1>15

(* Every step keeps PlanInv.                                                *)
LEMMA NextPlan ==
    ASSUME ~AgingOverlaps, Typed, AgingInv, PlanInv, [Next]_vars
    PROVE  PlanInv'
<1>1. ledger \in Seq(LedgerRows)
  BY DEF Typed, BooksTyped
<1>2. CASE PostPayment
  BY <1>2, PlanAfterPost
<1>3. CASE ChargeFee
  <2>1. PICK fee \in FeeAmounts :
          ledger' = Append(ledger, [type |-> "fee", mode |-> "none", eff |-> day, amount |-> fee,
                                    split |-> [NoMoney EXCEPT !.addOn = fee]])
    BY <1>3 DEF ChargeFee
  <2>2. PICK r : r = [type |-> "fee", mode |-> "none", eff |-> day, amount |-> fee,
                      split |-> [NoMoney EXCEPT !.addOn = fee]]
    OBVIOUS
  <2>3. fee \in Nat /\ day \in Nat
    BY LoanAssumption DEF Typed, BooksTyped
  <2>4. r \in LedgerRows /\ r.mode = "none"
    BY <2>2, <2>3 DEF LedgerRows, NoMoney, Balances
  <2>5. CashIn(r) = 0
    BY <2>4 DEF CashIn
  <2>6. RegularCash' = RegularCash
    <3>1. TotalCash(ledger) \in Nat /\ TotalCash(Append(ledger, r)) = TotalCash(ledger) + 0
      BY <1>1, <2>4, <2>5, CashAppend
    <3>2. RegularCash' = TotalCash(ledger')
      BY RegularCashNext
    <3>3. TotalCash(ledger') = TotalCash(Append(ledger, r))
      BY <2>1, <2>2
    <3> QED
      BY <3>1, <3>2, <3>3, RegularCashIs
  <2>7. schedule' = schedule
    BY <1>3 DEF ChargeFee
  <2> QED
    BY <2>6, <2>7, PlanStands DEF NothingWaived
<1>4. CASE ~PostPayment /\ ~ChargeFee
  <2>1. ledger' = ledger
    BY <1>4 DEF Next, GatePosting, RejectPosting, ChargeOff, AgingReadItems, AgingReadLoan,
                AgingCommit, SuspendInstallment, UnsuspendInstallment, NextDay, book, vars
  <2>2. RegularCash' = RegularCash
    BY <2>1 DEF RegularCash
  <2>3. CASE \E i \in Items : SuspendInstallment(i) \/ UnsuspendInstallment(i)
    <3>1. PICK i \in Items : SuspendInstallment(i) \/ UnsuspendInstallment(i)
      BY <2>3
    <3>2. /\ \A j \in Items : schedule'[j].paid = schedule[j].paid
          /\ schedule[i].status \notin Settled /\ schedule'[i].status \notin Settled
          /\ \A j \in Items \ {i} : schedule'[j] = schedule[j]
      BY <3>1, StatusesAfterSurgery
    <3> QED
      BY <2>2, <3>2, PlanStands DEF NothingWaived, Settled
  <2>4. CASE AgingCommit
    <3>1. \A i \in Items : /\ schedule'[i].paid = schedule[i].paid
                           /\ i \in aging.items => schedule'[i].status = "late"
                           /\ i \notin aging.items => schedule'[i] = schedule[i]
      BY <2>4, StatusesAfterCommit
    <3>2. \A i \in aging.items : schedule[i].status \in Ageable
      BY <2>4 DEF AgingCommit, AgingInv, ReadStands
    <3>3. NothingWaived' => NothingWaived
      BY <3>1, <3>2 DEF NothingWaived, Ageable
    <3>4. \A i \in Items : schedule'[i].status = "paid" => schedule[i].status = "paid"
      BY <3>1
    <3> QED
      BY <2>2, <3>1, <3>3, <3>4, PlanStands
  <2>5. CASE ~AgingCommit /\ ~\E i \in Items : SuspendInstallment(i) \/ UnsuspendInstallment(i)
    <3>1. schedule' = schedule
      BY <1>4, <2>5 DEF Next, GatePosting, RejectPosting, ChargeOff, AgingReadItems,
                        AgingReadLoan, NextDay, vars
    <3> QED
      BY <2>2, <3>1, PlanStands DEF NothingWaived
  <2> QED
    BY <2>3, <2>4, <2>5
<1> QED
  BY <1>2, <1>3, <1>4

(* Until something is waived, the plan holds every cent of regular cash     *)
(* until it is full, oldest installment first, over any history of          *)
(* suspensions, agings and payments in other modes, provided the nightly    *)
(* job overlaps no other writer.                                            *)
THEOREM PlanTakesTheCash == ~AgingOverlaps => (Spec => []PlanTakesCash)
<1> SUFFICES ASSUME ~AgingOverlaps PROVE Spec => []PlanTakesCash
  OBVIOUS
<1>1. Spec => [](Typed /\ AgingInv)
  BY AgingHolds
<1>2. Spec => []PlanInv
  BY <1>1, InitPlan, NextPlan, PTL DEF Spec
<1>3. PlanInv => PlanTakesCash
  BY DEF PlanInv
<1> QED
  BY <1>2, <1>3, PTL
=============================================================================
