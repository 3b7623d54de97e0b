--------------------------- MODULE LossCountProofs ---------------------------
(***************************************************************************)
(* What holds of the loss count whatever the width of the numbers.         *)
(***************************************************************************)
EXTENDS LossCount, TLAPS

\* What % and \div are.
LEMMA Quotient ==
    ASSUME NEW m \in Nat \ {0}, NEW x \in Int
    PROVE  /\ x \div m \in Int /\ x % m \in 0..(m - 1)
           /\ x = m * (x \div m) + (x % m)
OBVIOUS

\* A number has one remainder.
LEMMA OneRemainder ==
    ASSUME NEW m \in Nat \ {0}, NEW p \in Int, NEW q \in Int,
           NEW r \in 0..(m - 1), NEW t \in 0..(m - 1), m * p + r = m * q + t
    PROVE  r = t
<1>1. ~(p > q)
  <2> SUFFICES ASSUME p > q PROVE FALSE
    OBVIOUS
  <2>1. m * (p - q) >= m
    OBVIOUS
  <2>2. QED
    BY <2>1
<1>2. ~(q > p)
  <2> SUFFICES ASSUME q > p PROVE FALSE
    OBVIOUS
  <2>1. m * (q - p) >= m
    OBVIOUS
  <2>2. QED
    BY <2>1
<1>3. p = q
  BY <1>1, <1>2
<1>4. QED
  BY <1>3

\* Numbers less than a turn apart differ by the difference of their remainders.
LEMMA DifferenceOfRemainders ==
    ASSUME NEW m \in Nat \ {0}, NEW a \in Int, NEW b \in Int, a - b \in 0..(m - 1)
    PROVE  ((a % m) - (b % m)) % m = a - b
<1>1. PICK p \in Int, r \in 0..(m - 1) : a = m * p + r /\ r = a % m
  BY Quotient
<1>2. PICK q \in Int, t \in 0..(m - 1) : b = m * q + t /\ t = b % m
  BY Quotient
<1>3. r - t \in Int
  OBVIOUS
<1>4. PICK k \in Int, u \in 0..(m - 1) : r - t = m * k + u /\ u = (r - t) % m
  BY <1>3, Quotient
<1>5. a - b = u
  <2>1. a - b = m * p - m * q + m * k + u
    <3>1. a = m * p + r /\ b = m * q + t /\ r - t = m * k + u
      BY <1>1, <1>2, <1>4
    <3>2. m * p \in Int /\ m * q \in Int /\ m * k \in Int
      OBVIOUS
    <3>3. QED
      BY <3>1, <3>2
  <2>2. m * p - m * q + m * k = m * (k + p - q)
    OBVIOUS
  <2>3. m * 0 + (a - b) = m * (k + p - q) + u
    BY <2>1, <2>2
  <2>4. QED
    BY <2>3, OneRemainder
<1>6. QED
  BY <1>1, <1>2, <1>4, <1>5

\* Counting on from a remainder.
LEMMA SuccessorOfRemainder ==
    ASSUME NEW m \in Nat \ {0}, NEW x \in Int
    PROVE  ((x % m) + 1) % m = (x + 1) % m
<1>1. PICK p \in Int, r \in 0..(m - 1) : x = m * p + r /\ r = x % m
  BY Quotient
<1>2. r + 1 \in Int /\ x + 1 \in Int
  OBVIOUS
<1>3. PICK q \in Int, t \in 0..(m - 1) : r + 1 = m * q + t /\ t = (r + 1) % m
  BY <1>2, Quotient
<1>4. PICK k \in Int, u \in 0..(m - 1) : x + 1 = m * k + u /\ u = (x + 1) % m
  BY <1>2, Quotient
<1>5. t = u
  <2>1. x = m * p + r /\ r + 1 = m * q + t /\ x + 1 = m * k + u
    BY <1>1, <1>3, <1>4
  <2>2. m * p \in Int /\ m * q \in Int /\ m * k \in Int
    OBVIOUS
  <2>3. m * p + m * q + t = m * k + u
    BY <2>1, <2>2
  <2>4. m * p + m * q = m * (p + q)
    OBVIOUS
  <2>5. QED
    BY <2>3, <2>4, OneRemainder
<1>6. QED
  BY <1>1, <1>3, <1>4, <1>5

-----------------------------------------------------------------------------

LEMMA NumbersWrap == ASSUME NEW k \in Int PROVE k % Modulus \in Number
BY LossCountConstants DEF Number

LEMMA GapIsNat == ASSUME NEW n \in Number, last \in Number PROVE Gap(n) \in Nat
<1> DEFINE gap == (n - last) % Modulus
<1>1. gap \in Nat
  BY NumbersWrap DEF Number
<1>2. Gap(n) = IF 1 < gap /\ gap < Half THEN gap - 1 ELSE 0
  BY DEF Gap
<1> HIDE DEF gap
<1>3. QED
  BY <1>1, <1>2

-----------------------------------------------------------------------------

LEMMA TypeInit == Init => TypeOK
BY LossCountConstants DEF Init, TypeOK, Number

LEMMA TakeTypes ==
    ASSUME TypeOK, Take PROVE number' \in Number /\ made' \in 1..MaxMade
BY NumbersWrap, LossCountConstants DEF TypeOK, Take, Number

LEMMA ObserveTypes ==
    ASSUME TypeOK, NEW d \in air, Observe(d)
    PROVE  /\ last' \in Number \cup {None}
           /\ lost' \in Nat /\ messages' \in Nat /\ setback' \in Nat
           /\ {first', top', recent'} \subseteq 1..MaxMade \cup {None}
<1>1. d.number \in Number /\ d.made \in 1..MaxMade
  BY DEF TypeOK
<1>2. last # None => Gap(d.number) \in Nat
  BY <1>1, GapIsNat DEF TypeOK
<1>3. lost' \in Nat
  BY <1>2 DEF Observe, TypeOK
<1>4. setback' \in Nat
  <2>1. recent # None /\ d.made <= recent => recent - d.made + 1 \in Nat
    BY <1>1 DEF TypeOK
  <2>2. recent # None => recent \in Nat
    BY DEF TypeOK
  <2>3. QED
    BY <1>1, <2>1, <2>2 DEF Observe, TypeOK
<1>5. QED
  BY <1>1, <1>3, <1>4 DEF Observe, TypeOK

LEMMA TypeStep == TypeOK /\ [Next]_vars => TypeOK'
<1> SUFFICES ASSUME TypeOK, [Next]_vars PROVE TypeOK'
  OBVIOUS
<1>1. CASE Send
  BY <1>1, TakeTypes, LossCountConstants DEF Send, Take, TypeOK, live
<1>2. CASE SendFails
  BY <1>2, TakeTypes, LossCountConstants DEF SendFails, Take, TypeOK, live
<1>3. CASE PublisherRestarts
  BY <1>3, LossCountConstants DEF PublisherRestarts, TypeOK, Number, live
<1>4. ASSUME NEW d \in air, Lose(d) PROVE TypeOK'
  BY <1>4 DEF Lose, TypeOK, live
<1>5. ASSUME NEW d \in air, NEW again \in BOOLEAN, Deliver(d, again) PROVE TypeOK'
  <2>1. Observe(d)
    BY <1>5 DEF Deliver
  <2>2. mishaps' \subseteq {"missing", "restart", "repointed", "overtaken", "again", "burst"}
    BY <1>5 DEF Deliver, TypeOK
  <2>3. air' \subseteq air
    BY <1>5 DEF Deliver
  <2>4. QED
    BY <1>5, <2>1, <2>2, <2>3, ObserveTypes DEF Deliver, TypeOK
<1>6. ASSUME NEW d \in air, Ignore(d) PROVE TypeOK'
  BY <1>6 DEF Ignore, TypeOK, live
<1>7. CASE Remove
  BY <1>7 DEF Remove, TypeOK, live
<1>8. CASE Register
  BY <1>8 DEF Register, TypeOK, live
<1>9. CASE RegistryRestarts
  BY <1>9 DEF RegistryRestarts, TypeOK
<1>10. CASE UNCHANGED vars
  BY <1>10 DEF vars, TypeOK
<1>11. QED
  BY <1>1, <1>2, <1>3, <1>4, <1>5, <1>6, <1>7, <1>8, <1>9, <1>10 DEF Next

\* The numbers and the counts are what their types say.
THEOREM TypeCorrect == Spec => []TypeOK
<1>1. QED
  BY TypeInit, TypeStep, PTL DEF Spec

-----------------------------------------------------------------------------
(* The count is exact. *)

\* What holds as long as datagrams are only lost: numbers are the remainders of
\* "made", and what is on its way was made after what was observed.
Numbered ==
    /\ number = made % Modulus
    /\ \A d \in air : d.number = d.made % Modulus /\ d.made <= made

Unobserved ==
    /\ messages = 0 /\ lost = 0 /\ setback = 0
    /\ last = None /\ first = None /\ top = None /\ recent = None

Observed ==
    /\ messages > 0
    /\ first \in Nat /\ recent \in Nat /\ top = recent
    /\ last = recent % Modulus
    /\ recent <= made
    /\ \A d \in air : recent < d.made
    /\ messages + lost = top - first + 1

ExactInv == mishaps \subseteq {"missing"} => Numbered /\ (Unobserved \/ Observed)

LEMMA ExactInit == Init => ExactInv
<1>1. 0 % Modulus = 0
  BY LossCountConstants
<1>2. QED
  BY <1>1 DEF Init, ExactInv, Numbered, Unobserved

\* In order and without a burst, the gap is what was missed.
LEMMA GapIsMissing ==
    ASSUME NEW k \in Nat, NEW r \in Nat, last = r % Modulus, 0 < k - r, k - r < Half
    PROVE  Gap(k % Modulus) = k - r - 1
<1>1. Half < Modulus
  BY LossCountConstants DEF Half
<1>2. k - r \in 0..(Modulus - 1)
  BY <1>1, LossCountConstants DEF Half
<1>3. ((k % Modulus) - (r % Modulus)) % Modulus = k - r
  <2>1. Modulus \in Nat \ {0}
    BY LossCountConstants
  <2>2. k \in Int /\ r \in Int
    OBVIOUS
  <2>3. QED
    BY <1>2, <2>1, <2>2, DifferenceOfRemainders
<1>4. Half \in Nat
  BY LossCountConstants DEF Half
<1>5. Gap(k % Modulus) = IF 1 < k - r /\ k - r < Half THEN k - r - 1 ELSE 0
  BY <1>3 DEF Gap
<1>6. QED
  BY <1>5, <1>4

LEMMA TakeKeepsNumbers ==
    ASSUME TypeOK, Take, number = made % Modulus
    PROVE  number' = made' % Modulus
<1>1. made \in Int /\ made' = made + 1 /\ number' = (number + 1) % Modulus
  BY LossCountConstants DEF TypeOK, Take
<1>2. Modulus \in Nat \ {0}
  BY LossCountConstants
<1>3. QED
  BY <1>1, <1>2, SuccessorOfRemainder

LEMMA DeliverKeepsCount ==
    ASSUME TypeOK, ExactInv, NEW d \in air, NEW again \in BOOLEAN, Deliver(d, again),
           mishaps' \subseteq {"missing"}
    PROVE  Numbered' /\ Observed'
<1>1. mishaps \subseteq {"missing"} /\ Oldest(d) /\ ~again /\ ~Burst(d)
  BY DEF Deliver
<1>2. Numbered /\ (Unobserved \/ Observed)
  BY <1>1 DEF ExactInv
<1>3. air' = air \ {d} /\ number' = number /\ made' = made /\ Observe(d)
  BY <1>1 DEF Deliver
<1>4. Numbered'
  BY <1>2, <1>3 DEF Numbered
<1>5. d.number = d.made % Modulus /\ d.made \in Nat /\ made \in Nat /\ d.made <= made
  BY <1>2, LossCountConstants DEF Numbered, TypeOK
<1>6. \A e \in air' : d.made < e.made
  <2> SUFFICES ASSUME NEW e \in air, e # d PROVE d.made < e.made
    BY <1>3
  <2>1. d \in [number : Number, made : 1..MaxMade] /\ e \in [number : Number, made : 1..MaxMade]
    BY DEF TypeOK
  <2>2. d.made # e.made
    BY <1>2, <2>1 DEF Numbered
  <2>3. d.made <= e.made
    BY <1>1 DEF Oldest
  <2>4. QED
    BY <2>1, <2>2, <2>3
<1>7. lost \in Nat /\ messages \in Nat
  BY DEF TypeOK
<1>8. CASE Unobserved
  <2>1. /\ messages' = 1 /\ lost' = 0 /\ first' = d.made /\ top' = d.made /\ recent' = d.made
        /\ last' = d.made % Modulus
    BY <1>3, <1>5, <1>8 DEF Unobserved, Observe
  <2>2. QED
    BY <1>3, <1>4, <1>5, <1>6, <2>1 DEF Observed
<1>9. CASE Observed
  <2>1. recent \in Nat /\ first \in Nat /\ top = recent /\ last = recent % Modulus
    BY <1>9 DEF Observed
  <2>2. recent # None /\ first # None /\ last # None
    <3>1. recent % Modulus \in Int
      BY <2>1, NumbersWrap DEF Number
    <3>2. QED
      BY <2>1, <3>1, LossCountConstants
  <2>3. 0 < d.made - recent
    BY <1>5, <1>9, <2>1 DEF Observed
  <2>4. Half \in Nat
    BY LossCountConstants DEF Half
  <2>5. d.made - recent < Half
    BY <1>1, <1>5, <2>1, <2>2, <2>3, <2>4 DEF Burst
  <2>6. Gap(d.number) = d.made - recent - 1
    BY <1>5, <2>1, <2>3, <2>5, GapIsMissing
  <2>7. /\ lost' = lost + (d.made - recent - 1) /\ messages' = messages + 1
        /\ first' = first /\ top' = d.made /\ recent' = d.made
        /\ last' = d.made % Modulus
    BY <1>3, <1>5, <2>1, <2>2, <2>3, <2>6 DEF Observe
  <2>8. messages + lost = recent - first + 1
    BY <1>9, <2>1 DEF Observed
  <2>9. QED
    BY <1>3, <1>4, <1>5, <1>6, <1>7, <2>1, <2>7, <2>8 DEF Observed
<1>10. QED
  BY <1>2, <1>4, <1>8, <1>9

LEMMA ExactStep == TypeOK /\ ExactInv /\ [Next]_vars => ExactInv'
<1> SUFFICES ASSUME TypeOK, ExactInv, [Next]_vars, mishaps' \subseteq {"missing"}
             PROVE  Numbered' /\ (Unobserved' \/ Observed')
  BY DEF ExactInv
<1>1. mishaps \subseteq mishaps'
  BY DEF Next, Send, SendFails, PublisherRestarts, Lose, Deliver, Ignore, Remove, Register,
         RegistryRestarts, vars
<1>2. Numbered /\ (Unobserved \/ Observed)
  BY <1>1 DEF ExactInv
<1>3. CASE Send
  <2>1. number' = made' % Modulus /\ made \in Nat /\ made' = made + 1
    BY <1>2, <1>3, TakeKeepsNumbers, LossCountConstants DEF Send, Numbered, Take, TypeOK
  <2>2. air' = air \cup {[number |-> number', made |-> made']} /\ live' = live
    BY <1>3 DEF Send
  <2>3. \A d \in air : d.made \in Nat
    BY DEF TypeOK
  <2>4. Numbered'
    BY <1>2, <2>1, <2>2, <2>3 DEF Numbered
  <2>5. QED
    BY <1>2, <2>1, <2>2, <2>4 DEF Unobserved, Observed, live
<1>4. CASE SendFails
  <2>1. number' = made' % Modulus /\ made \in Nat /\ made' = made + 1
    BY <1>2, <1>4, TakeKeepsNumbers, LossCountConstants DEF SendFails, Numbered, Take, TypeOK
  <2>2. air' = air /\ live' = live
    BY <1>4 DEF SendFails
  <2>3. \A d \in air : d.made \in Nat
    BY DEF TypeOK
  <2>4. Numbered'
    BY <1>2, <2>1, <2>2, <2>3 DEF Numbered
  <2>5. QED
    BY <1>2, <2>1, <2>2, <2>4 DEF Unobserved, Observed, live
<1>5. ASSUME NEW d \in air, NEW again \in BOOLEAN, Deliver(d, again)
      PROVE  Numbered' /\ Observed'
  BY <1>5, DeliverKeepsCount
<1>6. CASE PublisherRestarts
  BY <1>6 DEF PublisherRestarts
<1>7. ASSUME air' \subseteq air, number' = number, made' = made, live' = live
      PROVE  Numbered' /\ (Unobserved' \/ Observed')
  BY <1>2, <1>7 DEF Numbered, Unobserved, Observed, live
<1>8. ASSUME NEW d \in air, Lose(d) \/ Ignore(d) PROVE Numbered' /\ (Unobserved' \/ Observed')
  BY <1>7, <1>8 DEF Lose, Ignore
<1>9. CASE Remove \/ Register
  BY <1>7, <1>9 DEF Remove, Register
<1>10. CASE RegistryRestarts
  BY <1>2, <1>10 DEF RegistryRestarts, Numbered, Unobserved
<1>11. CASE UNCHANGED vars
  BY <1>7, <1>11 DEF vars, live
<1>12. QED
  BY <1>3, <1>4, <1>5, <1>6, <1>8, <1>9, <1>10, <1>11 DEF Next

\* Whatever the width of the numbers and however often they wrap: as long as
\* datagrams are only lost, and fewer than half a turn in a row, every one that is
\* missing is counted once (listener.py:49-53).
THEOREM LossStaysExact == Spec => []LossIsExact
<1>1. ExactInv => LossIsExact
  BY DEF ExactInv, Unobserved, Observed, LossIsExact
<1>2. Init => TypeOK /\ ExactInv
  BY TypeInit, ExactInit
<1>3. TypeOK /\ ExactInv /\ [Next]_vars => (TypeOK /\ ExactInv)'
  BY TypeStep, ExactStep
<1>4. QED
  BY <1>1, <1>2, <1>3, PTL DEF Spec


-----------------------------------------------------------------------------
(* What late and repeated datagrams do to the count. *)

Harmless == {"missing", "overtaken", "again"}

\* What they leave of "Observed": the last one observed is no longer the highest, and
\* what was counted is more than what was missing, by the setbacks.
Balanced ==
    /\ messages > 0
    /\ first \in Nat /\ top \in Nat /\ recent \in Nat
    /\ recent <= top /\ top - recent <= setback
    /\ last = recent % Modulus
    /\ messages + lost = recent - first + 1 + setback

BalanceInv == mishaps \subseteq Harmless => Numbered /\ (Unobserved \/ Balanced)

LEMMA BalanceInit == Init => BalanceInv
<1>1. 0 % Modulus = 0
  BY LossCountConstants
<1>2. QED
  BY <1>1 DEF Init, BalanceInv, Numbered, Unobserved

\* One turn more leaves the remainder as it is.
LEMMA RemainderOfTurn ==
    ASSUME NEW m \in Nat \ {0}, NEW x \in Int
    PROVE  (x + m) % m = x % m
<1>1. PICK p \in Int, r \in 0..(m - 1) : x = m * p + r /\ r = x % m
  BY Quotient
<1>2. x + m \in Int
  OBVIOUS
<1>3. PICK q \in Int, t \in 0..(m - 1) : x + m = m * q + t /\ t = (x + m) % m
  BY <1>2, Quotient
<1>4. m * (p + 1) = m * p + m /\ m * p \in Int
  OBVIOUS
<1>5. m * (p + 1) + r = m * q + t
  BY <1>1, <1>3, <1>4
<1>6. p + 1 \in Int
  OBVIOUS
<1>7. r = t
  BY <1>5, <1>6, OneRemainder
<1>8. QED
  BY <1>1, <1>3, <1>7

\* A datagram that is behind, by half a turn at most, adds nothing.
LEMMA NoGapBehind ==
    ASSUME NEW k \in Nat, NEW r \in Nat, last = r % Modulus, k <= r, r - k <= Half
    PROVE  Gap(k % Modulus) = 0
<1>1. Half \in Nat \ {0} /\ Modulus = 2 * Half
  BY LossCountConstants DEF Half
<1> Modulus \in Nat \ {0} /\ k \in Int /\ r \in Int
  BY LossCountConstants
<1>2. CASE k = r
  <2>1. ((k % Modulus) - (r % Modulus)) % Modulus = 0
    BY <1>2, DifferenceOfRemainders
  <2>2. QED
    BY <2>1 DEF Gap
<1>3. CASE k < r
  <2>1. k + Modulus \in Int /\ (k + Modulus) - r \in 0..(Modulus - 1)
    BY <1>1, <1>3
  <2>2. (((k + Modulus) % Modulus) - (r % Modulus)) % Modulus = (k + Modulus) - r
    BY <2>1, DifferenceOfRemainders
  <2>3. (k + Modulus) % Modulus = k % Modulus
    BY RemainderOfTurn
  <2>4. (k + Modulus) - r >= Half
    BY <1>1
  <2>5. Gap(k % Modulus) = IF 1 < (k + Modulus) - r /\ (k + Modulus) - r < Half
                           THEN (k + Modulus) - r - 1 ELSE 0
    BY <2>2, <2>3 DEF Gap
  <2>6. QED
    BY <1>1, <2>1, <2>4, <2>5
<1>4. QED
  BY <1>2, <1>3

LEMMA DeliverBalances ==
    ASSUME TypeOK, BalanceInv, NEW d \in air, NEW again \in BOOLEAN, Deliver(d, again),
           mishaps' \subseteq Harmless
    PROVE  Numbered' /\ Balanced'
<1>1. mishaps \subseteq Harmless /\ ~Burst(d)
  BY DEF Deliver, Harmless
<1>2. Numbered /\ (Unobserved \/ Balanced)
  BY <1>1 DEF BalanceInv
<1>3. air' \subseteq air /\ number' = number /\ made' = made /\ Observe(d)
  BY DEF Deliver
<1>4. Numbered'
  BY <1>2, <1>3 DEF Numbered
<1>5. d.number = d.made % Modulus /\ d.made \in Nat
  BY <1>2, LossCountConstants DEF Numbered, TypeOK
<1>6. lost \in Nat /\ messages \in Nat /\ setback \in Nat
  BY DEF TypeOK
<1>7. CASE Unobserved
  <2>1. /\ messages' = 1 /\ lost' = 0 /\ first' = d.made /\ top' = d.made /\ recent' = d.made
        /\ last' = d.made % Modulus /\ setback' = 0
    BY <1>3, <1>5, <1>7 DEF Unobserved, Observe
  <2>2. QED
    BY <1>4, <1>5, <2>1 DEF Balanced
<1>8. CASE Balanced
  <2>1. /\ recent \in Nat /\ first \in Nat /\ top \in Nat
        /\ recent <= top /\ top - recent <= setback
        /\ last = recent % Modulus /\ messages + lost = recent - first + 1 + setback
    BY <1>8 DEF Balanced
  <2>2. recent # None /\ first # None /\ top # None /\ last # None
    <3>1. recent % Modulus \in Int
      BY <2>1, NumbersWrap DEF Number
    <3>2. QED
      BY <2>1, <3>1, LossCountConstants
  <2>3. /\ messages' = messages + 1 /\ lost' = lost + Gap(d.number)
        /\ first' = first /\ recent' = d.made /\ last' = d.made % Modulus
        /\ top' = (IF d.made > top THEN d.made ELSE top)
        /\ setback' = setback + (IF d.made > recent THEN 0 ELSE recent - d.made + 1)
    BY <1>3, <1>5, <2>2 DEF Observe
  <2>4. Half \in Nat /\ d.made - recent \in (-Half)..(Half - 1)
    BY <1>1, <2>2, LossCountConstants DEF Burst, Half
  <2>5. CASE d.made > recent
    <3>1. Gap(d.number) = d.made - recent - 1
      BY <1>5, <2>1, <2>4, <2>5, GapIsMissing
    <3>2. /\ messages' + lost' = d.made - first + 1 + setback /\ setback' = setback
          /\ d.made <= top' /\ top' - d.made <= setback
      BY <1>5, <1>6, <2>1, <2>3, <2>5, <3>1
    <3>3. QED
      BY <1>4, <1>5, <1>6, <2>1, <2>3, <3>2 DEF Balanced
  <2>6. CASE d.made <= recent
    <3>1. Gap(d.number) = 0
      BY <1>5, <2>1, <2>4, <2>6, NoGapBehind
    <3>2. /\ messages' + lost' = d.made - first + 1 + setback'
          /\ d.made <= top' /\ top' - d.made <= setback'
      BY <1>5, <1>6, <2>1, <2>3, <2>6, <3>1
    <3>3. QED
      BY <1>4, <1>5, <1>6, <2>1, <2>3, <3>2 DEF Balanced
  <2>7. QED
    BY <1>5, <2>1, <2>5, <2>6
<1>9. QED
  BY <1>2, <1>7, <1>8

LEMMA BalanceStep == TypeOK /\ BalanceInv /\ [Next]_vars => BalanceInv'
<1> SUFFICES ASSUME TypeOK, BalanceInv, [Next]_vars, mishaps' \subseteq Harmless
             PROVE  Numbered' /\ (Unobserved' \/ Balanced')
  BY DEF BalanceInv
<1>1. mishaps \subseteq mishaps'
  BY DEF Next, Send, SendFails, PublisherRestarts, Lose, Deliver, Ignore, Remove, Register,
         RegistryRestarts, vars
<1>2. Numbered /\ (Unobserved \/ Balanced)
  BY <1>1 DEF BalanceInv
<1>3. ASSUME Take, live' = live,
             air' \subseteq air \cup {[number |-> number', made |-> made']}
      PROVE  Numbered' /\ (Unobserved' \/ Balanced')
  <2>1. number' = made' % Modulus /\ made \in Nat /\ made' = made + 1
    BY <1>2, <1>3, TakeKeepsNumbers, LossCountConstants DEF Numbered, Take, TypeOK
  <2>2. \A d \in air : d.made \in Nat
    BY DEF TypeOK
  <2>3. Numbered'
    BY <1>2, <1>3, <2>1, <2>2 DEF Numbered
  <2>4. QED
    BY <1>2, <1>3, <2>3 DEF Unobserved, Balanced, live
<1>4. CASE Send \/ SendFails
  BY <1>3, <1>4 DEF Send, SendFails
<1>5. ASSUME NEW d \in air, NEW again \in BOOLEAN, Deliver(d, again)
      PROVE  Numbered' /\ Balanced'
  BY <1>5, DeliverBalances
<1>6. CASE PublisherRestarts
  BY <1>6 DEF PublisherRestarts, Harmless
<1>7. ASSUME air' \subseteq air, number' = number, made' = made, live' = live
      PROVE  Numbered' /\ (Unobserved' \/ Balanced')
  BY <1>2, <1>7 DEF Numbered, Unobserved, Balanced, live
<1>8. ASSUME NEW d \in air, Lose(d) \/ Ignore(d) PROVE Numbered' /\ (Unobserved' \/ Balanced')
  BY <1>7, <1>8 DEF Lose, Ignore
<1>9. CASE Remove \/ Register
  BY <1>7, <1>9 DEF Remove, Register, Harmless
<1>10. CASE RegistryRestarts
  BY <1>2, <1>10 DEF RegistryRestarts, Numbered, Unobserved
<1>11. CASE UNCHANGED vars
  BY <1>7, <1>11 DEF vars, live
<1>12. QED
  BY <1>4, <1>5, <1>6, <1>8, <1>9, <1>10, <1>11 DEF Next

LEMMA BalanceAlways == Spec => []BalanceInv
<1>1. Init => TypeOK /\ BalanceInv
  BY TypeInit, BalanceInit
<1>2. TypeOK /\ BalanceInv /\ [Next]_vars => (TypeOK /\ BalanceInv)'
  BY TypeStep, BalanceStep
<1>3. QED
  BY <1>1, <1>2, PTL DEF Spec

\* What late and repeated datagrams make the registry count is known to the last one,
\* whatever the width of the numbers: the distances by which they were behind
\* (listener.py:49-54).
THEOREM FalseLossIsExact == Spec => []FalseLossIsTheSetback
<1>1. BalanceInv => FalseLossIsTheSetback
  BY DEF BalanceInv, Unobserved, Balanced, FalseLossIsTheSetback, Harmless
<1>2. QED
  BY <1>1, BalanceAlways, PTL

\* Datagrams that come late or twice make the registry count too many missing ones,
\* never too few (listener.py:49-53).
THEOREM LossIsNeverHidden == Spec => []LossIsNotHidden
<1>1. TypeOK /\ BalanceInv => LossIsNotHidden
  <2> SUFFICES ASSUME TypeOK, BalanceInv, mishaps \subseteq Harmless, messages > 0
               PROVE  messages + lost >= top - first + 1
    BY DEF LossIsNotHidden, Harmless
  <2>1. Balanced
    BY DEF BalanceInv, Unobserved
  <2>2. QED
    BY <2>1 DEF Balanced, TypeOK
<1>2. QED
  BY <1>1, BalanceAlways, TypeCorrect, PTL
=============================================================================
