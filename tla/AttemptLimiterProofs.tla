------------------------ MODULE AttemptLimiterProofs ------------------------
(***************************************************************************)
(* The invariants of AttemptLimiter for every limit, window, block and     *)
(* number of requests.                                                     *)
(***************************************************************************)
EXTENDS AttemptLimiter, FiniteSetTheorems, TLAPS

(* What recordFailure and the clock make of an entry is an entry again. *)
LEMMA AttemptStateClosed ==
  ASSUME NEW s \in AttemptState
  PROVE  /\ NoAttempts \in AttemptState
         /\ Admitted(s) \in AttemptState
         /\ Failed(s) \in AttemptState
         /\ Elapse(s) \in AttemptState
BY RateLimitAssumption
DEF AttemptState, NoAttempts, Admitted, Failed, Elapse

K == Cardinality(Requests)
Budget == MaxFailures - 1 + K * (1 + (Window - 1) \div Block)
InFlight == IF entry.blockLeft > 0 THEN Cardinality(checking) ELSE 0

\* The wrong codes and the time that n + 1 groups of them take: a group goes
\* on while its block lasts, and the next one starts when it has ended.
Groups(n) ==
  /\ (n + 1) * Block <= entry.age + entry.blockLeft
  /\ entry.failures + InFlight <= MaxFailures - 1 + K * (n + 1)

(* While the window is open, the wrong codes beyond the limit came in      *)
(* groups that the clock has had time for.                                 *)
Paced == entry.age < Window /\ entry.failures >= MaxFailures
           => \E n \in Nat : Groups(n)

IInv == TypeOK /\ BlockJustified /\ GuessBudget /\ Paced
-----------------------------------------------------------------------------
(* Multiplication is monotonic. *)
LEMMA TimesMonotonic ==
  ASSUME NEW k \in Nat, NEW m \in Nat, NEW n \in Nat, m <= n
  PROVE  k * m <= k * n
PROOF OBVIOUS

(* How many whole blocks fit into a time. *)
LEMMA WholeBlocks ==
  ASSUME NEW n \in Nat, NEW b \in Nat \ {0}, NEW a \in Nat, n * b <= a
  PROVE  n <= a \div b
PROOF OBVIOUS
(* The number of requests is a number. *)
LEMMA KType == K \in Nat
PROOF BY LimiterAssumption, FS_CardinalityType DEF K

(* There are at most K checks in flight, and one fewer when one ends. *)
LEMMA CheckingSize ==
  ASSUME checking \subseteq Requests
  PROVE  /\ Cardinality(checking) \in 0..K
         /\ \A r \in checking :
              Cardinality(checking \ {r}) = Cardinality(checking) - 1
PROOF
<1>1. IsFiniteSet(checking)
  BY LimiterAssumption, FS_Subset
<1>2. Cardinality(checking) \in Nat /\ Cardinality(checking) <= K
  BY <1>1, LimiterAssumption, FS_CardinalityType, FS_Subset DEF K
<1>3. ASSUME NEW r \in checking
      PROVE  Cardinality(checking \ {r}) = Cardinality(checking) - 1
  BY <1>1, FS_RemoveElement
<1>4. QED
  BY <1>2, <1>3, KType

(* The groups that an open window has time for stay within the budget. *)
LEMMA GroupsBudget ==
  ASSUME NEW e \in AttemptState, NEW n \in Nat, NEW i \in Nat,
         e.age < Window,
         (n + 1) * Block <= e.age + e.blockLeft,
         e.failures + i <= MaxFailures - 1 + K * (n + 1)
  PROVE  e.failures <= Budget
PROOF
<1> DEFINE q == (Window - 1) \div Block
<1>1. K \in Nat /\ q \in Nat
  BY KType, RateLimitAssumption
<1>2. e.failures \in Nat /\ e.age \in Nat /\ e.blockLeft \in 0..Block
  BY RateLimitAssumption DEF AttemptState
<1>3. n * Block + Block <= e.age + e.blockLeft
  BY RateLimitAssumption
<1>4. n * Block <= Window - 1 /\ n * Block \in Nat
  BY <1>2, <1>3, RateLimitAssumption
<1>5. n <= q
  <2>1. Window - 1 \in Nat /\ Block \in Nat \ {0}
    BY RateLimitAssumption
  <2>2. QED
    BY <1>4, <2>1, WholeBlocks
<1>6. K * (n + 1) <= K * (1 + q)
  BY <1>1, <1>5, TimesMonotonic
<1>7. K * (n + 1) \in Nat /\ K * (1 + q) \in Nat
  BY <1>1
<1>8. QED
  BY <1>2, <1>6, <1>7, RateLimitAssumption DEF Budget

(* The budget leaves room for the failures below the limit. *)
LEMMA BudgetSize == Budget \in Nat /\ MaxFailures - 1 <= Budget
PROOF
<1>1. K \in Nat /\ (Window - 1) \div Block \in Nat
  BY KType, RateLimitAssumption
<1>2. K * (1 + (Window - 1) \div Block) \in Nat
  BY <1>1
<1>3. QED
  BY <1>2, RateLimitAssumption DEF Budget
-----------------------------------------------------------------------------
(* The Map starts without the key. *)
LEMMA InitIInv == Init => IInv
PROOF BY BudgetSize, RateLimitAssumption, LimiterAssumption
      DEF Init, IInv, TypeOK, BlockJustified, GuessBudget, Paced, NoAttempts,
          AttemptState, Refused, K, Budget

(* Every step keeps the type invariant, and blocks only at the limit. *)
LEMMA TypeStep ==
  ASSUME TypeOK, [Next]_vars
  PROVE  TypeOK'
PROOF
<1>1. ASSUME NEW r \in Requests, Admit(r) \/ Refuse(r) \/ Answer(r)
      PROVE  TypeOK'
  BY <1>1, AttemptStateClosed
  DEF TypeOK, Admit, Refuse, Answer, WrongCode, RightCode, Abandon, vars
<1>2. CASE Tick
  BY <1>2, AttemptStateClosed DEF TypeOK, Tick
<1>3. CASE Restart
  BY <1>3, AttemptStateClosed DEF TypeOK, Restart
<1>4. CASE UNCHANGED vars
  BY <1>4 DEF TypeOK, vars
<1>5. QED
  BY <1>1, <1>2, <1>3, <1>4 DEF Next

LEMMA BlockStep ==
  ASSUME TypeOK, BlockJustified, [Next]_vars
  PROVE  BlockJustified'
PROOF
<1> USE RateLimitAssumption DEF BlockJustified, Refused
<1>0. /\ entry.failures \in Nat /\ entry.age \in Nat
      /\ entry.blockLeft \in 0..Block
  BY DEF TypeOK, AttemptState
<1>1. ASSUME NEW r \in Requests, Admit(r) \/ Refuse(r) \/ Answer(r)
      PROVE  BlockJustified'
  <2>1. CASE Admit(r)
    BY <1>0, <2>1 DEF Admit, Admitted, NoAttempts
  <2>2. CASE WrongCode(r)
    BY <1>0, <2>2 DEF WrongCode, Failed
  <2>3. CASE RightCode(r)
    BY <2>3 DEF RightCode, NoAttempts
  <2>4. CASE Refuse(r) \/ Abandon(r)
    BY <2>4 DEF Refuse, Abandon, vars
  <2>5. QED
    BY <1>1, <2>1, <2>2, <2>3, <2>4 DEF Answer
<1>2. CASE Tick
  BY <1>0, <1>2 DEF Tick, Elapse
<1>3. CASE Restart
  BY <1>3 DEF Restart, NoAttempts
<1>4. CASE UNCHANGED vars
  BY <1>4 DEF vars
<1>5. QED
  BY <1>1, <1>2, <1>3, <1>4 DEF Next

(* A step that leaves fewer failures than the limit is paced. *)
LEMMA FewPaced ==
  ASSUME entry'.failures \in Nat, entry'.failures < MaxFailures
  PROVE  Paced'
PROOF BY RateLimitAssumption DEF Paced

(* A wrong code goes on with the last group, or starts the next one. *)
LEMMA WrongCodePaced ==
  ASSUME TypeOK, BlockJustified, Paced, NEW r \in Requests, WrongCode(r)
  PROVE  Paced'
PROOF
<1>0. /\ entry.failures \in Nat /\ entry.age \in 0..Window
      /\ entry.blockLeft \in 0..Block
      /\ MaxFailures \in Nat /\ MaxFailures > 1
      /\ Block \in Nat /\ Window \in Nat /\ K \in Nat
  BY RateLimitAssumption, LimiterAssumption, KType DEF TypeOK, AttemptState
<1>1. /\ Cardinality(checking) \in 0..K
      /\ Cardinality(checking') = Cardinality(checking) - 1
  BY CheckingSize DEF TypeOK, WrongCode
<1>2. CASE entry.failures = 0 \/ entry.age >= Window
  BY <1>0, <1>2, FewPaced DEF WrongCode, Failed
<1>3. CASE /\ entry.failures # 0 /\ entry.age < Window
           /\ entry.failures + 1 < MaxFailures
  BY <1>0, <1>3, FewPaced DEF WrongCode, Failed
<1>4. CASE /\ entry.failures # 0 /\ entry.age < Window
           /\ entry.failures + 1 >= MaxFailures
  <2>1. /\ entry'.failures = entry.failures + 1
        /\ entry'.age = entry.age
        /\ entry'.blockLeft = Block
    BY <1>0, <1>4 DEF WrongCode, Failed
  <2>2. InFlight' = Cardinality(checking) - 1
    BY <1>1, <2>1, RateLimitAssumption DEF InFlight
  <2>3. CASE entry.failures < MaxFailures
    <3>1. Groups(0)'
      BY <1>0, <1>1, <1>4, <2>1, <2>2, <2>3 DEF Groups
    <3>2. QED
      BY <3>1 DEF Paced
  <2>4. CASE entry.failures >= MaxFailures
    <3>1. PICK n \in Nat : Groups(n)
      BY <1>4, <2>4 DEF Paced
    <3>2. CASE entry.blockLeft > 0
      <4>1. InFlight = Cardinality(checking)
        BY <3>2 DEF InFlight
      <4>2. (n + 1) * Block \in Nat /\ K * (n + 1) \in Nat
        BY <1>0
      <4>3. Groups(n)'
        BY <1>0, <1>1, <2>1, <2>2, <3>1, <4>1, <4>2 DEF Groups
      <4>4. QED
        BY <4>3 DEF Paced
    <3>3. CASE entry.blockLeft = 0
      <4>1. /\ (n + 1) * Block \in Nat /\ K * (n + 1) \in Nat
            /\ (n + 1 + 1) * Block = (n + 1) * Block + Block
            /\ K * (n + 1 + 1) = K * (n + 1) + K
        BY <1>0
      <4>2. InFlight = 0
        BY <3>3 DEF InFlight
      <4>3. Groups(n + 1)'
        BY <1>0, <1>1, <2>1, <2>2, <3>1, <3>3, <4>1, <4>2 DEF Groups
      <4>4. QED
        BY <4>3 DEF Paced
    <3>4. QED
      BY <1>0, <3>2, <3>3
  <2>5. QED
    BY <1>0, <2>3, <2>4
<1>5. QED
  BY <1>0, <1>2, <1>3, <1>4

(* Time that passes is time for more groups. *)
LEMMA TickPaced ==
  ASSUME TypeOK, Paced, Tick
  PROVE  Paced'
PROOF
<1>0. /\ entry.failures \in Nat /\ entry.age \in 0..Window
      /\ entry.blockLeft \in 0..Block
      /\ MaxFailures \in Nat \ {0}
      /\ Block \in Nat /\ Window \in Nat
      /\ K \in Nat /\ Cardinality(checking) \in 0..K
  BY RateLimitAssumption, KType, CheckingSize DEF TypeOK, AttemptState
<1>1. CASE entry.failures = 0
  BY <1>0, <1>1, FewPaced DEF Tick, Elapse
<1>2. CASE entry.failures # 0
  <2>1. /\ entry'.failures = entry.failures
        /\ entry'.age = IF entry.age < Window THEN entry.age + 1 ELSE entry.age
        /\ entry'.blockLeft = IF entry.blockLeft > 0 THEN entry.blockLeft - 1
                                                    ELSE 0
        /\ checking' = checking
    BY <1>2 DEF Tick, Elapse
  <2>2. SUFFICES ASSUME entry'.age < Window, entry'.failures >= MaxFailures
                 PROVE  \E n \in Nat : Groups(n)'
    BY DEF Paced
  <2>3. PICK n \in Nat : Groups(n)
    BY <1>0, <2>1, <2>2 DEF Paced
  <2>4. InFlight' <= InFlight /\ InFlight \in Nat /\ InFlight' \in Nat
    BY <1>0, <2>1 DEF InFlight
  <2>5. (n + 1) * Block \in Nat /\ K * (n + 1) \in Nat
    BY <1>0
  <2>6. (n + 1) * Block <= entry'.age + entry'.blockLeft
    BY <1>0, <2>1, <2>2, <2>3, <2>5 DEF Groups
  <2>7. entry'.failures + InFlight' <= MaxFailures - 1 + K * (n + 1)
    BY <1>0, <2>1, <2>3, <2>4, <2>5 DEF Groups
  <2>8. QED
    BY <2>6, <2>7 DEF Groups
<1>3. QED
  BY <1>1, <1>2

LEMMA PacedStep ==
  ASSUME TypeOK, BlockJustified, Paced, [Next]_vars
  PROVE  Paced'
PROOF
<1>0. /\ entry.failures \in Nat /\ entry.age \in 0..Window
      /\ entry.blockLeft \in 0..Block /\ Block \in Nat
      /\ MaxFailures \in Nat \ {0}
      /\ K \in Nat /\ Cardinality(checking) \in 0..K
  BY RateLimitAssumption, KType, CheckingSize DEF TypeOK, AttemptState
<1>1. ASSUME NEW r \in Requests, Admit(r)
      PROVE  Paced'
  <2>1. entry.blockLeft = 0 /\ entry' = Admitted(entry)
    BY <1>0, <1>1 DEF Admit, Refused
  <2>2. CASE entry.age >= Window
    BY <1>0, <2>1, <2>2, FewPaced DEF Admitted, NoAttempts
  <2>3. CASE entry.age < Window
    <3>1. entry' = entry
      BY <1>0, <2>1, <2>3, RateLimitAssumption DEF Admitted
    <3>2. InFlight = 0 /\ InFlight' = 0
      BY <2>1, <3>1 DEF InFlight
    <3>3. \A n \in Nat : Groups(n) => Groups(n)'
      BY <3>1, <3>2 DEF Groups
    <3>4. QED
      BY <3>1, <3>3 DEF Paced
  <2>4. QED
    BY <1>0, <2>2, <2>3, RateLimitAssumption
<1>2. ASSUME NEW r \in Requests, WrongCode(r)
      PROVE  Paced'
  BY <1>2, WrongCodePaced
<1>3. ASSUME NEW r \in Requests, RightCode(r)
      PROVE  Paced'
  BY <1>0, <1>3, FewPaced DEF RightCode, NoAttempts
<1>4. ASSUME NEW r \in Requests, Abandon(r)
      PROVE  Paced'
  <2>1. entry' = entry /\ Cardinality(checking') = Cardinality(checking) - 1
    BY <1>4, CheckingSize DEF Abandon, TypeOK
  <2>2. InFlight' <= InFlight /\ InFlight \in Nat /\ InFlight' \in Int
    BY <1>0, <2>1 DEF InFlight
  <2>3. ASSUME NEW n \in Nat, Groups(n)
        PROVE  Groups(n)'
    <3>1. K * (n + 1) \in Nat
      BY <1>0
    <3>2. QED
      BY <1>0, <2>1, <2>2, <2>3, <3>1 DEF Groups
  <2>4. QED
    BY <2>1, <2>3 DEF Paced
<1>5. CASE Tick
  BY <1>5, TickPaced
<1>6. CASE Restart
  BY <1>0, <1>6, FewPaced DEF Restart, NoAttempts
<1>7. ASSUME UNCHANGED vars
      PROVE  Paced'
  <2>1. entry' = entry /\ InFlight' = InFlight
    BY <1>7 DEF vars, InFlight
  <2>2. \A n \in Nat : Groups(n) => Groups(n)'
    BY <2>1 DEF Groups
  <2>3. QED
    BY <2>1, <2>2 DEF Paced
<1>8. ASSUME NEW r \in Requests, Refuse(r)
      PROVE  Paced'
  BY <1>7, <1>8 DEF Refuse
<1>9. QED
  BY <1>1, <1>2, <1>3, <1>4, <1>5, <1>6, <1>7, <1>8 DEF Next, Answer

(* A window that has elapsed takes no more failures. *)
LEMMA BudgetStep ==
  ASSUME TypeOK, BlockJustified, GuessBudget, Paced, [Next]_vars
  PROVE  GuessBudget'
PROOF
<1>0. /\ entry.failures \in Nat /\ entry.age \in 0..Window
      /\ Window \in Nat \ {0} /\ MaxFailures \in Nat \ {0}
      /\ Budget \in Nat
  BY RateLimitAssumption, BudgetSize DEF TypeOK, AttemptState
<1>1. TypeOK' /\ Paced'
  BY TypeStep, PacedStep
<1>2. \/ entry'.age < Window
      \/ entry'.failures = entry.failures
  BY <1>0 DEF Next, Admit, Refuse, Answer, WrongCode, RightCode, Abandon, Tick,
              Restart, Admitted, Failed, Elapse, NoAttempts, vars
<1>3. CASE entry'.age < Window /\ entry'.failures >= MaxFailures
  <2>1. PICK n \in Nat : Groups(n)'
    BY <1>1, <1>3 DEF Paced
  <2>2. entry' \in AttemptState /\ InFlight' \in Nat
    <3>1. entry' \in AttemptState /\ checking' \subseteq Requests
      BY <1>1 DEF TypeOK
    <3>2. IsFiniteSet(checking')
      BY <3>1, LimiterAssumption, FS_Subset
    <3>3. QED
      BY <3>1, <3>2, FS_CardinalityType DEF InFlight
  <2>3. entry'.failures <= Budget
    BY <1>3, <2>1, <2>2, GroupsBudget DEF Groups
  <2>4. QED
    BY <2>3 DEF GuessBudget, Budget, K
<1>4. CASE entry'.failures < MaxFailures
  <2>1. entry'.failures \in Nat
    BY <1>1 DEF TypeOK, AttemptState
  <2>2. entry'.failures <= Budget
    BY <1>0, <1>4, <2>1, BudgetSize
  <2>3. QED
    BY <2>2 DEF GuessBudget, Budget, K
<1>5. CASE entry'.failures = entry.failures
  BY <1>5 DEF GuessBudget
<1>6. entry'.failures \in Nat
  BY <1>1 DEF TypeOK, AttemptState
<1>7. QED
  BY <1>0, <1>2, <1>3, <1>4, <1>5, <1>6
-----------------------------------------------------------------------------
(* All four conjuncts are invariants together: the pace of the wrong codes *)
(* is what makes their number inductive.                                   *)
THEOREM Invariance == Spec => []IInv
PROOF
<1>1. Init => IInv
  BY InitIInv
<1>2. IInv /\ [Next]_vars => IInv'
  BY TypeStep, BlockStep, PacedStep, BudgetStep DEF IInv
<1>3. QED
  BY <1>1, <1>2, PTL DEF Spec

(* The limiter's entry is always one that the Map can hold. *)
THEOREM TypeCorrect == Spec => []TypeOK
PROOF BY Invariance, PTL DEF IInv

(* recordFailure and assertAllowed: nobody is blocked below the limit. *)
THEOREM BlocksAreJustified == Spec => []BlockJustified
PROOF BY Invariance, PTL DEF IInv

(* Whatever the number of requests in flight, the wrong codes one window   *)
(* takes are bounded by the limit and the blocks that fit into it.         *)
THEOREM GuessesAreBounded == Spec => []GuessBudget
PROOF BY Invariance, PTL DEF IInv
=============================================================================
