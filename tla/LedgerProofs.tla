---------------------------- MODULE LedgerProofs ----------------------------
(***************************************************************************)
(* Theorems about Ledger, for any accounts, keys, holds and amounts.       *)
(***************************************************************************)
EXTENDS Ledger, TLAPS, FiniteSetTheorems

-----------------------------------------------------------------------------
(***************************************************************************)
(* Sums over finite sets.  A sum is a fold, defined by recursion over the  *)
(* subsets of its domain; that the recursion has a solution, and that the  *)
(* order of the elements is of no account, is shown by taking a smallest   *)
(* subset for which it fails.                                              *)
(***************************************************************************)

\* Induction over the finite subsets of a set, with what is shown as a set.
LEMMA SubsetInduction ==
    ASSUME NEW S, IsFiniteSet(S), NEW Good,
           \A T \in SUBSET S : (\A U \in SUBSET T : U # T => U \in Good) => T \in Good
    PROVE  S \in Good
<1>1. DEFINE Bad == {T \in SUBSET S : T \notin Good}
<1>2. SUFFICES ASSUME S \notin Good PROVE FALSE
  OBVIOUS
<1>3. S \in Bad /\ Bad \subseteq FiniteSubsetsOf(S)
  BY <1>2, FS_FiniteSubsetsOfFinite
<1>4. PICK T \in Bad : \A U \in Bad : <<U, T>> \notin StrictSubsetOrdering(S)
  <2>1. IsWellFoundedOn(StrictSubsetOrdering(S), FiniteSubsetsOf(S))
    BY FS_StrictSubsetOrderingWellFounded
  <2>2. Bad # {}
    BY <1>3
  <2> HIDE DEF Bad
  <2> QED
    BY <1>3, <2>1, <2>2, WFMin
<1>5. \A U \in SUBSET T : U # T => U \in Good
  BY <1>4 DEF StrictSubsetOrdering
<1> QED
  BY <1>4, <1>5

SumStep(f, g, s) ==
    IF s = {} THEN 0 ELSE LET x == CHOOSE x \in s : TRUE IN f[x] + g[s \ {x}]
IsSum(f, g, S) == g = [s \in SUBSET S |-> SumStep(f, g, s)]

\* The library's sum over a set is what that recursion chooses.
LEMMA SumIs ==
    ASSUME NEW f, NEW S
    PROVE  SumFunctionOnSet(f, S) = (CHOOSE g : IsSum(f, g, S))[S]
  BY DEF SumFunctionOnSet, FoldFunctionOnSet, MapThenFoldSet, IsSum, SumStep

AgreeOn(f, g, U) == \A x \in U : f[x] = g[x]

\* Partial sums of functions that agree agree.
LEMMA SumsAgree ==
    ASSUME NEW f, NEW g, NEW S, NEW f2, NEW g2, NEW S2, NEW U, IsFiniteSet(U),
           U \in SUBSET S, U \in SUBSET S2, AgreeOn(f, f2, U),
           IsSum(f, g, S), IsSum(f2, g2, S2)
    PROVE  g[U] = g2[U]
<1> DEFINE Good == {T \in SUBSET U : g[T] = g2[T]}
<1>1. ASSUME NEW T \in SUBSET U, \A V \in SUBSET T : V # T => V \in Good
      PROVE  T \in Good
  <2>1. g[T] = SumStep(f, g, T) /\ g2[T] = SumStep(f2, g2, T)
    BY DEF IsSum
  <2>2. CASE T = {}
    BY <2>1, <2>2 DEF SumStep
  <2>3. CASE T # {}
    <3>1. PICK x \in T : x = CHOOSE y \in T : TRUE
      BY <2>3
    <3>2. T \ {x} \in SUBSET T /\ T \ {x} # T
      BY <3>1
    <3>3. g[T \ {x}] = g2[T \ {x}]
      BY <1>1, <3>2
    <3>4. g[T] = f[x] + g[T \ {x}] /\ g2[T] = f2[x] + g2[T \ {x}]
      BY <2>1, <2>3, <3>1 DEF SumStep
    <3> QED
      BY <3>3, <3>4 DEF AgreeOn
  <2> QED
    BY <2>2, <2>3
<1>2. U \in Good
  <2> HIDE DEF Good
  <2> QED
    BY <1>1, SubsetInduction
<1> QED
  BY <1>2

\* Partial sums exist.
LEMMA SumExists ==
    ASSUME NEW f, NEW S, IsFiniteSet(S)
    PROVE  \E g : IsSum(f, g, S)
<1> DEFINE Good == {T \in SUBSET S : \E g : IsSum(f, g, T)}
<1>1. ASSUME NEW T \in SUBSET S, \A U \in SUBSET T : U # T => U \in Good
      PROVE  T \in Good
  <2> DEFINE value(U) == (CHOOSE g : IsSum(f, g, U))[U]
             rest(U) == U \ {CHOOSE x \in U : TRUE}
             g == [U \in SUBSET T |-> IF U = {} THEN 0 ELSE f[CHOOSE x \in U : TRUE] + value(rest(U))]
  <2>1. ASSUME NEW U \in SUBSET T, U # T
        PROVE  value(U) = g[U]
    <3>1. PICK h : h = CHOOSE j : IsSum(f, j, U)
      OBVIOUS
    <3>2. IsSum(f, h, U)
      BY <1>1, <2>1, <3>1
    <3>3. h[U] = SumStep(f, h, U)
      BY <3>2 DEF IsSum
    <3>4. CASE U = {}
      BY <3>1, <3>3, <3>4 DEF SumStep
    <3>5. CASE U # {}
      <4>1. PICK x \in U : x = CHOOSE y \in U : TRUE
        BY <3>5
      <4>2. U \ {x} \in SUBSET T /\ U \ {x} # T /\ U \ {x} \subseteq U
        BY <4>1
      <4>3. PICK k : k = CHOOSE j : IsSum(f, j, U \ {x})
        OBVIOUS
      <4>4. IsSum(f, k, U \ {x})
        BY <1>1, <4>2, <4>3
      <4>5. IsFiniteSet(U \ {x})
        BY FS_Subset
      <4>6. k[U \ {x}] = h[U \ {x}]
        <5>1. U \ {x} \in SUBSET U /\ U \ {x} \in SUBSET (U \ {x}) /\ AgreeOn(f, f, U \ {x})
          BY DEF AgreeOn
        <5> QED
          BY <3>2, <4>4, <4>5, <5>1, SumsAgree
      <4>7. value(rest(U)) = k[U \ {x}]
        BY <4>1, <4>3
      <4>8. g[U] = f[x] + value(rest(U))
        BY <3>5, <4>1
      <4>9. h[U] = f[x] + h[U \ {x}]
        BY <3>3, <3>5, <4>1 DEF SumStep
      <4> QED
        BY <3>1, <4>6, <4>7, <4>8, <4>9
    <3> QED
      BY <3>4, <3>5
  <2>2. ASSUME NEW U \in SUBSET T
        PROVE  g[U] = SumStep(f, g, U)
    <3>1. CASE U = {}
      BY <3>1 DEF SumStep
    <3>2. CASE U # {}
      <4>1. rest(U) \in SUBSET T /\ rest(U) # T
        BY <3>2
      <4>2. value(rest(U)) = g[rest(U)]
        BY <2>1, <4>1
      <4> QED
        BY <3>2, <4>2 DEF SumStep
    <3> QED
      BY <3>1, <3>2
  <2>3. IsSum(f, g, T)
    <3>1. g = [U \in SUBSET T |-> g[U]]
      OBVIOUS
    <3> HIDE DEF g
    <3> QED
      BY <2>2, <3>1 DEF IsSum
  <2> QED
    BY <2>3
<1>2. S \in Good
  <2> HIDE DEF Good
  <2> QED
    BY <1>1, SubsetInduction
<1> QED
  BY <1>2

\* A sum is that of its partial sums.
LEMMA SumWithChosen ==
    ASSUME NEW f, NEW S, IsFiniteSet(S), S # {}
    PROVE  LET x == CHOOSE x \in S : TRUE
           IN  SumFunctionOnSet(f, S) = f[x] + SumFunctionOnSet(f, S \ {x})
<1>1. PICK x \in S : x = CHOOSE y \in S : TRUE
  OBVIOUS
<1>2. PICK g, h : g = (CHOOSE k : IsSum(f, k, S)) /\ h = (CHOOSE k : IsSum(f, k, S \ {x}))
  OBVIOUS
<1>3. IsFiniteSet(S \ {x})
  BY FS_Subset
<1>4. IsSum(f, g, S) /\ IsSum(f, h, S \ {x})
  BY <1>2, <1>3, SumExists
<1>5. g[S \ {x}] = h[S \ {x}]
  <2>1. S \ {x} \in SUBSET S /\ S \ {x} \in SUBSET (S \ {x}) /\ AgreeOn(f, f, S \ {x})
    BY DEF AgreeOn
  <2> QED
    BY <1>3, <1>4, <2>1, SumsAgree
<1>6. g[S] = f[x] + g[S \ {x}]
  BY <1>1, <1>4 DEF IsSum, SumStep
<1> QED
  BY <1>1, <1>2, <1>5, <1>6, SumIs

\* Nothing sums to zero.
LEMMA SumOfNothing ==
    ASSUME NEW f
    PROVE  SumFunctionOnSet(f, {}) = 0
<1>1. PICK g : g = (CHOOSE k : IsSum(f, k, {}))
  OBVIOUS
<1>2. IsSum(f, g, {})
  BY <1>1, SumExists, FS_EmptySet
<1> QED
  BY <1>1, <1>2, SumIs DEF IsSum, SumStep

\* Functions that agree on a set have the same sum.
LEMMA SumsSame ==
    ASSUME NEW f, NEW g, NEW S, IsFiniteSet(S), \A x \in S : f[x] = g[x]
    PROVE  SumFunctionOnSet(f, S) = SumFunctionOnSet(g, S)
<1>1. PICK h, k : h = (CHOOSE l : IsSum(f, l, S)) /\ k = (CHOOSE l : IsSum(g, l, S))
  OBVIOUS
<1>2. IsSum(f, h, S) /\ IsSum(g, k, S)
  BY <1>1, SumExists
<1>3. S \in SUBSET S /\ AgreeOn(f, g, S)
  BY DEF AgreeOn
<1>4. h[S] = k[S]
  BY <1>2, <1>3, SumsAgree
<1> QED
  BY <1>1, <1>4, SumIs

\* A sum of integers is an integer.
LEMMA SumTyped ==
    ASSUME NEW f, NEW S, IsFiniteSet(S), \A x \in S : f[x] \in Int
    PROVE  SumFunctionOnSet(f, S) \in Int
<1> DEFINE Good == {T \in SUBSET S : SumFunctionOnSet(f, T) \in Int}
<1>1. ASSUME NEW T \in SUBSET S, \A U \in SUBSET T : U # T => U \in Good
      PROVE  T \in Good
  <2>1. CASE T = {}
    BY <2>1, SumOfNothing
  <2>2. CASE T # {}
    <3>1. PICK x \in T : x = CHOOSE y \in T : TRUE
      BY <2>2
    <3>2. IsFiniteSet(T)
      BY FS_Subset
    <3>3. SumFunctionOnSet(f, T) = f[x] + SumFunctionOnSet(f, T \ {x})
      BY <2>2, <3>1, <3>2, SumWithChosen
    <3>4. T \ {x} \in Good
      BY <1>1, <3>1
    <3> QED
      BY <3>3, <3>4
  <2> QED
    BY <2>1, <2>2
<1>2. S \in Good
  <2> HIDE DEF Good
  <2> QED
    BY <1>1, SubsetInduction
<1> QED
  BY <1>2

\* Any element can be taken out of a sum first.
LEMMA SumWithout ==
    ASSUME NEW f, NEW S, IsFiniteSet(S), \A y \in S : f[y] \in Int, NEW x \in S
    PROVE  SumFunctionOnSet(f, S) = f[x] + SumFunctionOnSet(f, S \ {x})
<1> DEFINE Good == {T \in SUBSET S :
                      \A y \in T : SumFunctionOnSet(f, T) = f[y] + SumFunctionOnSet(f, T \ {y})}
<1>1. ASSUME NEW T \in SUBSET S, \A U \in SUBSET T : U # T => U \in Good
      PROVE  T \in Good
  <2>1. SUFFICES ASSUME NEW y \in T PROVE SumFunctionOnSet(f, T) = f[y] + SumFunctionOnSet(f, T \ {y})
    OBVIOUS
  <2>2. PICK c \in T : c = CHOOSE z \in T : TRUE
    BY <2>1
  <2>3. IsFiniteSet(T) /\ IsFiniteSet(T \ {y, c})
    BY FS_Subset
  <2>4. SumFunctionOnSet(f, T) = f[c] + SumFunctionOnSet(f, T \ {c})
    BY <2>2, <2>3, SumWithChosen
  <2>5. CASE c = y
    BY <2>4, <2>5
  <2>6. CASE c # y
    <3>1. /\ T \ {c} \in SUBSET T /\ T \ {c} # T /\ y \in T \ {c} /\ (T \ {c}) \ {y} = T \ {y, c}
          /\ T \ {y} \in SUBSET T /\ T \ {y} # T /\ c \in T \ {y} /\ (T \ {y}) \ {c} = T \ {y, c}
      BY <2>6
    <3>2. SumFunctionOnSet(f, T \ {c}) = f[y] + SumFunctionOnSet(f, T \ {y, c})
      BY <1>1, <3>1
    <3>3. SumFunctionOnSet(f, T \ {y}) = f[c] + SumFunctionOnSet(f, T \ {y, c})
      BY <1>1, <3>1
    <3>4. SumFunctionOnSet(f, T \ {y, c}) \in Int
      BY <2>3, SumTyped
    <3> QED
      BY <2>4, <3>2, <3>3, <3>4
  <2> QED
    BY <2>5, <2>6
<1>2. S \in Good
  <2> HIDE DEF Good
  <2> QED
    BY <1>1, SubsetInduction
<1> QED
  BY <1>2

\* One more element adds its value.
LEMMA SumWithOneMore ==
    ASSUME NEW f, NEW S, IsFiniteSet(S), NEW x, x \notin S, \A y \in S \cup {x} : f[y] \in Int
    PROVE  SumFunctionOnSet(f, S \cup {x}) = SumFunctionOnSet(f, S) + f[x]
<1>1. IsFiniteSet(S \cup {x}) /\ (S \cup {x}) \ {x} = S
  BY FS_AddElement
<1>2. SumFunctionOnSet(f, S \cup {x}) = f[x] + SumFunctionOnSet(f, S)
  BY <1>1, SumWithout
<1>3. SumFunctionOnSet(f, S) \in Int
  BY SumTyped
<1> QED
  BY <1>2, <1>3

\* A sum changes by what one of its values changes by.
LEMMA SumChanges ==
    ASSUME NEW f, NEW g, NEW S, IsFiniteSet(S), NEW x \in S,
           \A y \in S : f[y] \in Int, g[x] \in Int, \A y \in S \ {x} : g[y] = f[y]
    PROVE  SumFunctionOnSet(g, S) = SumFunctionOnSet(f, S) + g[x] - f[x]
<1>1. IsFiniteSet(S \ {x}) /\ \A y \in S : g[y] \in Int
  BY FS_Subset
<1>2. SumFunctionOnSet(g, S) = g[x] + SumFunctionOnSet(g, S \ {x})
  BY <1>1, SumWithout
<1>3. SumFunctionOnSet(f, S) = f[x] + SumFunctionOnSet(f, S \ {x})
  BY SumWithout
<1>4. SumFunctionOnSet(g, S \ {x}) = SumFunctionOnSet(f, S \ {x})
  BY <1>1, SumsSame
<1>5. SumFunctionOnSet(f, S \ {x}) \in Int
  BY <1>1, SumTyped
<1> QED
  BY <1>2, <1>3, <1>4, <1>5

\* Sums of disjoint sets add up.
LEMMA SumOfUnion ==
    ASSUME NEW f, NEW S, NEW T, IsFiniteSet(S), IsFiniteSet(T), S \cap T = {},
           \A y \in S \cup T : f[y] \in Int
    PROVE  SumFunctionOnSet(f, S \cup T) = SumFunctionOnSet(f, S) + SumFunctionOnSet(f, T)
<1> DEFINE Good == {U \in SUBSET T :
                      SumFunctionOnSet(f, S \cup U) = SumFunctionOnSet(f, S) + SumFunctionOnSet(f, U)}
<1>0. SumFunctionOnSet(f, S) \in Int
  BY SumTyped
<1>1. ASSUME NEW U \in SUBSET T, \A V \in SUBSET U : V # U => V \in Good
      PROVE  U \in Good
  <2>1. CASE U = {}
    BY <1>0, <2>1, SumOfNothing
  <2>2. CASE U # {}
    <3>1. PICK x \in U : TRUE
      BY <2>2
    <3>2. U \ {x} \in Good /\ IsFiniteSet(U \ {x}) /\ IsFiniteSet(U)
      BY <1>1, <3>1, FS_Subset
    <3>3. IsFiniteSet(S \cup (U \ {x})) /\ x \notin S \cup (U \ {x}) /\ (S \cup (U \ {x})) \cup {x} = S \cup U
      BY <3>1, <3>2, FS_Union
    <3>4. SumFunctionOnSet(f, S \cup U) = SumFunctionOnSet(f, S \cup (U \ {x})) + f[x]
      BY <3>3, SumWithOneMore
    <3>5. SumFunctionOnSet(f, U) = f[x] + SumFunctionOnSet(f, U \ {x})
      BY <3>1, <3>2, SumWithout
    <3>6. SumFunctionOnSet(f, U \ {x}) \in Int
      BY <3>2, SumTyped
    <3> QED
      BY <1>0, <3>2, <3>4, <3>5, <3>6
  <2> QED
    BY <2>1, <2>2
<1>2. T \in Good
  <2> HIDE DEF Good
  <2> QED
    BY <1>1, SubsetInduction
<1> QED
  BY <1>2

\* A sum of natural numbers is one.
LEMMA SumOfNats ==
    ASSUME NEW f, NEW S, IsFiniteSet(S), \A x \in S : f[x] \in Nat
    PROVE  SumFunctionOnSet(f, S) \in Nat
<1> DEFINE Good == {T \in SUBSET S : SumFunctionOnSet(f, T) \in Nat}
<1>1. ASSUME NEW T \in SUBSET S, \A U \in SUBSET T : U # T => U \in Good
      PROVE  T \in Good
  <2>1. CASE T = {}
    BY <2>1, SumOfNothing
  <2>2. CASE T # {}
    <3>1. PICK x \in T : TRUE
      BY <2>2
    <3>2. T \ {x} \in Good /\ IsFiniteSet(T)
      BY <1>1, <3>1, FS_Subset
    <3>3. SumFunctionOnSet(f, T) = f[x] + SumFunctionOnSet(f, T \ {x})
      BY <3>1, <3>2, SumWithout
    <3> QED
      BY <3>1, <3>2, <3>3
  <2> QED
    BY <2>1, <2>2
<1>2. S \in Good
  <2> HIDE DEF Good
  <2> QED
    BY <1>1, SubsetInduction
<1> QED
  BY <1>2

\* The sum of differences is the difference of the sums.
LEMMA SumOfDifferences ==
    ASSUME NEW f, NEW g, NEW h, NEW S, IsFiniteSet(S),
           \A x \in S : f[x] \in Int /\ g[x] \in Int /\ h[x] = f[x] - g[x]
    PROVE  SumFunctionOnSet(h, S) = SumFunctionOnSet(f, S) - SumFunctionOnSet(g, S)
<1> DEFINE Good == {T \in SUBSET S :
                      SumFunctionOnSet(h, T) = SumFunctionOnSet(f, T) - SumFunctionOnSet(g, T)}
<1>1. ASSUME NEW T \in SUBSET S, \A U \in SUBSET T : U # T => U \in Good
      PROVE  T \in Good
  <2>1. CASE T = {}
    BY <2>1, SumOfNothing
  <2>2. CASE T # {}
    <3>1. PICK x \in T : TRUE
      BY <2>2
    <3>2. T \ {x} \in Good /\ IsFiniteSet(T \ {x}) /\ IsFiniteSet(T)
      BY <1>1, <3>1, FS_Subset
    <3>3. SumFunctionOnSet(f, T) = f[x] + SumFunctionOnSet(f, T \ {x})
      BY <3>1, <3>2, SumWithout
    <3>4. SumFunctionOnSet(g, T) = g[x] + SumFunctionOnSet(g, T \ {x})
      BY <3>1, <3>2, SumWithout
    <3>5. \A y \in T : h[y] \in Int
      OBVIOUS
    <3>6. SumFunctionOnSet(h, T) = h[x] + SumFunctionOnSet(h, T \ {x})
      BY <3>1, <3>2, <3>5, SumWithout
    <3>7. SumFunctionOnSet(f, T \ {x}) \in Int /\ SumFunctionOnSet(g, T \ {x}) \in Int
      BY <3>2, SumTyped
    <3>8. h[x] = f[x] - g[x] /\ f[x] \in Int /\ g[x] \in Int
      BY <3>1
    <3>9. SumFunctionOnSet(h, T \ {x}) = SumFunctionOnSet(f, T \ {x}) - SumFunctionOnSet(g, T \ {x})
      BY <3>2
    <3> QED
      BY <3>3, <3>4, <3>6, <3>7, <3>8, <3>9
  <2> QED
    BY <2>1, <2>2
<1>2. S \in Good
  <2> HIDE DEF Good
  <2> QED
    BY <1>1, SubsetInduction
<1> QED
  BY <1>2

-----------------------------------------------------------------------------
(***************************************************************************)
(* Types.                                                                  *)
(***************************************************************************)

\* Legs between two accounts are well typed, for posting or compensating.
LEMMA LegsTyped ==
    ASSUME NEW a \in AllAccounts, NEW b \in AllAccounts, NEW x \in Int, NEW y \in Int
    PROVE  <<Leg(a, x), Leg(b, y)>> \in Legs
  BY DEF Legs, Entry, Leg

\* The compensating legs of typed legs are typed.
LEMMA CompensatingTyped ==
    ASSUME NEW legs \in Legs, NEW c \in Compensating(legs)
    PROVE  c \in Legs
  BY DEF Legs, Entry, Compensating, Negated, Leg

\* Inserting typed entries leaves the ledger sums typed.
LEMMA InsertTyped ==
    ASSUME TypeOK, NEW legs \in Legs, InsertEntries(legs)
    PROVE  ledgerSum' \in [AllAccounts -> Int]
  <1>1. \A sums \in [AllAccounts -> Int], leg \in Entry :
          Inserted(sums, leg) \in [AllAccounts -> Int]
    BY DEF Inserted, Entry
  <1>2. legs[1] \in Entry /\ legs[2] \in Entry
    BY DEF Legs
  <1>3. QED
    BY <1>1, <1>2 DEF InsertEntries, CanInsert, TypeOK

\* A posting of typed legs keeps the types of the rows it writes.
LEMMA PostTyped ==
    ASSUME TypeOK, NEW type \in {"credit", "debit", "transfer"}, NEW key \in Key,
           NEW legs \in Legs, PostTransaction(type, key, legs)
    PROVE  TypeOK'
  <1>1. ledgerSum' \in [AllAccounts -> Int]
    BY InsertTyped DEF PostTransaction
  <1>2. LegsRequest(type, legs) \in Request
    BY DEF LegsRequest, Request
  <1>3. Posted(type, legs, LegsRequest(type, legs)) \in Txn
    BY <1>2 DEF Posted, Txn
  <1>4. QED
    BY <1>1, <1>3 DEF PostTransaction, TypeOK

\* The initial tables are well typed.
LEMMA InitTyped == Init => TypeOK
  BY SystemAssumption, OverdraftAssumption
  DEF Init, TypeOK, AllAccounts, AccountState, NoAccount

\* Every operation keeps the tables well typed.
LEMMA NextTyped == TypeOK /\ [Next]_vars => TypeOK'
  <1> SUFFICES ASSUME TypeOK, [Next]_vars PROVE TypeOK'
    OBVIOUS
  <1> USE AmountAssumption, OverdraftAssumption, TargetStateAssumption
  <1>1. ASSUME NEW a \in Account, NEW o \in Overdraft, OpenAccount(a, o)
        PROVE  TypeOK'
    BY <1>1 DEF OpenAccount, TypeOK, AllAccounts, AccountState
  <1>2. ASSUME NEW a \in Account, NEW s \in TargetState, TransitionAccountState(a, s)
        PROVE  TypeOK'
    <2>1. accounts' \in [AllAccounts -> [state : AccountState \cup {"absent"}, overdraft : Nat]]
      BY <1>2 DEF TransitionAccountState, TypeOK, AllAccounts
    <2>2. QED
      BY <1>2, <2>1 DEF TransitionAccountState, TypeOK
  <1>3. ASSUME NEW a \in Account, NEW x \in Amount, NEW k \in Key, Credit(a, x, k)
        PROVE  TypeOK'
    <2>1. CreditLegs(a, x) \in Legs
      BY LegsTyped DEF AllAccounts, CreditLegs
    <2>2. QED
      BY <1>3, <2>1, PostTyped DEF Credit
  <1>4. ASSUME NEW a \in Account, NEW x \in Amount, NEW k \in Key, Debit(a, x, k)
        PROVE  TypeOK'
    <2>1. DebitLegs(a, x) \in Legs
      BY LegsTyped DEF AllAccounts, DebitLegs
    <2>2. QED
      BY <1>4, <2>1, PostTyped DEF Debit
  <1>5. ASSUME NEW a \in Account, NEW b \in Account, NEW x \in Amount, NEW k \in Key,
               Transfer(a, b, x, k)
        PROVE  TypeOK'
    <2>1. <<Leg(a, -x), Leg(b, x)>> \in Legs
      BY LegsTyped DEF AllAccounts
    <2>2. QED
      BY <1>5, <2>1, PostTyped DEF Transfer
  <1>6. ASSUME NEW h \in HoldId, NEW a \in Account, NEW x \in Amount, PlaceHold(h, a, x)
        PROVE  TypeOK'
    <2>1. heldSum' \in [AllAccounts -> Int]
      BY <1>6 DEF PlaceHold, TypeOK, AllAccounts
    <2>2. holds' \in [HoldId -> Hold \cup {NoHold}]
      BY <1>6 DEF PlaceHold, TypeOK, Hold
    <2>3. QED
      BY <1>6, <2>1, <2>2 DEF PlaceHold, TypeOK
  <1>7. ASSUME NEW h \in HoldId, NEW s \in {"released", "captured"}, ResolveHold(h, s)
        PROVE  /\ holds' \in [HoldId -> Hold \cup {NoHold}]
               /\ heldSum' \in [AllAccounts -> Int]
    <2>1. holds[h] \in Hold /\ holds[h].account \in AllAccounts /\ holds[h].amount \in Int
      BY <1>7 DEF ResolveHold, TypeOK, Hold, NoHold, AllAccounts
    <2>2. QED
      BY <1>7, <2>1 DEF ResolveHold, TypeOK, Hold
  <1>8. ASSUME NEW h \in HoldId, ReleaseHold(h)
        PROVE  TypeOK'
    BY <1>7, <1>8 DEF ReleaseHold, TypeOK
  <1>9. ASSUME NEW h \in HoldId, NEW k \in Key, CaptureHold(h, k)
        PROVE  TypeOK'
    <2> DEFINE legs == DebitLegs(holds[h].account, holds[h].amount)
    <2>1. holds[h] \in Hold
      BY <1>9 DEF CaptureHold, TypeOK, NoHold
    <2>2. holds[h].account \in Account /\ holds[h].amount \in Amount
      BY <2>1 DEF Hold
    <2>3. legs \in Legs
      <3>1. \A a \in Account, x \in Amount : DebitLegs(a, x) \in Legs
        BY LegsTyped DEF AllAccounts, DebitLegs
      <3>2. QED
        BY <2>2, <3>1
    <2>4. ledgerSum' \in [AllAccounts -> Int]
      BY <1>9, <2>3, InsertTyped DEF CaptureHold
    <2>5. CaptureRequest(h) \in Request
      BY DEF CaptureRequest, Request
    <2>6. Posted("debit", legs, CaptureRequest(h)) \in Txn
      BY <2>3, <2>5 DEF Posted, Txn
    <2>7. txns' \in [Key -> Txn \cup {NoTxn}]
      BY <1>9, <2>6 DEF CaptureHold, TypeOK
    <2>8. QED
      BY <1>7, <1>9, <2>4, <2>7 DEF CaptureHold, TypeOK
  <1>10. ASSUME NEW o \in Key, NEW k \in Key, ReverseTransaction(o, k)
         PROVE  TypeOK'
    <2>1. txns[o] \in Txn
      BY <1>10 DEF ReverseTransaction, TypeOK, NoTxn
    <2>2. PICK legs \in Compensating(txns[o].legs) :
            /\ InsertEntries(legs)
            /\ txns' = [txns EXCEPT ![k] = Posted("reversal", legs, ReversalRequest(o)),
                                    ![o].state = "reversed"]
      BY <1>10 DEF ReverseTransaction
    <2>3. legs \in Legs
      BY <2>1, <2>2, CompensatingTyped DEF Txn
    <2>4. ledgerSum' \in [AllAccounts -> Int]
      BY <2>2, <2>3, InsertTyped
    <2>5. ReversalRequest(o) \in Request
      BY DEF ReversalRequest, Request
    <2>6. Posted("reversal", legs, ReversalRequest(o)) \in Txn
      BY <2>3, <2>5 DEF Posted, Txn
    <2>7. o # k
      BY <1>10 DEF ReverseTransaction, Unused, NoTxn
    <2>8. [txns[o] EXCEPT !.state = "reversed"] \in Txn
      BY <2>1 DEF Txn
    <2>9. txns' \in [Key -> Txn \cup {NoTxn}]
      BY <2>2, <2>6, <2>7, <2>8 DEF TypeOK
    <2>10. QED
      BY <1>10, <2>4, <2>9 DEF ReverseTransaction, TypeOK
  <1>11. CASE UNCHANGED vars
    BY <1>11 DEF vars, TypeOK
  <1>12. QED
    BY <1>1, <1>2, <1>3, <1>4, <1>5, <1>6, <1>8, <1>9, <1>10, <1>11 DEF Next

\* The tables stay well typed whatever the callers do.
THEOREM TypeCorrect == Spec => []TypeOK
  BY InitTyped, NextTyped, PTL DEF Spec

-----------------------------------------------------------------------------
(***************************************************************************)
(* No account passes its overdraft limit.  The invariant alone is not      *)
(* inductive: an account is opened with whatever its sums are, so they     *)
(* have to be zero until then.                                             *)
(***************************************************************************)
IInv == TypeOK /\ AvailableWithinOverdraft /\ OnlyOpenedAccountsHaveRows

WithinOverdraft(sums) ==
    \A a \in AllAccounts : Exists(a) => sums[a] - heldSum[a] >= -accounts[a].overdraft

\* An entry the balance trigger lets through keeps every account within its limit.
LEMMA EntryWithinOverdraft ==
    ASSUME TypeOK, NEW sums \in [AllAccounts -> Int], NEW entry \in Entry,
           WithinOverdraft(sums), PassesBalanceCheck(sums, entry)
    PROVE  /\ WithinOverdraft(Inserted(sums, entry))
           /\ Inserted(sums, entry) \in [AllAccounts -> Int]
  <1>1. ASSUME NEW a \in AllAccounts, Exists(a)
        PROVE  Inserted(sums, entry)[a] - heldSum[a] >= -accounts[a].overdraft
    <2>1. /\ sums[a] \in Int /\ heldSum[a] \in Int /\ accounts[a].overdraft \in Int
          /\ entry.account \in AllAccounts /\ entry.amount \in Int
      BY DEF TypeOK, Entry
    <2>2. sums[a] - heldSum[a] >= -accounts[a].overdraft
      BY <1>1 DEF WithinOverdraft
    <2>3. CASE entry.account # a
      BY <2>1, <2>2, <2>3 DEF Inserted
    <2>4. CASE entry.account = a
      BY <2>1, <2>2, <2>4 DEF Inserted, PassesBalanceCheck
    <2>5. QED
      BY <2>3, <2>4
  <1>2. QED
    BY <1>1 DEF WithinOverdraft, Inserted, Entry

\* So do the entries of a transaction, inserted one after the other; and they
\* leave the sums of accounts that are not opened alone.
LEMMA InsertWithinOverdraft ==
    ASSUME IInv, NEW legs \in Legs, InsertEntries(legs)
    PROVE  /\ WithinOverdraft(ledgerSum')
           /\ \A a \in AllAccounts : ~Exists(a) => ledgerSum'[a] = 0
  <1> DEFINE sums == Inserted(ledgerSum, legs[1])
  <1>1. legs[1] \in Entry /\ legs[2] \in Entry
    BY DEF Legs
  <1>2. WithinOverdraft(ledgerSum) /\ ledgerSum \in [AllAccounts -> Int]
    BY DEF IInv, TypeOK, WithinOverdraft, AvailableWithinOverdraft, Available
  <1>3. /\ PassesBalanceCheck(ledgerSum, legs[1]) /\ PassesBalanceCheck(sums, legs[2])
        /\ ledgerSum' = Inserted(sums, legs[2])
        /\ Exists(legs[1].account) /\ Exists(legs[2].account)
    BY DEF InsertEntries, CanInsert
  <1>4. sums \in [AllAccounts -> Int] /\ WithinOverdraft(sums)
    BY <1>1, <1>2, <1>3, EntryWithinOverdraft DEF IInv
  <1>5. \A a \in AllAccounts : ~Exists(a) => sums[a] = 0
    BY <1>1, <1>2, <1>3 DEF Inserted, IInv, OnlyOpenedAccountsHaveRows
  <1>6. \A a \in AllAccounts : ~Exists(a) => ledgerSum'[a] = 0
    BY <1>1, <1>3, <1>4, <1>5 DEF Inserted
  <1> HIDE DEF sums
  <1>7. QED
    BY <1>1, <1>3, <1>4, <1>6, EntryWithinOverdraft DEF IInv

\* A posting of typed legs preserves the invariant.
LEMMA PostInv ==
    ASSUME IInv, NEW type, NEW key, NEW legs \in Legs, PostTransaction(type, key, legs)
    PROVE  AvailableWithinOverdraft' /\ OnlyOpenedAccountsHaveRows'
  BY InsertWithinOverdraft
  DEF PostTransaction, WithinOverdraft, AvailableWithinOverdraft, Available, Exists,
      OnlyOpenedAccountsHaveRows, IInv

\* Every operation preserves the invariant.
LEMMA NextWithinOverdraft ==
    IInv /\ [Next]_vars => AvailableWithinOverdraft' /\ OnlyOpenedAccountsHaveRows'
  <1> SUFFICES ASSUME IInv, [Next]_vars
               PROVE  AvailableWithinOverdraft' /\ OnlyOpenedAccountsHaveRows'
    OBVIOUS
  <1> DEFINE Goal == AvailableWithinOverdraft' /\ OnlyOpenedAccountsHaveRows'
  <1>t. \A a \in AllAccounts :
          ledgerSum[a] \in Int /\ heldSum[a] \in Int /\ accounts[a].overdraft \in Int
    BY DEF IInv, TypeOK
  <1>l. \A a, b \in Account, x \in Amount :
          /\ CreditLegs(a, x) \in Legs
          /\ DebitLegs(a, x) \in Legs
          /\ <<Leg(a, -x), Leg(b, x)>> \in Legs
    BY LegsTyped, AmountAssumption DEF AllAccounts, CreditLegs, DebitLegs
  <1>1. ASSUME NEW a \in Account, NEW o \in Overdraft, OpenAccount(a, o)
        PROVE  Goal
    <2>1. a \in AllAccounts /\ ~Exists(a) /\ ledgerSum[a] = 0 /\ heldSum[a] = 0 /\ o \in Nat
      BY <1>1, OverdraftAssumption
      DEF OpenAccount, IInv, OnlyOpenedAccountsHaveRows, AllAccounts
    <2>2. /\ accounts'[a].state = "open" /\ accounts'[a].overdraft = o
          /\ \A b \in AllAccounts \ {a} : accounts'[b] = accounts[b]
          /\ UNCHANGED <<txns, holds, ledgerSum, heldSum>>
      BY <1>1, <2>1 DEF OpenAccount, IInv, TypeOK
    <2>3. AvailableWithinOverdraft'
      <3> SUFFICES ASSUME NEW b \in AllAccounts, Exists(b)'
                   PROVE  ledgerSum[b] - heldSum[b] >= -accounts'[b].overdraft
        BY <2>2 DEF AvailableWithinOverdraft, Available
      <3>1. CASE b = a
        BY <2>1, <2>2, <3>1
      <3>2. CASE b # a
        BY <2>2, <3>2 DEF IInv, AvailableWithinOverdraft, Available, Exists
      <3>3. QED
        BY <3>1, <3>2
    <2>4. OnlyOpenedAccountsHaveRows'
      BY <2>1, <2>2 DEF IInv, TypeOK, Hold, NoHold, OnlyOpenedAccountsHaveRows, Exists, AllAccounts
    <2>5. QED
      BY <2>3, <2>4
  <1>2. ASSUME NEW a \in Account, NEW s \in TargetState, TransitionAccountState(a, s)
        PROVE  Goal
    <2>1. /\ a \in AllAccounts
          /\ accounts[a] \in [state : AccountState \cup {"absent"}, overdraft : Nat]
          /\ accounts[a].state # "absent" /\ s # "absent"
      BY <1>2 DEF TransitionAccountState, CanTransitionTo, IInv, TypeOK, AllAccounts
    <2>2. /\ accounts'[a].state = s /\ accounts'[a].overdraft = accounts[a].overdraft
          /\ \A b \in AllAccounts \ {a} : accounts'[b] = accounts[b]
          /\ UNCHANGED <<txns, holds, ledgerSum, heldSum>>
      BY <1>2, <2>1 DEF TransitionAccountState, IInv, TypeOK
    <2>3. \A b \in AllAccounts :
            Exists(b)' = Exists(b) /\ accounts'[b].overdraft = accounts[b].overdraft
      BY <2>1, <2>2 DEF Exists
    <2>4. QED
      BY <2>2, <2>3
      DEF IInv, AvailableWithinOverdraft, Available, OnlyOpenedAccountsHaveRows, TypeOK,
          Hold, NoHold, AllAccounts
  <1>3. ASSUME NEW a \in Account, NEW x \in Amount, NEW k \in Key, Credit(a, x, k)
        PROVE  Goal
    BY <1>3, <1>l, PostInv DEF Credit
  <1>4. ASSUME NEW a \in Account, NEW x \in Amount, NEW k \in Key, Debit(a, x, k)
        PROVE  Goal
    BY <1>4, <1>l, PostInv DEF Debit
  <1>5. ASSUME NEW a \in Account, NEW b \in Account, NEW x \in Amount, NEW k \in Key,
               Transfer(a, b, x, k)
        PROVE  Goal
    BY <1>5, <1>l, PostInv DEF Transfer
  <1>6. ASSUME NEW h \in HoldId, NEW a \in Account, NEW x \in Amount, PlaceHold(h, a, x)
        PROVE  Goal
    <2>1. /\ a \in AllAccounts /\ Exists(a) /\ x \in Int
          /\ ledgerSum[a] - heldSum[a] - x >= -accounts[a].overdraft
          /\ heldSum' = [heldSum EXCEPT ![a] = @ + x]
          /\ holds' = [holds EXCEPT ![h] = [status |-> "active", account |-> a, amount |-> x]]
          /\ UNCHANGED <<accounts, txns, ledgerSum>>
      BY <1>6, AmountAssumption DEF PlaceHold, Available, AllAccounts
    <2>2. AvailableWithinOverdraft'
      BY <1>t, <2>1 DEF IInv, TypeOK, AvailableWithinOverdraft, Available, Exists
    <2>3. OnlyOpenedAccountsHaveRows'
      BY <2>1 DEF IInv, TypeOK, OnlyOpenedAccountsHaveRows, Exists
    <2>4. QED
      BY <2>2, <2>3
  <1>7. ASSUME NEW h \in HoldId, NEW s \in {"released", "captured"}, ResolveHold(h, s)
        PROVE  /\ holds[h].account \in AllAccounts /\ Exists(holds[h].account)
               /\ \A a \in AllAccounts : heldSum'[a] \in Int /\ heldSum'[a] <= heldSum[a]
               /\ \A a \in AllAccounts : ~Exists(a) => heldSum'[a] = 0
               /\ \A g \in HoldId : holds'[g] # NoHold =>
                    holds[g] # NoHold /\ holds'[g].account = holds[g].account
    <2>1. holds[h] \in Hold
      BY <1>7 DEF ResolveHold, IInv, TypeOK, NoHold
    <2>2. /\ holds[h].account \in AllAccounts /\ holds[h].amount \in Nat
          /\ holds[h] # NoHold /\ Exists(holds[h].account)
      BY <1>7, <2>1, AmountAssumption
      DEF ResolveHold, Hold, NoHold, AllAccounts, IInv, OnlyOpenedAccountsHaveRows
    <2>3. \A a \in AllAccounts : heldSum'[a] \in Int /\ heldSum'[a] <= heldSum[a]
      BY <1>7, <1>t, <2>2 DEF ResolveHold, IInv, TypeOK
    <2>4. \A a \in AllAccounts : ~Exists(a) => heldSum'[a] = 0
      BY <1>7, <2>2 DEF ResolveHold, IInv, TypeOK, OnlyOpenedAccountsHaveRows
    <2>5. \A g \in HoldId : holds'[g] # NoHold =>
            holds[g] # NoHold /\ holds'[g].account = holds[g].account
      BY <1>7, <2>1, <2>2 DEF ResolveHold, IInv, TypeOK, Hold
    <2>6. QED
      BY <2>2, <2>3, <2>4, <2>5
  <1>8. ASSUME NEW h \in HoldId, ReleaseHold(h)
        PROVE  Goal
    <2>1. /\ ResolveHold(h, "released")
          /\ UNCHANGED <<accounts, txns, ledgerSum>>
      BY <1>8 DEF ReleaseHold
    <2>2. AvailableWithinOverdraft'
      BY <1>7, <1>t, <2>1 DEF IInv, AvailableWithinOverdraft, Available, Exists
    <2>3. OnlyOpenedAccountsHaveRows'
      BY <1>7, <2>1 DEF IInv, OnlyOpenedAccountsHaveRows, Exists
    <2>4. QED
      BY <2>2, <2>3
  <1>9. ASSUME NEW h \in HoldId, NEW k \in Key, CaptureHold(h, k)
        PROVE  Goal
    <2> DEFINE legs == DebitLegs(holds[h].account, holds[h].amount)
    <2>1. ResolveHold(h, "captured") /\ InsertEntries(legs) /\ UNCHANGED accounts
      BY <1>9 DEF CaptureHold
    <2>2. holds[h] \in Hold
      BY <2>1 DEF ResolveHold, IInv, TypeOK, NoHold
    <2>3. holds[h].account \in Account /\ holds[h].amount \in Amount
      BY <2>2 DEF Hold
    <2>4. legs \in Legs
      BY <1>l, <2>3
    <2>5. /\ WithinOverdraft(ledgerSum')
          /\ \A a \in AllAccounts : ~Exists(a) => ledgerSum'[a] = 0
      BY <2>1, <2>4, InsertWithinOverdraft
    <2>6. \A a \in AllAccounts : ledgerSum'[a] \in Int
      BY <2>1, <2>4, InsertTyped DEF IInv
    <2>7. AvailableWithinOverdraft'
      BY <1>7, <1>t, <2>1, <2>5, <2>6
      DEF WithinOverdraft, AvailableWithinOverdraft, Available, Exists
    <2>8. OnlyOpenedAccountsHaveRows'
      BY <1>7, <2>1, <2>5 DEF IInv, OnlyOpenedAccountsHaveRows, Exists
    <2>9. QED
      BY <2>7, <2>8
  <1>10. ASSUME NEW o \in Key, NEW k \in Key, ReverseTransaction(o, k)
         PROVE  Goal
    <2>1. txns[o] \in Txn
      BY <1>10 DEF ReverseTransaction, IInv, TypeOK, NoTxn
    <2>2. PICK legs \in Compensating(txns[o].legs) : InsertEntries(legs)
      BY <1>10 DEF ReverseTransaction
    <2>3. legs \in Legs
      BY <2>1, <2>2, CompensatingTyped DEF Txn
    <2>4. /\ WithinOverdraft(ledgerSum')
          /\ \A a \in AllAccounts : ~Exists(a) => ledgerSum'[a] = 0
      BY <2>2, <2>3, InsertWithinOverdraft
    <2>5. QED
      BY <1>10, <2>4
      DEF ReverseTransaction, WithinOverdraft, AvailableWithinOverdraft, Available, Exists,
          OnlyOpenedAccountsHaveRows, IInv
  <1>11. CASE UNCHANGED vars
    BY <1>11 DEF vars, IInv, AvailableWithinOverdraft, Available, Exists, OnlyOpenedAccountsHaveRows
  <1>12. QED
    BY <1>1, <1>2, <1>3, <1>4, <1>5, <1>6, <1>8, <1>9, <1>10, <1>11 DEF Next

\* The invariant holds initially: nothing is posted and nothing held.
LEMMA InitWithinOverdraft == Init => IInv
  <1> SUFFICES ASSUME Init PROVE AvailableWithinOverdraft /\ OnlyOpenedAccountsHaveRows
    BY InitTyped DEF IInv
  <1>1. \A a \in AllAccounts :
          ledgerSum[a] = 0 /\ heldSum[a] = 0 /\ accounts[a].overdraft \in Nat
    BY OverdraftAssumption DEF Init, NoAccount
  <1>2. QED
    BY <1>1 DEF Init, AvailableWithinOverdraft, Available, OnlyOpenedAccountsHaveRows

\* No interleaving of postings, holds, captures, releases and reversals takes
\* an account's available balance past its authorized overdraft.
THEOREM NeverPastOverdraft == Spec => []AvailableWithinOverdraft
  <1>1. IInv /\ [Next]_vars => IInv'
    BY NextTyped, NextWithinOverdraft DEF IInv
  <1>2. IInv => AvailableWithinOverdraft
    BY DEF IInv
  <1>3. QED
    BY <1>1, <1>2, InitWithinOverdraft, PTL DEF Spec

\* Postings and holds refer to opened accounts only.
THEOREM RowsReferToAccounts == Spec => []OnlyOpenedAccountsHaveRows
  <1>1. IInv /\ [Next]_vars => IInv'
    BY NextTyped, NextWithinOverdraft DEF IInv
  <1>2. IInv => OnlyOpenedAccountsHaveRows
    BY DEF IInv
  <1>3. QED
    BY <1>1, <1>2, InitWithinOverdraft, PTL DEF Spec

-----------------------------------------------------------------------------
(***************************************************************************)
(* Captures and reversals happen once.  A transaction is known by the      *)
(* request its idempotency key was first used for, which no operation      *)
(* changes; so it is enough to follow which request each step adds.        *)
(***************************************************************************)
AddsRequest(key, request) ==
    /\ txns[key] = NoTxn
    /\ txns'[key] # NoTxn /\ txns'[key].request = request
    /\ \A k \in Key \ {key} :
         /\ txns'[k] = NoTxn <=> txns[k] = NoTxn
         /\ txns[k] # NoTxn => /\ txns'[k].request = txns[k].request
                               /\ txns'[k].legs = txns[k].legs

\* The three kinds of request are told apart, and name what they capture or reverse.
LEMMA RequestsDiffer ==
    /\ \A t, l, h : LegsRequest(t, l) # CaptureRequest(h)
    /\ \A t, l, o : LegsRequest(t, l) # ReversalRequest(o)
    /\ \A h, o : CaptureRequest(h) # ReversalRequest(o)
    /\ \A h, g : CaptureRequest(h) = CaptureRequest(g) => h = g
    /\ \A o, p : ReversalRequest(o) = ReversalRequest(p) => o = p
  BY DEF LegsRequest, CaptureRequest, ReversalRequest

\* A step that adds a request adds its key to the captures and reversals it is one of.
LEMMA AddedRequest ==
    ASSUME NEW key \in Key, NEW request, AddsRequest(key, request)
    PROVE  /\ \A h : Captures(h)' = IF request = CaptureRequest(h) THEN Captures(h) \cup {key}
                                                                   ELSE Captures(h)
           /\ \A o : Reversals(o)' = IF request = ReversalRequest(o) THEN Reversals(o) \cup {key}
                                                                     ELSE Reversals(o)
  BY DEF AddsRequest, Captures, Reversals

\* A posting adds the request for its legs.
LEMMA PostAdds ==
    ASSUME TypeOK, NEW type, NEW key \in Key, NEW legs, PostTransaction(type, key, legs)
    PROVE  AddsRequest(key, LegsRequest(type, legs)) /\ UNCHANGED holds
           /\ txns'[key].state = "posted" /\ \A k \in Key \ {key} : txns'[k] = txns[k]
  <1>1. /\ txns' = [txns EXCEPT ![key] = Posted(type, legs, LegsRequest(type, legs))]
        /\ txns[key] = NoTxn /\ UNCHANGED holds
    BY DEF PostTransaction, Unused
  <1>2. txns'[key] = Posted(type, legs, LegsRequest(type, legs))
    BY <1>1 DEF TypeOK
  <1>3. \A k \in Key \ {key} : txns'[k] = txns[k]
    BY <1>1 DEF TypeOK
  <1>4. QED
    BY <1>1, <1>2, <1>3 DEF AddsRequest, Posted, NoTxn

\* What a capture does to the tables.
LEMMA CaptureAdds ==
    ASSUME TypeOK, NEW h \in HoldId, NEW key \in Key, CaptureHold(h, key)
    PROVE  /\ AddsRequest(key, CaptureRequest(h))
           /\ txns'[key].state = "posted" /\ \A k \in Key \ {key} : txns'[k] = txns[k]
           /\ txns'[key].legs = DebitLegs(holds[h].account, holds[h].amount)
           /\ holds[h].status = "active" /\ holds' = [holds EXCEPT ![h].status = "captured"]
  <1> DEFINE legs == DebitLegs(holds[h].account, holds[h].amount)
  <1>1. /\ txns' = [txns EXCEPT ![key] = Posted("debit", legs, CaptureRequest(h))]
        /\ txns[key] = NoTxn
        /\ holds[h].status = "active" /\ holds' = [holds EXCEPT ![h].status = "captured"]
    BY DEF CaptureHold, ResolveHold, Unused
  <1> HIDE DEF legs
  <1>2. txns'[key] = Posted("debit", legs, CaptureRequest(h))
    BY <1>1 DEF TypeOK
  <1>3. \A k \in Key \ {key} : txns'[k] = txns[k]
    BY <1>1 DEF TypeOK
  <1>4. AddsRequest(key, CaptureRequest(h)) /\ txns'[key].state = "posted" /\ txns'[key].legs = legs
    BY <1>1, <1>2, <1>3 DEF AddsRequest, Posted, NoTxn
  <1>5. QED
    BY <1>1, <1>3, <1>4 DEF legs

\* What a reversal does to the tables.
LEMMA ReversalAdds ==
    ASSUME TypeOK, NEW o \in Key, NEW key \in Key, ReverseTransaction(o, key)
    PROVE  /\ AddsRequest(key, ReversalRequest(o)) /\ UNCHANGED holds
           /\ o # key /\ txns[o].state = "posted"
           /\ txns'[o] = [txns[o] EXCEPT !.state = "reversed"]
           /\ txns'[key].state = "posted" /\ txns'[key].legs \in Compensating(txns[o].legs)
           /\ \A k \in Key \ {key, o} : txns'[k] = txns[k]
  <1>1. PICK legs \in Compensating(txns[o].legs) :
          txns' = [txns EXCEPT ![key] = Posted("reversal", legs, ReversalRequest(o)),
                               ![o].state = "reversed"]
    BY DEF ReverseTransaction
  <1>2. /\ txns[key] = NoTxn /\ txns[o].state = "posted" /\ txns[o] \in Txn /\ UNCHANGED holds
    BY DEF ReverseTransaction, Unused, TypeOK, NoTxn
  <1>3. o # key
    BY <1>2 DEF NoTxn
  <1>4. txns'[key] = Posted("reversal", legs, ReversalRequest(o))
    BY <1>1, <1>3 DEF TypeOK
  <1>5. txns'[o] = [txns[o] EXCEPT !.state = "reversed"]
    BY <1>1, <1>3 DEF TypeOK
  <1>6. \A k \in Key \ {key, o} : txns'[k] = txns[k]
    BY <1>1 DEF TypeOK
  <1>7. /\ txns'[o].request = txns[o].request /\ txns'[o].legs = txns[o].legs
        /\ txns'[o] # NoTxn /\ txns[o] # NoTxn
    BY <1>2, <1>5 DEF Txn, NoTxn
  <1>8. AddsRequest(key, ReversalRequest(o))
    BY <1>2, <1>4, <1>6, <1>7 DEF AddsRequest, Posted, NoTxn
  <1>9. txns'[key].state = "posted" /\ txns'[key].legs = legs
    BY <1>4 DEF Posted
  <1>10. QED
    BY <1>1, <1>2, <1>3, <1>5, <1>6, <1>8, <1>9

\* No step captures a hold a second time, or marks one captured without its debit.
LEMMA NextCaptured == TypeOK /\ CapturedExactlyOnce /\ [Next]_vars => CapturedExactlyOnce'
  <1> SUFFICES ASSUME TypeOK, CapturedExactlyOnce, [Next]_vars, NEW g \in HoldId
               PROVE  \/ holds'[g].status # "captured" /\ Captures(g)' = {}
                      \/ /\ holds'[g].status = "captured"
                         /\ \E k \in Key :
                              /\ Captures(g)' = {k}
                              /\ txns'[k].legs = DebitLegs(holds'[g].account, holds'[g].amount)
    BY DEF CapturedExactlyOnce
  <1> DEFINE Goal == \/ holds'[g].status # "captured" /\ Captures(g)' = {}
                     \/ /\ holds'[g].status = "captured"
                        /\ \E k \in Key :
                             /\ Captures(g)' = {k}
                             /\ txns'[k].legs = DebitLegs(holds'[g].account, holds'[g].amount)
  <1>1. ASSUME UNCHANGED <<txns, holds>>
        PROVE  Goal
    <2>1. Captures(g)' = Captures(g)
      BY <1>1 DEF Captures
    <2>2. QED
      BY <1>1, <2>1 DEF CapturedExactlyOnce
  <1>2. ASSUME NEW key \in Key, NEW request, AddsRequest(key, request), UNCHANGED holds,
               \A h : request # CaptureRequest(h)
        PROVE  Goal
    <2>1. Captures(g)' = Captures(g)
      BY <1>2, AddedRequest
    <2>2. \A k \in Captures(g) : txns'[k].legs = txns[k].legs
      BY <1>2 DEF AddsRequest, Captures
    <2>3. QED
      BY <1>2, <2>1, <2>2 DEF CapturedExactlyOnce
  <1>3. ASSUME NEW type, NEW key \in Key, NEW legs, PostTransaction(type, key, legs)
        PROVE  Goal
    BY <1>2, <1>3, PostAdds, RequestsDiffer
  <1>4. ASSUME NEW h \in HoldId, NEW a \in Account, NEW x \in Amount, PlaceHold(h, a, x)
        PROVE  Goal
    <2>1. Captures(g)' = Captures(g) /\ UNCHANGED txns
      BY <1>4 DEF PlaceHold, Captures
    <2>2. CASE g = h
      <3>1. holds[g].status # "captured" /\ holds'[g].status # "captured"
        BY <1>4, <2>2 DEF PlaceHold, NoHold, TypeOK
      <3>2. QED
        BY <2>1, <3>1 DEF CapturedExactlyOnce
    <2>3. CASE g # h
      <3>1. holds'[g] = holds[g]
        BY <1>4, <2>3 DEF PlaceHold, TypeOK
      <3>2. QED
        BY <2>1, <3>1 DEF CapturedExactlyOnce
    <2>4. QED
      BY <2>2, <2>3
  <1>5. ASSUME NEW h \in HoldId, ReleaseHold(h)
        PROVE  Goal
    <2>1. /\ Captures(g)' = Captures(g) /\ UNCHANGED txns
          /\ holds[h].status = "active" /\ holds' = [holds EXCEPT ![h].status = "released"]
      BY <1>5 DEF ReleaseHold, ResolveHold, Captures
    <2>2. CASE g = h
      <3>1. holds[g] \in Hold
        BY <2>1, <2>2 DEF TypeOK, NoHold
      <3>2. holds[g].status # "captured" /\ holds'[g].status # "captured"
        BY <2>1, <2>2, <3>1 DEF TypeOK, Hold
      <3>3. QED
        BY <2>1, <3>2 DEF CapturedExactlyOnce
    <2>3. CASE g # h
      <3>1. holds'[g] = holds[g]
        BY <2>1, <2>3 DEF TypeOK
      <3>2. QED
        BY <2>1, <3>1 DEF CapturedExactlyOnce
    <2>4. QED
      BY <2>2, <2>3
  <1>6. ASSUME NEW h \in HoldId, NEW key \in Key, CaptureHold(h, key)
        PROVE  Goal
    <2>1. /\ AddsRequest(key, CaptureRequest(h))
          /\ txns'[key].legs = DebitLegs(holds[h].account, holds[h].amount)
          /\ holds[h].status = "active" /\ holds' = [holds EXCEPT ![h].status = "captured"]
      BY <1>6, CaptureAdds
    <2>2. CASE g = h
      <3>1. Captures(g) = {}
        BY <2>1, <2>2 DEF CapturedExactlyOnce
      <3>2. Captures(g)' = {key}
        BY <2>1, <2>2, <3>1, AddedRequest
      <3>3. holds[g] \in Hold
        BY <2>1, <2>2 DEF TypeOK, NoHold
      <3>4. /\ holds'[g].status = "captured"
            /\ holds'[g].account = holds[g].account /\ holds'[g].amount = holds[g].amount
        BY <2>1, <2>2, <3>3 DEF TypeOK, Hold
      <3>5. QED
        BY <2>1, <2>2, <3>2, <3>4
    <2>3. CASE g # h
      <3>1. holds'[g] = holds[g]
        BY <2>1, <2>3 DEF TypeOK
      <3>2. Captures(g)' = Captures(g)
        BY <2>1, <2>3, AddedRequest, RequestsDiffer
      <3>3. \A k \in Captures(g) : txns'[k].legs = txns[k].legs
        BY <2>1 DEF AddsRequest, Captures
      <3>4. QED
        BY <3>1, <3>2, <3>3 DEF CapturedExactlyOnce
    <2>4. QED
      BY <2>2, <2>3
  <1>7. ASSUME NEW o \in Key, NEW key \in Key, ReverseTransaction(o, key)
        PROVE  Goal
    <2>1. AddsRequest(key, ReversalRequest(o)) /\ UNCHANGED holds
      BY <1>7, ReversalAdds
    <2>2. \A h : ReversalRequest(o) # CaptureRequest(h)
      BY RequestsDiffer
    <2> HIDE DEF Goal
    <2>3. QED
      BY <1>2, <2>1, <2>2
  <1>8. CASE UNCHANGED vars
    BY <1>1, <1>8 DEF vars
  <1> HIDE DEF Goal
  <1>9. ASSUME Next PROVE Goal
    BY <1>1, <1>3, <1>4, <1>5, <1>6, <1>7, <1>9
    DEF Next, Credit, Debit, Transfer, OpenAccount, TransitionAccountState
  <1>10. QED
    BY <1>8, <1>9 DEF Goal

\* A hold is captured by exactly one posted debit of its amount.
THEOREM CaptureMovesMoneyOnce == Spec => []CapturedExactlyOnce
  <1>1. Init => CapturedExactlyOnce
    BY DEF Init, CapturedExactlyOnce, Captures, NoHold
  <1>2. QED
    BY <1>1, InitTyped, NextTyped, NextCaptured, PTL DEF Spec

\* No step reverses a transaction a second time, or marks one reversed
\* without compensating its entries.
LEMMA NextReversed == TypeOK /\ ReversedExactlyOnce /\ [Next]_vars => ReversedExactlyOnce'
  <1> SUFFICES ASSUME TypeOK, ReversedExactlyOnce, [Next]_vars, NEW p \in Key
               PROVE  \/ txns'[p].state # "reversed" /\ Reversals(p)' = {}
                      \/ /\ txns'[p].state = "reversed"
                         /\ \E k \in Key :
                              /\ Reversals(p)' = {k}
                              /\ txns'[k].legs \in Compensating(txns'[p].legs)
    BY DEF ReversedExactlyOnce
  <1> DEFINE Goal == \/ txns'[p].state # "reversed" /\ Reversals(p)' = {}
                     \/ /\ txns'[p].state = "reversed"
                        /\ \E k \in Key :
                             /\ Reversals(p)' = {k}
                             /\ txns'[k].legs \in Compensating(txns'[p].legs)
  <1>1. ASSUME UNCHANGED txns
        PROVE  Goal
    <2>1. Reversals(p)' = Reversals(p)
      BY <1>1 DEF Reversals
    <2>2. QED
      BY <1>1, <2>1 DEF ReversedExactlyOnce
  <1>2. ASSUME NEW key \in Key, NEW request, AddsRequest(key, request),
               txns'[key].state = "posted", \A k \in Key \ {key} : txns'[k] = txns[k],
               \A o : request # ReversalRequest(o)
        PROVE  Goal
    <2>1. Reversals(p)' = Reversals(p)
      BY <1>2, AddedRequest
    <2>2. CASE p = key
      <3>1. txns[p].state # "reversed" /\ txns'[p].state # "reversed"
        BY <1>2, <2>2 DEF AddsRequest, NoTxn
      <3>2. QED
        BY <2>1, <3>1 DEF ReversedExactlyOnce
    <2>3. CASE p # key
      <3>1. txns'[p] = txns[p] /\ \A k \in Reversals(p) : txns'[k] = txns[k]
        BY <1>2, <2>3 DEF AddsRequest, Reversals
      <3>2. QED
        BY <2>1, <3>1 DEF ReversedExactlyOnce
    <2>4. QED
      BY <2>2, <2>3
  <1>3. ASSUME NEW type, NEW key \in Key, NEW legs, PostTransaction(type, key, legs)
        PROVE  Goal
    <2>1. /\ AddsRequest(key, LegsRequest(type, legs))
          /\ txns'[key].state = "posted" /\ \A k \in Key \ {key} : txns'[k] = txns[k]
      BY <1>3, PostAdds
    <2>2. \A o : LegsRequest(type, legs) # ReversalRequest(o)
      BY RequestsDiffer
    <2> HIDE DEF Goal
    <2>3. QED
      BY <1>2, <2>1, <2>2
  <1>4. ASSUME NEW h \in HoldId, NEW key \in Key, CaptureHold(h, key)
        PROVE  Goal
    <2>1. /\ AddsRequest(key, CaptureRequest(h))
          /\ txns'[key].state = "posted" /\ \A k \in Key \ {key} : txns'[k] = txns[k]
      BY <1>4, CaptureAdds
    <2>2. \A o : CaptureRequest(h) # ReversalRequest(o)
      BY RequestsDiffer
    <2> HIDE DEF Goal
    <2>3. QED
      BY <1>2, <2>1, <2>2
  <1>5. ASSUME NEW o \in Key, NEW key \in Key, ReverseTransaction(o, key)
        PROVE  Goal
    <2>1. /\ AddsRequest(key, ReversalRequest(o))
          /\ o # key /\ txns[o].state = "posted"
          /\ txns'[o] = [txns[o] EXCEPT !.state = "reversed"]
          /\ txns'[key].state = "posted" /\ txns'[key].legs \in Compensating(txns[o].legs)
          /\ \A k \in Key \ {key, o} : txns'[k] = txns[k]
      BY <1>5, ReversalAdds
    <2>2. Reversals(p)' = IF p = o THEN Reversals(p) \cup {key} ELSE Reversals(p)
      BY <2>1, AddedRequest, RequestsDiffer
    <2>3. txns[o] \in Txn
      BY <2>1 DEF TypeOK, NoTxn
    <2>4. txns'[o].state = "reversed" /\ txns'[o].legs = txns[o].legs
      BY <2>1, <2>3 DEF Txn
    <2>5. CASE p = o
      <3>1. Reversals(p) = {}
        BY <2>1, <2>5 DEF ReversedExactlyOnce
      <3>2. Reversals(p)' = {key}
        BY <2>2, <2>5, <3>1
      <3>3. QED
        BY <2>1, <2>4, <2>5, <3>2
    <2>6. CASE p = key
      <3>1. txns[p].state # "reversed" /\ txns'[p].state # "reversed"
        BY <2>1, <2>6 DEF AddsRequest, NoTxn
      <3>2. QED
        BY <2>1, <2>2, <2>6, <3>1 DEF ReversedExactlyOnce
    <2>7. CASE p # o /\ p # key
      <3>1. txns'[p] = txns[p]
        BY <2>1, <2>7
      <3>2. \A k \in Reversals(p) : txns'[k].legs = txns[k].legs
        BY <2>1 DEF AddsRequest, Reversals
      <3>3. QED
        BY <2>2, <2>7, <3>1, <3>2 DEF ReversedExactlyOnce
    <2>8. QED
      BY <2>5, <2>6, <2>7
  <1>6. CASE UNCHANGED vars
    BY <1>1, <1>6 DEF vars
  <1> HIDE DEF Goal
  <1>7. ASSUME Next PROVE Goal
    BY <1>1, <1>3, <1>4, <1>5, <1>7
    DEF Next, Credit, Debit, Transfer, OpenAccount, TransitionAccountState, PlaceHold, ReleaseHold
  <1>8. QED
    BY <1>6, <1>7 DEF Goal

\* A reversed transaction has exactly one reversal, which compensates it.
THEOREM ReversalCompensatesOnce == Spec => []ReversedExactlyOnce
  <1>1. Init => ReversedExactlyOnce
    BY DEF Init, ReversedExactlyOnce, Reversals, NoTxn
  <1>2. QED
    BY <1>1, InitTyped, NextTyped, NextReversed, PTL DEF Spec

-----------------------------------------------------------------------------
\* Every step appends to the history, and edits nothing in it but the state of
\* a reversed transaction, the status of a resolved hold and the state of an
\* account that is not closed.
LEMMA NextAppends == TypeOK /\ [Next]_vars => AppendOnlyStep
  <1> SUFFICES ASSUME TypeOK, [Next]_vars PROVE AppendOnlyStep
    OBVIOUS
  <1>1. ASSUME NEW a \in Account, NEW o \in Overdraft, OpenAccount(a, o)
        PROVE  AppendOnlyStep
    <2>1. accounts[a].state = "absent" /\ \A b \in Account \ {a} : accounts'[b] = accounts[b]
      BY <1>1 DEF OpenAccount, Exists, TypeOK, AllAccounts
    <2>2. QED
      BY <1>1, <2>1 DEF OpenAccount, AppendOnlyStep
  <1>2. ASSUME NEW a \in Account, NEW s \in TargetState, TransitionAccountState(a, s)
        PROVE  AppendOnlyStep
    <2>1. accounts[a].state # "closed" /\ \A b \in Account \ {a} : accounts'[b] = accounts[b]
      BY <1>2 DEF TransitionAccountState, CanTransitionTo, TypeOK, AllAccounts
    <2>2. QED
      BY <1>2, <2>1 DEF TransitionAccountState, AppendOnlyStep
  <1>3. ASSUME NEW type, NEW key \in Key, NEW legs, PostTransaction(type, key, legs)
        PROVE  AppendOnlyStep
    <2>1. txns[key] = NoTxn /\ \A k \in Key \ {key} : txns'[k] = txns[k]
      BY <1>3, PostAdds DEF AddsRequest
    <2>2. QED
      BY <1>3, <2>1 DEF PostTransaction, AppendOnlyStep
  <1>4. ASSUME NEW h \in HoldId, NEW a \in Account, NEW x \in Amount, PlaceHold(h, a, x)
        PROVE  AppendOnlyStep
    <2>1. holds[h] = NoHold /\ \A g \in HoldId \ {h} : holds'[g] = holds[g]
      BY <1>4 DEF PlaceHold, TypeOK
    <2>2. QED
      BY <1>4, <2>1 DEF PlaceHold, AppendOnlyStep
  <1>5. ASSUME NEW h \in HoldId, NEW s \in {"released", "captured"},
               holds[h].status = "active", holds' = [holds EXCEPT ![h].status = s]
        PROVE  \A g \in HoldId : holds[g] # NoHold =>
                 \/ holds'[g] = holds[g]
                 \/ /\ holds[g].status = "active"
                    /\ \E t \in {"released", "captured"} :
                         holds'[g] = [holds[g] EXCEPT !.status = t]
    <2>1. holds'[h] = [holds[h] EXCEPT !.status = s]
      BY <1>5 DEF TypeOK
    <2>2. \A g \in HoldId \ {h} : holds'[g] = holds[g]
      BY <1>5 DEF TypeOK
    <2>3. QED
      BY <1>5, <2>1, <2>2
  <1>6. ASSUME NEW h \in HoldId, ReleaseHold(h)
        PROVE  AppendOnlyStep
    BY <1>5, <1>6 DEF ReleaseHold, ResolveHold, AppendOnlyStep
  <1>7. ASSUME NEW h \in HoldId, NEW key \in Key, CaptureHold(h, key)
        PROVE  AppendOnlyStep
    <2>1. txns[key] = NoTxn /\ \A k \in Key \ {key} : txns'[k] = txns[k]
      BY <1>7, CaptureAdds DEF AddsRequest
    <2>2. QED
      BY <1>5, <1>7, <2>1 DEF CaptureHold, ResolveHold, AppendOnlyStep
  <1>8. ASSUME NEW o \in Key, NEW key \in Key, ReverseTransaction(o, key)
        PROVE  AppendOnlyStep
    <2>1. /\ txns[key] = NoTxn /\ txns'[o] = [txns[o] EXCEPT !.state = "reversed"]
          /\ \A k \in Key \ {key, o} : txns'[k] = txns[k]
      BY <1>8, ReversalAdds DEF AddsRequest
    <2>2. QED
      BY <1>8, <2>1 DEF ReverseTransaction, AppendOnlyStep
  <1>9. CASE UNCHANGED vars
    BY <1>9 DEF vars, AppendOnlyStep
  <1>10. QED
    BY <1>1, <1>2, <1>3, <1>4, <1>6, <1>7, <1>8, <1>9 DEF Next, Credit, Debit, Transfer

\* A committed request stays committed.
LEMMA RequestsStay ==
    ASSUME TypeOK, [Next]_vars, NEW k \in Key, ~Unused(k)
    PROVE  ~Unused(k)' /\ txns'[k].request = txns[k].request
<1>1. txns[k] \in Txn /\ txns'[k] \in {txns[k], [txns[k] EXCEPT !.state = "reversed"]}
  BY NextAppends DEF AppendOnlyStep, TypeOK, Unused
<1> QED
  BY <1>1 DEF Txn, Unused, NoTxn

\* The history of the ledger is append-only.
THEOREM HistoryOnlyGrows == Spec => HistoryIsAppendOnly
  BY InitTyped, NextTyped, NextAppends, PTL DEF Spec, HistoryIsAppendOnly
-----------------------------------------------------------------------------
(***************************************************************************)
(* The books balance.  The sums run over the rows there are, so these have *)
(* to be finitely many; and an account starts with nothing.                *)
(***************************************************************************)
BooksFinite == IsFiniteSet(Committed) /\ IsFiniteSet(Opened) /\ IsFiniteSet(ActiveHolds)
Total == SumFunctionOnSet(ledgerSum, Opened)
EntriesAddUp == Total = 0 /\ \A a \in AllAccounts : ledgerSum[a] = EntrySum(a)
HoldsAddUp == \A a \in AllAccounts : heldSum[a] = ActiveHoldSum(a)
BooksInv == IInv /\ BooksFinite /\ EntriesAddUp /\ HoldsAddUp

PartOf(k, a) == Part(txns[k].legs[1], a) + Part(txns[k].legs[2], a)

\* What typed rows contribute is an integer.
LEMMA PartsTyped ==
    ASSUME TypeOK, NEW a
    PROVE  /\ \A k \in Committed : txns[k].legs \in Legs /\ PartOf(k, a) \in Int
           /\ \A h \in ActiveHolds : holds[h] \in Hold /\ Part(holds[h], a) \in Int
<1>1. ASSUME NEW k \in Committed
      PROVE  txns[k].legs \in Legs /\ PartOf(k, a) \in Int
  <2>1. txns[k] \in Txn
    BY <1>1 DEF Committed, Unused, TypeOK
  <2>2. txns[k].legs \in Legs
    BY <2>1 DEF Txn
  <2> QED
    BY <2>2 DEF Legs, Entry, PartOf, Part
<1>2. ASSUME NEW h \in ActiveHolds
      PROVE  holds[h] \in Hold /\ Part(holds[h], a) \in Int
  <2>1. holds[h] \in Hold
    BY <1>2 DEF ActiveHolds, NoHold, TypeOK
  <2>2. holds[h].amount \in Amount
    BY <2>1 DEF Hold
  <2>3. holds[h].amount \in Int
    <3>1. \A x \in Amount : x \in Int
      BY AmountAssumption
    <3> QED
      BY <2>2, <3>1, Zenon
  <2>4. Part(holds[h], a) \in {holds[h].amount, 0}
    BY DEF Part
  <2> QED
    BY <2>1, <2>3, <2>4
<1> QED
  BY <1>1, <1>2

\* The two sums, over any function that has the values of the rows.
LEMMA SumsOfRows ==
    ASSUME BooksFinite, NEW a
    PROVE  /\ \A f : (\A k \in Committed : f[k] = PartOf(k, a)) => EntrySum(a) = SumFunctionOnSet(f, Committed)
           /\ \A f : (\A h \in ActiveHolds : f[h] = Part(holds[h], a))
                       => ActiveHoldSum(a) = SumFunctionOnSet(f, ActiveHolds)
<1>1. ASSUME NEW f, \A k \in Committed : f[k] = PartOf(k, a)
      PROVE  EntrySum(a) = SumFunctionOnSet(f, Committed)
  <2> DEFINE g == [k \in Committed |-> PartOf(k, a)]
  <2>1. EntrySum(a) = SumFunctionOnSet(g, Committed)
    BY DEF EntrySum, SumFunction, PartOf
  <2>2. \A k \in Committed : g[k] = f[k]
    BY <1>1
  <2> QED
    BY <2>1, <2>2, SumsSame DEF BooksFinite
<1>2. ASSUME NEW f, \A h \in ActiveHolds : f[h] = Part(holds[h], a)
      PROVE  ActiveHoldSum(a) = SumFunctionOnSet(f, ActiveHolds)
  <2> DEFINE g == [h \in ActiveHolds |-> Part(holds[h], a)]
  <2>1. ActiveHoldSum(a) = SumFunctionOnSet(g, ActiveHolds)
    BY DEF ActiveHoldSum, SumFunction
  <2>2. \A h \in ActiveHolds : g[h] = f[h]
    BY <1>2
  <2> QED
    BY <2>1, <2>2, SumsSame DEF BooksFinite
<1> QED
  BY <1>1, <1>2

\* The whole of the books is the sum of the accounts' balances.
LEMMA TotalIs ==
    ASSUME IsFiniteSet(Opened), \A a \in Opened : ledgerSum[a] = EntrySum(a)
    PROVE  SumFunction([a \in Opened |-> EntrySum(a)]) = Total
<1> DEFINE g == [a \in Opened |-> EntrySum(a)]
<1>1. SumFunction(g) = SumFunctionOnSet(g, Opened)
  BY DEF SumFunction
<1>2. \A a \in Opened : g[a] = ledgerSum[a]
  OBVIOUS
<1> QED
  BY <1>1, <1>2, SumsSame DEF Total

\* What a step that commits one more transaction, under key, does to the entries.
Commits(key, legs) ==
    /\ key \in Key /\ Unused(key) /\ legs \in Legs
    /\ ~Unused(key)' /\ txns'[key].legs = legs
    /\ \A k \in Key \ {key} : Unused(k)' = Unused(k) /\ txns'[k].legs = txns[k].legs

\* The entries committed are those there were and the new ones.
LEMMA CommitAdds ==
    ASSUME TypeOK, TypeOK', BooksFinite, NEW key, NEW legs, Commits(key, legs)
    PROVE  /\ IsFiniteSet(Committed)'
           /\ \A a \in AllAccounts : EntrySum(a)' = EntrySum(a) + Part(legs[1], a) + Part(legs[2], a)
<1>1. Committed' = Committed \cup {key} /\ key \notin Committed /\ Committed \subseteq Key
  BY DEF Commits, Committed
<1>2. IsFiniteSet(Committed) /\ IsFiniteSet(Committed')
  BY <1>1, FS_AddElement DEF BooksFinite
<1>3. ASSUME NEW a \in AllAccounts
      PROVE  EntrySum(a)' = EntrySum(a) + Part(legs[1], a) + Part(legs[2], a)
  <2> DEFINE f == [k \in Committed' |-> PartOf(k, a)']
  <2>1. \A k \in Committed : f[k] = PartOf(k, a)
    BY <1>1 DEF Commits, PartOf
  <2>2. f[key] = Part(legs[1], a) + Part(legs[2], a)
    BY <1>1 DEF Commits, PartOf
  <2>3. \A k \in Committed' : f[k] \in Int
    <3>1. Part(legs[1], a) \in Int /\ Part(legs[2], a) \in Int
      BY DEF Commits, Legs, Entry, Part
    <3>2. \A k \in Committed : PartOf(k, a) \in Int
      BY PartsTyped
    <3> HIDE DEF f
    <3> QED
      BY <1>1, <2>1, <2>2, <3>1, <3>2
  <2>4. EntrySum(a)' = SumFunctionOnSet(f, Committed')
    BY DEF EntrySum, SumFunction, PartOf
  <2>5. EntrySum(a) = SumFunctionOnSet(f, Committed)
    BY <2>1, SumsOfRows
  <2> HIDE DEF f
  <2>6. SumFunctionOnSet(f, Committed') = SumFunctionOnSet(f, Committed) + f[key]
    BY <1>1, <1>2, <2>3, SumWithOneMore
  <2>7. EntrySum(a) \in Int
    BY <1>1, <1>2, <2>3, <2>5, SumTyped
  <2>8. Part(legs[1], a) \in Int /\ Part(legs[2], a) \in Int
    BY DEF Commits, Legs, Entry, Part
  <2> QED
    BY <2>2, <2>4, <2>5, <2>6, <2>7, <2>8
<1> QED
  BY <1>2, <1>3
\* Inserting the two entries moves what they say and leaves the whole as it was.
LEMMA InsertMoves ==
    ASSUME TypeOK, BooksFinite, NEW legs \in Legs, InsertEntries(legs), UNCHANGED accounts
    PROVE  /\ \A a \in AllAccounts : ledgerSum'[a] = ledgerSum[a] + Part(legs[1], a) + Part(legs[2], a)
           /\ Opened' = Opened /\ Total' = Total
<1>1. PICK p \in AllAccounts, q \in AllAccounts, x \in Int, y \in Int :
        /\ legs[1].account = p /\ legs[1].amount = x /\ legs[2].account = q /\ legs[2].amount = y
        /\ x + y = 0 /\ p \in Opened /\ q \in Opened
  BY DEF InsertEntries, CanInsert, Balanced, Legs, Entry, Opened
<1>2. PICK mid : mid = Inserted(ledgerSum, legs[1])
  OBVIOUS
<1>3. mid = [ledgerSum EXCEPT ![p] = @ + x] /\ ledgerSum' = [mid EXCEPT ![q] = @ + y]
  BY <1>1, <1>2 DEF InsertEntries, Inserted
<1>4. ledgerSum \in [AllAccounts -> Int] /\ mid \in [AllAccounts -> Int]
  BY <1>3 DEF TypeOK
<1>5. Opened' = Opened /\ Opened \subseteq AllAccounts /\ IsFiniteSet(Opened)
  BY DEF Opened, Exists, BooksFinite
<1>6. SumFunctionOnSet(mid, Opened) = Total + x
  <2>1. mid[p] = ledgerSum[p] + x /\ \A a \in Opened \ {p} : mid[a] = ledgerSum[a]
    BY <1>3, <1>4, <1>5
  <2>2. \A a \in Opened : ledgerSum[a] \in Int
    BY <1>4, <1>5
  <2>3. mid[p] \in Int /\ ledgerSum[p] \in Int /\ Total \in Int
    BY <1>4, <1>5, <2>2, SumTyped DEF Total
  <2>4. SumFunctionOnSet(mid, Opened) = Total + mid[p] - ledgerSum[p]
    BY <1>1, <1>5, <2>1, <2>2, <2>3, SumChanges DEF Total
  <2> QED
    BY <2>1, <2>3, <2>4
<1>7. SumFunctionOnSet(ledgerSum', Opened) = SumFunctionOnSet(mid, Opened) + y
  <2>1. ledgerSum'[q] = mid[q] + y /\ \A a \in Opened \ {q} : ledgerSum'[a] = mid[a]
    BY <1>3, <1>4, <1>5
  <2>2. \A a \in Opened : mid[a] \in Int
    BY <1>4, <1>5
  <2>3. ledgerSum'[q] \in Int /\ mid[q] \in Int /\ SumFunctionOnSet(mid, Opened) \in Int
    BY <1>1, <1>4, <1>5, <2>1, <2>2, SumTyped
  <2>4. SumFunctionOnSet(ledgerSum', Opened) = SumFunctionOnSet(mid, Opened) + ledgerSum'[q] - mid[q]
    BY <1>1, <1>5, <2>1, <2>2, <2>3, SumChanges
  <2> QED
    BY <2>1, <2>3, <2>4
<1>8. Total' = Total
  <2>1. Total \in Int
    BY <1>4, <1>5, SumTyped DEF Total
  <2> QED
    BY <1>1, <1>5, <1>6, <1>7, <2>1 DEF Total
<1>9. ASSUME NEW a \in AllAccounts
      PROVE  ledgerSum'[a] = ledgerSum[a] + Part(legs[1], a) + Part(legs[2], a)
  <2>1. Part(legs[1], a) = (IF p = a THEN x ELSE 0) /\ Part(legs[2], a) = (IF q = a THEN y ELSE 0)
    BY <1>1 DEF Part
  <2>2. mid[a] = ledgerSum[a] + (IF p = a THEN x ELSE 0)
    BY <1>3, <1>4
  <2>3. ledgerSum'[a] = mid[a] + (IF q = a THEN y ELSE 0)
    BY <1>3, <1>4
  <2> QED
    BY <2>1, <2>2, <2>3
<1> QED
  BY <1>5, <1>8, <1>9

\* A transaction committed with its entries keeps them adding up.
LEMMA CommitKeepsEntries ==
    ASSUME BooksInv, TypeOK', NEW key, NEW legs, Commits(key, legs), InsertEntries(legs), UNCHANGED accounts
    PROVE  IsFiniteSet(Committed)' /\ IsFiniteSet(Opened)' /\ EntriesAddUp'
<1>1. legs \in Legs /\ TypeOK /\ BooksFinite
  BY DEF Commits, BooksInv, IInv
<1>2. /\ IsFiniteSet(Committed)'
      /\ \A a \in AllAccounts : EntrySum(a)' = EntrySum(a) + Part(legs[1], a) + Part(legs[2], a)
  BY <1>1, CommitAdds
<1>3. /\ \A a \in AllAccounts : ledgerSum'[a] = ledgerSum[a] + Part(legs[1], a) + Part(legs[2], a)
      /\ Opened' = Opened /\ Total' = Total
  BY <1>1, InsertMoves
<1> QED
  BY <1>1, <1>2, <1>3 DEF BooksInv, BooksFinite, EntriesAddUp

\* Whoever leaves the entries alone and opens no account keeps them adding up.
LEMMA EntriesRest ==
    ASSUME BooksInv, UNCHANGED <<txns, ledgerSum>>, Opened' = Opened
    PROVE  IsFiniteSet(Committed)' /\ IsFiniteSet(Opened)' /\ EntriesAddUp'
<1>1. Committed' = Committed /\ \A a \in AllAccounts : EntrySum(a)' = EntrySum(a)
  BY DEF Committed, Unused, EntrySum, Part
<1> QED
  BY <1>1 DEF BooksInv, BooksFinite, EntriesAddUp, Total

\* Opening an account brings in nothing.
LEMMA OpeningKeepsEntries ==
    ASSUME BooksInv, NEW a \in Account, NEW o \in Overdraft, OpenAccount(a, o)
    PROVE  IsFiniteSet(Committed)' /\ IsFiniteSet(Opened)' /\ EntriesAddUp'
<1>1. TypeOK /\ ledgerSum[a] = 0 /\ a \in AllAccounts /\ a \notin Opened
  BY DEF OpenAccount, BooksInv, IInv, OnlyOpenedAccountsHaveRows, AllAccounts, Opened
<1>2. Opened' = Opened \cup {a}
  BY <1>1 DEF OpenAccount, TypeOK, Opened, Exists
<1>3. IsFiniteSet(Opened) /\ \A b \in Opened \cup {a} : ledgerSum[b] \in Int
  BY <1>1 DEF BooksInv, BooksFinite, Opened, TypeOK
<1>4. SumFunctionOnSet(ledgerSum, Opened \cup {a}) = SumFunctionOnSet(ledgerSum, Opened) + ledgerSum[a]
  BY <1>1, <1>3, SumWithOneMore
<1>5. Total' = Total
  BY <1>1, <1>2, <1>4 DEF Total, OpenAccount, BooksInv, EntriesAddUp
<1>6. Committed' = Committed /\ \A b \in AllAccounts : EntrySum(b)' = EntrySum(b)
  BY DEF OpenAccount, Committed, Unused, EntrySum, Part
<1> QED
  BY <1>2, <1>3, <1>5, <1>6, FS_AddElement DEF OpenAccount, BooksInv, BooksFinite, EntriesAddUp
\* Whoever leaves the holds alone keeps them adding up.
LEMMA HoldsRest ==
    ASSUME BooksInv, UNCHANGED <<holds, heldSum>>
    PROVE  IsFiniteSet(ActiveHolds)' /\ HoldsAddUp'
<1>1. ActiveHolds' = ActiveHolds /\ \A a \in AllAccounts : ActiveHoldSum(a)' = ActiveHoldSum(a)
  BY DEF ActiveHolds, ActiveHoldSum, Part
<1> QED
  BY <1>1 DEF BooksInv, BooksFinite, HoldsAddUp

\* A hold that is placed adds its amount to its account's sum, and to no other.
LEMMA PlacingKeepsHolds ==
    ASSUME BooksInv, NEW h \in HoldId, NEW a \in Account, NEW x \in Amount, PlaceHold(h, a, x)
    PROVE  IsFiniteSet(ActiveHolds)' /\ HoldsAddUp'
<1>1. PICK row : row = [status |-> "active", account |-> a, amount |-> x]
  OBVIOUS
<1>2. TypeOK /\ x \in Int /\ holds' = [holds EXCEPT ![h] = row] /\ heldSum' = [heldSum EXCEPT ![a] = @ + x]
  BY <1>1, AmountAssumption DEF PlaceHold, BooksInv, IInv
<1>3. h \notin ActiveHolds /\ ActiveHolds' = ActiveHolds \cup {h} /\ holds'[h] = row
      /\ \A g \in ActiveHolds : holds'[g] = holds[g]
  BY <1>1, <1>2 DEF PlaceHold, ActiveHolds, TypeOK, NoHold
<1>4. IsFiniteSet(ActiveHolds) /\ IsFiniteSet(ActiveHolds')
  BY <1>3, FS_AddElement DEF BooksInv, BooksFinite
<1>5. ASSUME NEW b \in AllAccounts
      PROVE  heldSum'[b] = ActiveHoldSum(b)'
  <2> DEFINE f == [g \in ActiveHolds' |-> Part(holds'[g], b)]
  <2>1. \A g \in ActiveHolds : f[g] = Part(holds[g], b)
    BY <1>3
  <2>2. f[h] = IF a = b THEN x ELSE 0
    BY <1>1, <1>3 DEF Part
  <2>3. \A g \in ActiveHolds' : f[g] \in Int
    <3>1. \A g \in ActiveHolds : Part(holds[g], b) \in Int
      BY <1>2, PartsTyped
    <3> HIDE DEF f
    <3> QED
      BY <1>2, <1>3, <2>1, <2>2, <3>1
  <2>4. ActiveHoldSum(b)' = SumFunctionOnSet(f, ActiveHolds')
    BY DEF ActiveHoldSum, SumFunction, Part
  <2>5. ActiveHoldSum(b) = SumFunctionOnSet(f, ActiveHolds)
    <3> HIDE DEF f
    <3> QED
      BY <2>1, SumsOfRows DEF BooksInv
  <2> HIDE DEF f
  <2>6. SumFunctionOnSet(f, ActiveHolds') = SumFunctionOnSet(f, ActiveHolds) + f[h]
    BY <1>3, <1>4, <2>3, SumWithOneMore
  <2>7. heldSum[b] = ActiveHoldSum(b) /\ heldSum[b] \in Int
    BY <1>2 DEF BooksInv, HoldsAddUp, TypeOK
  <2>8. heldSum'[b] = heldSum[b] + (IF a = b THEN x ELSE 0)
    BY <1>2, <2>7 DEF TypeOK
  <2> QED
    BY <2>2, <2>4, <2>5, <2>6, <2>7, <2>8
<1> QED
  BY <1>4, <1>5 DEF HoldsAddUp

\* A hold that is resolved takes its amount out again.
LEMMA ResolvingKeepsHolds ==
    ASSUME BooksInv, NEW h \in HoldId, NEW target \in {"released", "captured"}, ResolveHold(h, target)
    PROVE  IsFiniteSet(ActiveHolds)' /\ HoldsAddUp'
<1>1. TypeOK /\ h \in ActiveHolds /\ IsFiniteSet(ActiveHolds)
  BY DEF ResolveHold, ActiveHolds, BooksInv, IInv, BooksFinite
<1>2. holds[h] \in Hold /\ \A b : Part(holds[h], b) \in Int
  BY <1>1, PartsTyped
<1>3. PICK a \in AllAccounts, x \in Amount : a = holds[h].account /\ x = holds[h].amount
  BY <1>2 DEF Hold, AllAccounts
<1>4. ActiveHolds' = ActiveHolds \ {h} /\ \A g \in ActiveHolds' : holds'[g] = holds[g]
  BY <1>1, <1>2 DEF ResolveHold, ActiveHolds, TypeOK, Hold
<1>5. heldSum' = [heldSum EXCEPT ![a] = @ - x]
  BY <1>3 DEF ResolveHold
<1>6. IsFiniteSet(ActiveHolds')
  BY <1>1, <1>4, FS_RemoveElement
<1>7. ASSUME NEW b \in AllAccounts
      PROVE  heldSum'[b] = ActiveHoldSum(b)'
  <2> DEFINE f == [g \in ActiveHolds |-> Part(holds[g], b)]
             g == [k \in ActiveHolds' |-> Part(holds'[k], b)]
  <2>1. \A k \in ActiveHolds : f[k] \in Int
    BY <1>1, PartsTyped
  <2>2. ActiveHoldSum(b) = SumFunctionOnSet(f, ActiveHolds)
    BY DEF ActiveHoldSum, SumFunction
  <2>3. ActiveHoldSum(b)' = SumFunctionOnSet(g, ActiveHolds')
    BY DEF ActiveHoldSum, SumFunction, Part
  <2>4. \A k \in ActiveHolds' : g[k] = f[k]
    BY <1>4
  <2>5. f[h] = IF a = b THEN x ELSE 0
    BY <1>1, <1>3 DEF Part
  <2> HIDE DEF f, g
  <2>6. SumFunctionOnSet(g, ActiveHolds') = SumFunctionOnSet(f, ActiveHolds')
    BY <1>6, <2>4, SumsSame
  <2>7. SumFunctionOnSet(f, ActiveHolds) = f[h] + SumFunctionOnSet(f, ActiveHolds')
    BY <1>1, <1>4, <2>1, SumWithout
  <2>8. heldSum[b] = ActiveHoldSum(b) /\ heldSum[b] \in Int
    BY <1>1 DEF BooksInv, HoldsAddUp, TypeOK
  <2>9. SumFunctionOnSet(f, ActiveHolds') \in Int /\ f[h] \in Int
    BY <1>1, <1>4, <1>6, <2>1, SumTyped
  <2>10. heldSum'[b] = IF a = b THEN heldSum[b] - x ELSE heldSum[b]
    BY <1>1, <1>5 DEF TypeOK
  <2> QED
    BY <2>2, <2>3, <2>5, <2>6, <2>7, <2>8, <2>9, <2>10
<1> QED
  BY <1>6, <1>7 DEF HoldsAddUp

\* Every operation keeps the books adding up.
LEMMA NextBalances == BooksInv /\ [Next]_vars => BooksInv'
  <1> SUFFICES ASSUME BooksInv, [Next]_vars
               PROVE  /\ IsFiniteSet(Committed)' /\ IsFiniteSet(Opened)' /\ EntriesAddUp'
                      /\ IsFiniteSet(ActiveHolds)' /\ HoldsAddUp'
    BY NextTyped, NextWithinOverdraft DEF BooksInv, BooksFinite, IInv
  <1>0. TypeOK /\ TypeOK'
    BY NextTyped DEF BooksInv, IInv
  <1>1. ASSUME NEW a \in Account, NEW o \in Overdraft, OpenAccount(a, o)
        PROVE  UNCHANGED <<holds, heldSum>>
    BY <1>1 DEF OpenAccount
  <1>2. ASSUME NEW a \in Account, NEW s \in TargetState, TransitionAccountState(a, s)
        PROVE  UNCHANGED <<txns, ledgerSum, holds, heldSum>> /\ Opened' = Opened
    BY <1>0, <1>2, TargetStateAssumption
    DEF TransitionAccountState, CanTransitionTo, Opened, Exists, TypeOK, AccountState, AllAccounts
  <1>3. ASSUME NEW type, NEW key \in Key, NEW legs \in Legs, PostTransaction(type, key, legs)
        PROVE  Commits(key, legs) /\ InsertEntries(legs) /\ UNCHANGED <<accounts, holds, heldSum>>
    BY <1>0, <1>3, PostAdds DEF PostTransaction, Commits, Unused, Posted, NoTxn, TypeOK
  <1>4. ASSUME NEW h \in HoldId, NEW a \in Account, NEW x \in Amount, PlaceHold(h, a, x)
        PROVE  UNCHANGED <<accounts, txns, ledgerSum>>
    BY <1>4 DEF PlaceHold
  <1>5. ASSUME NEW h \in HoldId, ReleaseHold(h)
        PROVE  ResolveHold(h, "released") /\ UNCHANGED <<accounts, txns, ledgerSum>>
    BY <1>5 DEF ReleaseHold
  <1>6. ASSUME NEW h \in HoldId, NEW key \in Key, CaptureHold(h, key)
        PROVE  /\ ResolveHold(h, "captured") /\ UNCHANGED accounts
               /\ \E legs : Commits(key, legs) /\ InsertEntries(legs)
    <2> DEFINE legs == DebitLegs(holds[h].account, holds[h].amount)
    <2>1. ResolveHold(h, "captured") /\ UNCHANGED accounts /\ InsertEntries(legs)
      BY <1>6 DEF CaptureHold
    <2>2. holds[h] \in Hold
      BY <1>0, <1>6 DEF CaptureHold, TypeOK, NoHold
    <2>3. legs \in Legs
      <3>1. holds[h].account \in AllAccounts /\ holds[h].amount \in Amount /\ System \in AllAccounts
        BY <2>2 DEF Hold, AllAccounts
      <3>2. \A x \in Amount : x \in Int /\ -x \in Int
        BY AmountAssumption
      <3> QED
        BY <3>1, <3>2, LegsTyped DEF DebitLegs
    <2>4. /\ Unused(key) /\ txns'[key].legs = legs /\ txns'[key].state = "posted"
          /\ \A k \in Key \ {key} : txns'[k] = txns[k]
      BY <1>0, <1>6, CaptureAdds DEF CaptureHold
    <2>5. Commits(key, legs)
      BY <2>3, <2>4 DEF Commits, Unused, NoTxn
    <2> QED
      BY <2>1, <2>5
  <1>7. ASSUME NEW o \in Key, NEW key \in Key, ReverseTransaction(o, key)
        PROVE  /\ UNCHANGED <<accounts, holds, heldSum>>
               /\ \E legs : Commits(key, legs) /\ InsertEntries(legs)
    <2>1. PICK legs \in Compensating(txns[o].legs) :
            /\ InsertEntries(legs)
            /\ txns' = [txns EXCEPT ![key] = Posted("reversal", legs, ReversalRequest(o)),
                                    ![o].state = "reversed"]
      BY <1>7 DEF ReverseTransaction
    <2>2. o # key /\ txns[o].state = "posted" /\ Unused(key) /\ UNCHANGED <<accounts, holds, heldSum>>
      BY <1>7 DEF ReverseTransaction, Unused, NoTxn
    <2>3. txns[o] \in Txn
      BY <1>0, <2>2 DEF TypeOK, NoTxn
    <2>4. legs \in Legs
      BY <2>3, CompensatingTyped DEF Txn
    <2>5. txns'[key] = Posted("reversal", legs, ReversalRequest(o))
      BY <1>0, <2>1, <2>2 DEF TypeOK
    <2>6. \A k \in Key \ {key, o} : txns'[k] = txns[k]
      BY <1>0, <2>1 DEF TypeOK
    <2>7. txns'[o] = [txns[o] EXCEPT !.state = "reversed"]
      BY <1>0, <2>1, <2>2 DEF TypeOK
    <2>8. txns'[o].legs = txns[o].legs /\ ~Unused(o) /\ ~Unused(o)'
      BY <2>2, <2>3, <2>7 DEF Txn, Unused, NoTxn
    <2>9. ~Unused(key)' /\ txns'[key].legs = legs
      BY <2>5 DEF Posted, Unused, NoTxn
    <2>10. Commits(key, legs)
      BY <2>2, <2>4, <2>6, <2>8, <2>9 DEF Commits, Unused
    <2> QED
      BY <2>1, <2>2, <2>10
  <1>8. CASE UNCHANGED vars
    BY <1>8, EntriesRest, HoldsRest DEF vars, Opened, Exists
  <1>9. ASSUME NEW a \in Account, NEW b \in Account, NEW x \in Amount
        PROVE  CreditLegs(a, x) \in Legs /\ DebitLegs(a, x) \in Legs
               /\ <<Leg(a, -x), Leg(b, x)>> \in Legs
    <2>1. x \in Int /\ -x \in Int /\ a \in AllAccounts /\ b \in AllAccounts /\ System \in AllAccounts
      BY AmountAssumption DEF AllAccounts
    <2> QED
      BY <2>1, LegsTyped DEF CreditLegs, DebitLegs
  <1>10. ASSUME NEW type, NEW key \in Key, NEW legs \in Legs, PostTransaction(type, key, legs)
         PROVE  /\ IsFiniteSet(Committed)' /\ IsFiniteSet(Opened)' /\ EntriesAddUp'
                /\ IsFiniteSet(ActiveHolds)' /\ HoldsAddUp'
    BY <1>0, <1>3, <1>10, CommitKeepsEntries, HoldsRest
  <1>11. ASSUME NEW a \in Account, NEW o \in Overdraft, OpenAccount(a, o)
         PROVE  /\ IsFiniteSet(Committed)' /\ IsFiniteSet(Opened)' /\ EntriesAddUp'
                /\ IsFiniteSet(ActiveHolds)' /\ HoldsAddUp'
    BY <1>1, <1>11, OpeningKeepsEntries, HoldsRest
  <1>12. ASSUME NEW h \in HoldId, NEW key \in Key, CaptureHold(h, key)
         PROVE  /\ IsFiniteSet(Committed)' /\ IsFiniteSet(Opened)' /\ EntriesAddUp'
                /\ IsFiniteSet(ActiveHolds)' /\ HoldsAddUp'
    BY <1>0, <1>6, <1>12, CommitKeepsEntries, ResolvingKeepsHolds
  <1>13. ASSUME NEW o \in Key, NEW key \in Key, ReverseTransaction(o, key)
         PROVE  /\ IsFiniteSet(Committed)' /\ IsFiniteSet(Opened)' /\ EntriesAddUp'
                /\ IsFiniteSet(ActiveHolds)' /\ HoldsAddUp'
    BY <1>0, <1>7, <1>13, CommitKeepsEntries, HoldsRest
  <1>14. ASSUME NEW h \in HoldId, NEW a \in Account, NEW x \in Amount, PlaceHold(h, a, x)
         PROVE  /\ IsFiniteSet(Committed)' /\ IsFiniteSet(Opened)' /\ EntriesAddUp'
                /\ IsFiniteSet(ActiveHolds)' /\ HoldsAddUp'
    BY <1>4, <1>14, EntriesRest, PlacingKeepsHolds DEF Opened, Exists
  <1>15. ASSUME NEW h \in HoldId, ReleaseHold(h)
         PROVE  /\ IsFiniteSet(Committed)' /\ IsFiniteSet(Opened)' /\ EntriesAddUp'
                /\ IsFiniteSet(ActiveHolds)' /\ HoldsAddUp'
    BY <1>5, <1>15, EntriesRest, ResolvingKeepsHolds DEF Opened, Exists
  <1>16. ASSUME NEW a \in Account, NEW s \in TargetState, TransitionAccountState(a, s)
         PROVE  /\ IsFiniteSet(Committed)' /\ IsFiniteSet(Opened)' /\ EntriesAddUp'
                /\ IsFiniteSet(ActiveHolds)' /\ HoldsAddUp'
    BY <1>2, <1>16, EntriesRest, HoldsRest
  <1> QED
    BY <1>8, <1>9, <1>10, <1>11, <1>12, <1>13, <1>14, <1>15, <1>16 DEF Next, Credit, Debit, Transfer

\* At first there is one account in the books, and nothing in them.
LEMMA InitBalances == Init => BooksInv
  <1> SUFFICES ASSUME Init PROVE BooksFinite /\ EntriesAddUp /\ HoldsAddUp
    BY InitWithinOverdraft DEF BooksInv
  <1>1. Committed = {} /\ ActiveHolds = {} /\ Opened = {System}
    BY DEF Init, Committed, Unused, NoTxn, ActiveHolds, NoHold, Opened, Exists, NoAccount, AllAccounts
  <1>2. BooksFinite
    BY <1>1, FS_EmptySet, FS_Singleton DEF BooksFinite
  <1>3. \A a \in AllAccounts : EntrySum(a) = 0 /\ ActiveHoldSum(a) = 0
    <2> SUFFICES ASSUME NEW a \in AllAccounts PROVE EntrySum(a) = 0 /\ ActiveHoldSum(a) = 0
      OBVIOUS
    <2>1. PICK f : f = [k \in {} |-> 0]
      OBVIOUS
    <2>2. EntrySum(a) = SumFunctionOnSet(f, {}) /\ ActiveHoldSum(a) = SumFunctionOnSet(f, {})
      BY <1>1, <1>2, SumsOfRows
    <2> QED
      BY <2>2, SumOfNothing
  <1>4. Total = 0
    <2>1. ledgerSum[System] = 0 /\ System \notin {} /\ {} \cup {System} = {System} /\ IsFiniteSet({})
      BY FS_EmptySet DEF Init, AllAccounts
    <2>2. SumFunctionOnSet(ledgerSum, {} \cup {System}) = SumFunctionOnSet(ledgerSum, {}) + ledgerSum[System]
      BY <2>1, SumWithOneMore
    <2> QED
      BY <1>1, <2>1, <2>2, SumOfNothing DEF Total
  <1> QED
    BY <1>2, <1>3, <1>4 DEF EntriesAddUp, HoldsAddUp, Init

\* The books balance: the entries of all accounts sum to zero, and the two sums
\* that the code weighs every debit and hold against are those of the rows
\* (service.go GetBalance, PlaceHold, the trigger ledger_check_available_balance).
THEOREM BooksAlwaysBalance == Spec => []BooksBalance
  <1>1. BooksInv => BooksBalance
    <2> SUFFICES ASSUME BooksInv PROVE BooksBalance
      OBVIOUS
    <2>1. IsFiniteSet(Opened) /\ \A a \in Opened : ledgerSum[a] = EntrySum(a)
      BY DEF BooksInv, BooksFinite, EntriesAddUp, Opened
    <2>2. SumFunction([a \in Opened |-> EntrySum(a)]) = 0
      BY <2>1, TotalIs DEF BooksInv, EntriesAddUp
    <2> QED
      BY <2>2 DEF BooksInv, EntriesAddUp, HoldsAddUp, BooksBalance
  <1> QED
    BY <1>1, InitBalances, NextBalances, PTL DEF Spec
=============================================================================
