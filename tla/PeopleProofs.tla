---------------------------- MODULE PeopleProofs ----------------------------
(***************************************************************************)
(* Proofs about People, for every number of requests, failures, tenants,   *)
(* salaries and offers: type correctness, the safety properties, and that  *)
(* the rows implement the ledger of offers.  A step of one component is a  *)
(* frame for the others, which see only that offers are added, employees   *)
(* stay and the counters go up; each component is proved against that.     *)
(***************************************************************************)
EXTENDS People, Functions, FiniteSetTheorems, SequenceTheorems, WellFoundedInduction, TLAPS

-----------------------------------------------------------------------------
(* Sums.  The library computes them by a recursive function, and a least     *)
(* set for which a claim about them fails stands for the induction.          *)

\* A set of numbers has a least one: what stands for induction in the proofs below.
LEMMA Least ==
    ASSUME NEW N \in SUBSET Nat, N # {}
    PROVE  \E n \in N : \A k \in N : n <= k
<1> DEFINE R == {ss \in Nat \X Nat : ss[1] < ss[2]}
<1>1. IsWellFoundedOn(R, Nat)
  BY NatLessThanWellFounded DEF OpToRel
<1>2. \A k, n \in Nat : <<k, n>> \in R <=> k < n
  OBVIOUS
<1> HIDE DEF R
<1>3. PICK n \in N : \A k \in N : ~ (<<k, n>> \in R)
  BY <1>1, WFMin
<1>4. \A k \in N : ~(k < n)
  BY <1>2, <1>3
<1> QED BY <1>4

\* The element the fold of the library takes first.
Chosen(s) == CHOOSE x \in s : TRUE

\* The equation of the fold, on some of the sets it comes to.
Solves(g, f, Sets) ==
    g = [s \in Sets |-> IF s = {} THEN 0 ELSE f[Chosen(s)] + g[s \ {Chosen(s)}]]

LEMMA SumIsSolution ==
    ASSUME NEW f, NEW S
    PROVE  SumFunctionOnSet(f, S) = (CHOOSE g : Solves(g, f, SUBSET S))[S]
BY DEF SumFunctionOnSet, FoldFunctionOnSet, MapThenFoldSet, Solves, Chosen

Up(S, n) == {s \in SUBSET S : Cardinality(s) <= n}

LEMMA ChosenFacts ==
    ASSUME NEW S, IsFiniteSet(S), NEW s \in SUBSET S, s # {}
    PROVE  /\ Chosen(s) \in s /\ s \ {Chosen(s)} \in SUBSET S
           /\ IsFiniteSet(s) /\ IsFiniteSet(s \ {Chosen(s)})
           /\ Cardinality(s) \in Nat /\ Cardinality(s \ {Chosen(s)}) \in Nat
           /\ Cardinality(s) = Cardinality(s \ {Chosen(s)}) + 1
<1>1. Chosen(s) \in s
  BY DEF Chosen
<1>2. IsFiniteSet(s) /\ Cardinality(s) \in Nat
  BY FS_Subset, FS_CardinalityType
<1>3. IsFiniteSet(s \ {Chosen(s)}) /\ Cardinality(s \ {Chosen(s)}) = Cardinality(s) - 1
  BY <1>1, <1>2, FS_RemoveElement
<1>4. Cardinality(s \ {Chosen(s)}) \in Nat
  BY <1>3, FS_CardinalityType
<1> QED BY <1>1, <1>2, <1>3, <1>4

\* The equation has a solution.
LEMMA SolutionExists ==
    ASSUME NEW f, NEW S, IsFiniteSet(S)
    PROVE  \E g : Solves(g, f, SUBSET S)
<1> DEFINE Bad == {n \in Nat : ~\E g : Solves(g, f, Up(S, n))}
<1>1. Bad = {}
  <2> SUFFICES ASSUME Bad # {}
               PROVE  FALSE
    OBVIOUS
  <2>1. PICK n \in Bad : \A k \in Bad : n <= k
    BY Least
  <2>2. CASE n = 0
    <3>1. \A s \in Up(S, 0) : s = {}
      <4> SUFFICES ASSUME NEW s \in SUBSET S, Cardinality(s) <= 0
                   PROVE  s = {}
        BY DEF Up
      <4>1. IsFiniteSet(s) /\ Cardinality(s) \in Nat
        BY FS_Subset, FS_CardinalityType
      <4>2. Cardinality(s) = 0
        BY <4>1
      <4> QED BY <4>1, <4>2, FS_EmptySet
    <3>2. Solves([s \in Up(S, 0) |-> 0], f, Up(S, 0))
      BY <3>1 DEF Solves
    <3> QED BY <2>1, <2>2, <3>2
  <2>3. CASE n # 0
    <3>1. n - 1 \in Nat /\ n - 1 \notin Bad
      BY <2>1, <2>3
    <3>2. PICK g : Solves(g, f, Up(S, n - 1))
      BY <3>1
    <3> DEFINE h == [s \in Up(S, n) |-> IF s = {} THEN 0 ELSE f[Chosen(s)] + g[s \ {Chosen(s)}]]
    <3>3. ASSUME NEW s \in Up(S, n), s # {}
          PROVE  h[s \ {Chosen(s)}] = g[s \ {Chosen(s)}]
      <4>1. s \in SUBSET S /\ Cardinality(s) <= n
        BY DEF Up
      <4>2. s \ {Chosen(s)} \in Up(S, n - 1) /\ s \ {Chosen(s)} \in Up(S, n)
        <5>1. /\ s \ {Chosen(s)} \in SUBSET S /\ Cardinality(s) \in Nat
              /\ Cardinality(s \ {Chosen(s)}) \in Nat
              /\ Cardinality(s) = Cardinality(s \ {Chosen(s)}) + 1
          BY <3>3, <4>1, ChosenFacts
        <5>2. n \in Nat
          OBVIOUS
        <5>3. Cardinality(s \ {Chosen(s)}) <= n - 1 /\ Cardinality(s \ {Chosen(s)}) <= n
          BY <4>1, <5>1, <5>2
        <5> QED BY <5>1, <5>3 DEF Up
      <4> QED BY <3>2, <4>2 DEF Solves
    <3>4. Solves(h, f, Up(S, n))
      <4>1. \A s \in Up(S, n) : h[s] = IF s = {} THEN 0
                                       ELSE f[Chosen(s)] + h[s \ {Chosen(s)}]
        BY <3>3
      <4>2. h = [s \in Up(S, n) |-> h[s]]
        OBVIOUS
      <4> HIDE DEF h
      <4> QED BY <4>1, <4>2 DEF Solves
    <3> QED BY <2>1, <3>4
  <2> QED BY <2>2, <2>3
<1>2. Cardinality(S) \in Nat
  BY FS_CardinalityType
<1>3. Up(S, Cardinality(S)) = SUBSET S
  BY FS_Subset DEF Up
<1>4. \E g : Solves(g, f, Up(S, Cardinality(S)))
  <2>1. \A n \in Nat : \E g : Solves(g, f, Up(S, n))
    BY <1>1
  <2> QED BY <1>2, <2>1
<1> QED BY <1>3, <1>4

\* Two solutions agree where both are defined.
LEMMA SolutionsAgree ==
    ASSUME NEW f, NEW S, IsFiniteSet(S)
    PROVE  \A T \in SUBSET S : \A g, h :
              Solves(g, f, SUBSET S) /\ Solves(h, f, SUBSET T)
              => \A s \in SUBSET T : g[s] = h[s]
<1> SUFFICES ASSUME NEW T \in SUBSET S,
                    NEW g, Solves(g, f, SUBSET S), NEW h, Solves(h, f, SUBSET T)
             PROVE  \A s \in SUBSET T : g[s] = h[s]
  OBVIOUS
<1> DEFINE Bad == {n \in Nat : \E s \in SUBSET T : Cardinality(s) = n /\ g[s] # h[s]}
<1>1. Bad = {}
  <2> SUFFICES ASSUME Bad # {}
               PROVE  FALSE
    OBVIOUS
  <2>1. PICK n \in Bad : \A k \in Bad : n <= k
    BY Least
  <2>2. PICK s \in SUBSET T : Cardinality(s) = n /\ g[s] # h[s]
    BY <2>1
  <2>3. s \in SUBSET S
    OBVIOUS
  <2>4. s # {}
    BY <2>2, <2>3 DEF Solves
  <2> DEFINE rest == s \ {Chosen(s)}
  <2>5. /\ rest \in SUBSET T /\ Cardinality(rest) \in Nat /\ n \in Nat
        /\ n = Cardinality(rest) + 1
    BY <2>2, <2>3, <2>4, ChosenFacts
  <2>6. g[s] = f[Chosen(s)] + g[rest] /\ h[s] = f[Chosen(s)] + h[rest]
    BY <2>3, <2>4 DEF Solves
  <2> HIDE DEF rest
  <2>7. Cardinality(rest) \in Bad
    BY <2>2, <2>5, <2>6
  <2> QED BY <2>1, <2>5, <2>7
<1>2. ASSUME NEW s \in SUBSET T
      PROVE  g[s] = h[s]
  <2>1. Cardinality(s) \in Nat
    BY FS_Subset, FS_CardinalityType
  <2> QED BY <1>1, <2>1
<1> QED BY <1>2

\* The sum over no element, and over one more than none.
LEMMA SumChosen ==
    ASSUME NEW f, NEW S, IsFiniteSet(S)
    PROVE  SumFunctionOnSet(f, S) =
              IF S = {} THEN 0
              ELSE f[Chosen(S)] + SumFunctionOnSet(f, S \ {Chosen(S)})
<1>0. \A T \in SUBSET S : \A g, h :
         Solves(g, f, SUBSET S) /\ Solves(h, f, SUBSET T) => g[T] = h[T]
  <2>1. \A T : T \in SUBSET T
    OBVIOUS
  <2> QED BY <2>1, SolutionsAgree
<1> DEFINE G(T) == CHOOSE g : Solves(g, f, SUBSET T)
<1>1. \A T \in SUBSET S : Solves(G(T), f, SUBSET T) /\ SumFunctionOnSet(f, T) = G(T)[T]
  <2> TAKE T \in SUBSET S
  <2>1. \E g : Solves(g, f, SUBSET T)
    BY FS_Subset, SolutionExists
  <2> QED BY <2>1, SumIsSolution
<1> HIDE DEF G
<1>2. S \in SUBSET S /\ S \ {Chosen(S)} \in SUBSET S
  OBVIOUS
<1>3. CASE S = {}
  <2>1. G(S)[S] = 0
    BY <1>1, <1>2, <1>3 DEF Solves
  <2> QED BY <1>1, <1>2, <1>3, <2>1
<1>4. CASE S # {}
  <2> DEFINE T == S \ {Chosen(S)}
  <2>1. G(S)[S] = f[Chosen(S)] + G(S)[T]
    BY <1>1, <1>2, <1>4 DEF Solves
  <2>2. Solves(G(S), f, SUBSET S) /\ Solves(G(T), f, SUBSET T) /\ T \in SUBSET S
    BY <1>1, <1>2
  <2> HIDE DEF T
  <2>4. G(S)[T] = G(T)[T]
    BY <1>0, <2>2
  <2>5. SumFunctionOnSet(f, S) = G(S)[S] /\ SumFunctionOnSet(f, T) = G(T)[T]
    BY <1>1, <1>2, <2>2
  <2> QED BY <1>4, <2>1, <2>4, <2>5 DEF T
<1> QED BY <1>3, <1>4

\* Sums of numbers are numbers, and the element taken first does not matter.
LEMMA SumFacts ==
    ASSUME NEW f, NEW S, IsFiniteSet(S), \A x \in S : f[x] \in Nat
    PROVE  /\ SumFunctionOnSet(f, S) \in Nat
           /\ \A x \in S : SumFunctionOnSet(f, S) = f[x] + SumFunctionOnSet(f, S \ {x})
<1> DEFINE Sum(s) == SumFunctionOnSet(f, s)
           Right(s) == Sum(s) \in Nat /\ \A x \in s : Sum(s) = f[x] + Sum(s \ {x})
           Bad == {n \in Nat : \E s \in SUBSET S : Cardinality(s) = n /\ ~Right(s)}
<1>1. \A s \in SUBSET S : IsFiniteSet(s) /\ Cardinality(s) \in Nat
  BY FS_Subset, FS_CardinalityType
<1>2. \A s \in SUBSET S : Sum(s) = IF s = {} THEN 0 ELSE f[Chosen(s)] + Sum(s \ {Chosen(s)})
  BY <1>1, SumChosen
<1>3. \A s \in SUBSET S : \A x \in s : Cardinality(s) = Cardinality(s \ {x}) + 1
  <2> SUFFICES ASSUME NEW s \in SUBSET S, NEW x \in s
               PROVE  Cardinality(s) = Cardinality(s \ {x}) + 1
    OBVIOUS
  <2>1. IsFiniteSet(s) /\ Cardinality(s) \in Nat
    BY <1>1
  <2>2. Cardinality(s \ {x}) = Cardinality(s) - 1
    BY <2>1, FS_RemoveElement
  <2> QED BY <2>1, <2>2
<1> HIDE DEF Sum
<1>4. Bad = {}
  <2> SUFFICES ASSUME Bad # {}
               PROVE  FALSE
    OBVIOUS
  <2>1. PICK n \in Bad : \A k \in Bad : n <= k
    BY Least
  <2>2. PICK s \in SUBSET S : Cardinality(s) = n /\ ~Right(s)
    BY <2>1
  <2>3. ASSUME NEW t \in SUBSET S, Cardinality(t) < n
        PROVE  Right(t)
    BY <1>1, <2>1, <2>3
  <2>4. s # {}
    <3>1. {} \in SUBSET S
      OBVIOUS
    <3>2. Sum({}) = 0
      BY <1>2, <3>1
    <3>3. Right({})
      BY <3>2
    <3> QED BY <2>2, <3>3
  <2>5. \A x \in s : s \ {x} \in SUBSET S /\ Cardinality(s \ {x}) < n
    <3> TAKE x \in s
    <3>1. s \ {x} \in SUBSET S /\ Cardinality(s \ {x}) \in Nat
      BY <1>1
    <3>2. n = Cardinality(s \ {x}) + 1
      BY <1>3, <2>2
    <3> QED BY <3>1, <3>2
  <2> DEFINE c == Chosen(s)
  <2>6. c \in s /\ f[c] \in Nat /\ Sum(s) = f[c] + Sum(s \ {c})
    BY <1>2, <2>4 DEF Chosen
  <2>7. Right(s \ {c})
    BY <2>3, <2>5, <2>6
  <2> HIDE DEF c
  <2>8. Sum(s) \in Nat
    BY <2>6, <2>7
  <2>9. ASSUME NEW x \in s
        PROVE  Sum(s) = f[x] + Sum(s \ {x})
    <3>1. CASE x = c
      BY <2>6, <3>1
    <3>2. CASE x # c
      <4> DEFINE both == (s \ {c}) \ {x}
      <4>1. both = (s \ {x}) \ {c} /\ x \in s \ {c} /\ c \in s \ {x}
        BY <2>6, <3>2
      <4>2. Right(s \ {x}) /\ f[x] \in Nat
        BY <2>3, <2>5
      <4>3. Sum(s \ {c}) = f[x] + Sum(both) /\ Sum(s \ {x}) = f[c] + Sum(both)
        BY <2>7, <4>1, <4>2
      <4>4. Right(both)
        <5>1. both \in SUBSET S
          OBVIOUS
        <5>2. Cardinality(both) < n
          <6>1. s \ {c} \in SUBSET S /\ x \in s \ {c} /\ n = Cardinality(s)
            BY <2>2, <4>1
          <6>2. Cardinality(both) \in Nat /\ Cardinality(s \ {c}) \in Nat /\ n \in Nat
            BY <1>1, <5>1, <6>1
          <6>3. Cardinality(s \ {c}) < n /\ Cardinality(s \ {c}) = Cardinality(both) + 1
            BY <1>3, <2>5, <2>6, <6>1
          <6> QED BY <6>2, <6>3
        <5> QED BY <2>3, <5>1, <5>2
      <4> HIDE DEF both
      <4> QED BY <2>6, <4>2, <4>3, <4>4
    <3> QED BY <3>1, <3>2
  <2> QED BY <2>2, <2>8, <2>9
<1>5. Right(S)
  BY <1>1, <1>4
<1> QED BY <1>5 DEF Sum

\* More numbers have no smaller sum.
LEMMA SumGrows ==
    ASSUME NEW f, NEW S, IsFiniteSet(S), \A x \in S : f[x] \in Nat, NEW T \in SUBSET S
    PROVE  SumFunctionOnSet(f, T) <= SumFunctionOnSet(f, S)
<1> DEFINE Sum(s) == SumFunctionOnSet(f, s)
           Bad == {n \in Nat : \E s \in SUBSET S : /\ T \subseteq s /\ Cardinality(s) = n
                                                  /\ ~(Sum(T) <= Sum(s))}
<1>1. \A s \in SUBSET S : /\ IsFiniteSet(s) /\ Cardinality(s) \in Nat /\ Sum(s) \in Nat
                          /\ \A x \in s : Sum(s) = f[x] + Sum(s \ {x})
  BY FS_Subset, FS_CardinalityType, SumFacts
<1> HIDE DEF Sum
<1>2. Bad = {}
  <2> SUFFICES ASSUME Bad # {}
               PROVE  FALSE
    OBVIOUS
  <2>1. PICK n \in Bad : \A k \in Bad : n <= k
    BY Least
  <2>2. PICK s \in SUBSET S : T \subseteq s /\ Cardinality(s) = n /\ ~(Sum(T) <= Sum(s))
    BY <2>1
  <2>3. Sum(T) \in Nat /\ Sum(s) \in Nat
    BY <1>1
  <2>4. s # T
    BY <2>2, <2>3
  <2>5. PICK x \in s : x \notin T
    BY <2>2, <2>4
  <2>6. /\ s \ {x} \in SUBSET S /\ T \subseteq s \ {x} /\ Sum(s) = f[x] + Sum(s \ {x})
        /\ Sum(s \ {x}) \in Nat /\ f[x] \in Nat
    BY <1>1, <2>2, <2>5
  <2>7. Cardinality(s \ {x}) = n - 1 /\ n - 1 \in Nat /\ n \in Nat
    <3>1. IsFiniteSet(s) /\ Cardinality(s \ {x}) \in Nat
      BY <1>1, <2>6
    <3> QED BY <2>2, <3>1, FS_RemoveElement
  <2>8. ~(Sum(T) <= Sum(s \ {x}))
    BY <2>2, <2>3, <2>6
  <2>9. n - 1 \in Bad
    BY <2>6, <2>7, <2>8
  <2> QED BY <2>1, <2>7, <2>9
<1>3. T \subseteq S /\ S \in SUBSET S /\ Cardinality(S) \in Nat
  BY <1>1
<1>4. Sum(T) <= Sum(S)
  BY <1>2, <1>3
<1> QED BY <1>4 DEF Sum

\* Functions that agree have the same sum.
LEMMA SumAgrees ==
    ASSUME NEW f, NEW g, NEW S, IsFiniteSet(S), \A x \in S : f[x] = g[x]
    PROVE  SumFunctionOnSet(f, S) = SumFunctionOnSet(g, S)
<1> DEFINE F == CHOOSE h : Solves(h, f, SUBSET S)
           G == CHOOSE h : Solves(h, g, SUBSET S)
<1>1. Solves(F, f, SUBSET S)
  BY SolutionExists
<1>2. Solves(G, g, SUBSET S)
  BY SolutionExists
<1>3. SumFunctionOnSet(f, S) = F[S] /\ SumFunctionOnSet(g, S) = G[S]
  BY SumIsSolution
<1> HIDE DEF F, G
<1>4. Solves(G, f, SUBSET S)
  <2>1. \A s \in SUBSET S : s # {} => f[Chosen(s)] = g[Chosen(s)]
    BY DEF Chosen
  <2> QED BY <1>2, <2>1 DEF Solves
<1>5. S \in SUBSET S
  OBVIOUS
<1>6. F[S] = G[S]
  BY <1>1, <1>4, <1>5, SolutionsAgree
<1> QED BY <1>3, <1>6
(***************************************************************************)
(* The inductive invariant.                                                *)
(***************************************************************************)
OfferTypes == {"PayslipVC", "PayrollRunVC", "TaxComplianceVC", "EmploymentContractVC",
               "LeaveApprovalVC", "ExpenseApprovalVC"}
Offer == [type: OfferTypes, of: Nat \cup (Nat \X Nat), since: Nat, lost: BOOLEAN]

\* Rows are numbered in their order, and a request adds one at most.
Upto(table, n) == \E k \in 0..n : DOMAIN table = 1..k
Numbered(table) == Upto(table, started)

\* Payslips and employees that an offer names are there.
OffersNameRows ==
    /\ offers \in Seq(Offer)
    /\ \A i \in DOMAIN offers :
          /\ offers[i].type = "PayslipVC" => offers[i].of \in DOMAIN payslips
          /\ offers[i].type = "EmploymentContractVC" => offers[i].of \in DOMAIN employees

\* Foreign keys.
PayrollKeys ==
    /\ \A s \in DOMAIN payslips : s[1] \in DOMAIN runs
    /\ \A r \in DOMAIN runs : runs[r].vc <= Len(offers)
    /\ \A f \in DOMAIN filings : filings[f].run \in DOMAIN runs
HrKeys == \A q \in DOMAIN requests : requests[q].contract <= Len(offers)

\* What a call of payroll holds.
PayrollCall(c) ==
    /\ payCalls[c].op = "issue" =>
          /\ payCalls[c].run \in DOMAIN runs /\ payCalls[c].since <= Len(offers)
          /\ payCalls[c].todo \subseteq payCalls[c].seen
          /\ \A s \in payCalls[c].seen : s \in DOMAIN payslips /\ s[1] = payCalls[c].run
    /\ payCalls[c].op = "payout" =>
          /\ payCalls[c].run \in DOMAIN runs
          /\ \A s \in payCalls[c].todo : s \in DOMAIN payslips /\ s[1] = payCalls[c].run
          /\ \A s \in DOMAIN payslips :
                s[1] = payCalls[c].run => s \in payCalls[c].todo \/ s \in disbursed
    /\ payCalls[c].op = "file" =>
          payCalls[c].filing \in DOMAIN filings /\ payCalls[c].since <= Len(offers)

\* Payroll, but for what offers and sums have to do with payslips.
PayrollRows ==
    /\ P!TypeOK /\ Numbered(employees) /\ Numbered(runs) /\ Numbered(filings)
    /\ OffersNameRows /\ PayrollKeys
    /\ \A c \in DOMAIN payCalls : PayrollCall(c)

\* What a call of onboarding, leave or expenses holds.
HrCall(c) ==
    /\ hrCalls[c].op = "contract" =>
          /\ hrCalls[c].request \in DOMAIN requests
          /\ hrCalls[c].employee \in DOMAIN employees
          /\ employees[hrCalls[c].employee].candidate = hrCalls[c].request
    /\ hrCalls[c].op = "leave" => hrCalls[c].leave \in DOMAIN leaves
    /\ hrCalls[c].op = "expense" => hrCalls[c].claim \in DOMAIN claims

HrRows ==
    /\ H!TypeOK /\ Numbered(requests) /\ Numbered(leaves) /\ Numbered(claims) /\ HrKeys
    /\ \A c \in DOMAIN hrCalls : HrCall(c)

\* An offer of a payslip that its row got.
OfferOf(s, i) == offers[i].type = "PayslipVC" /\ offers[i].of = s /\ ~offers[i].lost

\* A payslip is pending until it got an offer.
SlipsPending ==
    /\ \A s \in DOMAIN payslips : payslips[s].status = "pending" =>
          \A i \in DOMAIN offers : ~OfferOf(s, i)
    /\ \A s \in DOMAIN payslips : payslips[s].status = "issued" =>
          \E i \in DOMAIN offers : OfferOf(s, i)

\* An issuance read the payslips it has to come to before their offers, and those it
\* did not see had one by then.
IssueSees(c) ==
    payCalls[c].op = "issue" =>
       /\ \A s \in payCalls[c].todo : \A i \in DOMAIN offers :
             OfferOf(s, i) => payCalls[c].since < i
       /\ \A s \in DOMAIN payslips : s[1] = payCalls[c].run =>
             s \in payCalls[c].seen
             \/ \E i \in DOMAIN offers : OfferOf(s, i) /\ i <= payCalls[c].since

\* The sums of a table of payslips.
Slips(table, r) == {s \in DOMAIN table : s[1] = r}
Sums(table, S)  == [t \in P!TaxTypes |->
                       P!SumFunction([s \in S |-> P!Deductions(table[s].gross)[t]])]

\* The totals of a run are those of some of its payslips.
TotalsBounded ==
    \A r \in DOMAIN runs : \A t \in P!TaxTypes :
       runs[r].totals[t] <= Sums(payslips, Slips(payslips, r))[t]

\* The registry is what history made of it.
RegistryTold ==
    /\ \A s \in C!Session :
          /\ s \in DOMAIN registry <=>
                \E i \in DOMAIN history : history[i] = [what |-> "saved", session |-> s]
          /\ C!IsRevoked(s) <=> C!RevokedBy(s, Len(history))
    /\ \A v \in verdicts : v.at <= Len(history)

PayrollInv ==
    /\ PayrollRows /\ SlipsPending /\ (\A c \in DOMAIN payCalls : IssueSees(c))
    /\ ReofferExplained /\ TotalsBounded /\ RunsMatchPayslips
HrInv       == HrRows /\ ContractNamesEmployee /\ AuditTrail
RegistryInv == C!CredentialTypeOK /\ RegistryTold /\ RevocationsHonoured

IInv == PayrollInv /\ HrInv /\ RegistryInv

-----------------------------------------------------------------------------
(* Deductions and totals                                                     *)

\* The deductions of a salary are amounts, and leave one.
LEMMA DeductionFacts ==
    ASSUME NEW gross \in Nat
    PROVE  P!Deductions(gross) \in [P!TaxTypes -> Nat] /\ P!Net(gross) \in Nat
<1>1. P!NSSA(gross) \in Nat /\ P!NSSA(gross) <= gross
  BY DEF P!NSSA, P!RoundDiv, P!Least
<1>2. \A taxable \in Nat : /\ P!PAYE(taxable) \in Nat /\ P!AidsLevy(P!PAYE(taxable)) \in Nat
                           /\ P!PAYE(taxable) + P!AidsLevy(P!PAYE(taxable)) <= taxable
  BY DEF P!PAYE, P!RoundDiv, P!BandTax, P!AidsLevy
<1> DEFINE nssa == P!NSSA(gross)
           paye == P!PAYE(gross - nssa)
           levy == P!AidsLevy(paye)
<1>3. P!Deductions(gross) = [nssa |-> nssa, paye |-> paye, aids_levy |-> levy]
  BY DEF P!Deductions
<1>4. nssa \in Nat /\ paye \in Nat /\ levy \in Nat /\ nssa + paye + levy <= gross
  <2>1. nssa \in Nat /\ nssa <= gross /\ gross - nssa \in Nat
    BY <1>1
  <2> HIDE DEF nssa
  <2>2. paye \in Nat /\ levy \in Nat /\ paye + levy <= gross - nssa
    BY <1>2, <2>1
  <2> QED BY <2>1, <2>2
<1> HIDE DEF nssa, paye, levy
<1>5. P!Net(gross) = gross - (nssa + paye + levy)
  BY <1>3 DEF P!Net
<1>6. P!Deductions(gross) \in [P!TaxTypes -> Nat]
  BY <1>3, <1>4 DEF P!TaxTypes
<1> QED BY <1>4, <1>5, <1>6

\* The bands of the income tax, written in the code as what each adds to the bands
\* below, come to a marginal tax: each rate applies to the income inside its band,
\* so that a higher salary is never taxed at a higher rate as a whole.
THEOREM BandsAreMarginal ==
    ASSUME NEW taxable \in Nat
    PROVE  P!BandTax(taxable) = P!MarginalTax(taxable)
BY DEF P!BandTax, P!MarginalTax, P!Least, P!Above

\* A sum of payroll is a sum.
LEMMA PayrollSum ==
    ASSUME NEW f
    PROVE  P!SumFunction(f) = SumFunctionOnSet(f, DOMAIN f)
BY DEF P!SumFunction, P!SumFunctionOnSet, P!FoldFunctionOnSet, P!MapThenFoldSet,
       SumFunctionOnSet, FoldFunctionOnSet, MapThenFoldSet

\* The sum over a finite set of a function whose values are numbers.
LEMMA PayrollSumType ==
    ASSUME NEW S, IsFiniteSet(S), NEW f \in [S -> Nat]
    PROVE  P!SumFunction(f) \in Nat
<1>1. DOMAIN f = S /\ \A x \in S : f[x] \in Nat
  OBVIOUS
<1> QED BY <1>1, PayrollSum, SumFacts

\* A payslip of the table has a gross salary.
Priced(table, S) == IsFiniteSet(S) /\ \A s \in S : table[s].gross \in Nat

\* The totals of payslips are amounts,
LEMMA SumsType ==
    ASSUME NEW table, NEW S, Priced(table, S)
    PROVE  Sums(table, S) \in [P!TaxTypes -> Nat]
<1> SUFFICES ASSUME NEW t \in P!TaxTypes
             PROVE  P!SumFunction([s \in S |-> P!Deductions(table[s].gross)[t]]) \in Nat
  BY DEF Sums
<1>1. [s \in S |-> P!Deductions(table[s].gross)[t]] \in [S -> Nat]
  BY DeductionFacts DEF Priced
<1> QED BY <1>1, PayrollSumType DEF Priced

\* are not more than those of more payslips,
LEMMA SumsGrow ==
    ASSUME NEW table, NEW S, Priced(table, S), NEW T \in SUBSET S, NEW t \in P!TaxTypes
    PROVE  Sums(table, T)[t] <= Sums(table, S)[t]
<1> DEFINE f == [s \in S |-> P!Deductions(table[s].gross)[t]]
           g == [s \in T |-> P!Deductions(table[s].gross)[t]]
<1>1. IsFiniteSet(S) /\ IsFiniteSet(T) /\ \A s \in S : f[s] \in Nat
  BY FS_Subset, DeductionFacts DEF Priced
<1>2. (\A s \in T : g[s] = f[s]) /\ DOMAIN f = S /\ DOMAIN g = T
  OBVIOUS
<1>3. Sums(table, S)[t] = P!SumFunction(f) /\ Sums(table, T)[t] = P!SumFunction(g)
  BY DEF Sums
<1> HIDE DEF f, g
<1>4. SumFunctionOnSet(g, T) = SumFunctionOnSet(f, T)
  BY <1>1, <1>2, SumAgrees
<1>5. SumFunctionOnSet(f, T) <= SumFunctionOnSet(f, S)
  BY <1>1, SumGrows
<1>6. Sums(table, S)[t] = SumFunctionOnSet(f, S) /\ Sums(table, T)[t] = SumFunctionOnSet(g, T)
  BY <1>2, <1>3, PayrollSum
<1> QED BY <1>4, <1>5, <1>6

\* and do not depend on the rest of the table.
LEMMA SumsAgree ==
    ASSUME NEW table, NEW other, NEW S, \A s \in S : table[s].gross = other[s].gross
    PROVE  Sums(table, S) = Sums(other, S)
<1>1. ASSUME NEW t
      PROVE  [s \in S |-> P!Deductions(table[s].gross)[t]]
             = [s \in S |-> P!Deductions(other[s].gross)[t]]
  OBVIOUS
<1> QED BY <1>1 DEF Sums

-----------------------------------------------------------------------------
(* Tables, and what all components share                                     *)

LEMMA PayrollTables ==
    ASSUME NEW Keys, NEW Row, NEW table, P!IsTable(table, Keys, Row),
           NEW key \in Keys, NEW row \in Row, NEW keys
    PROVE  /\ P!IsTable(P!Put(table, key, row), Keys, Row)
           /\ P!IsTable(P!Without(table, keys), Keys, Row)
BY DEF P!IsTable, P!Put, P!Without

LEMMA HrTables ==
    ASSUME NEW Keys, NEW Row, NEW table, H!IsTable(table, Keys, Row),
           NEW key \in Keys, NEW row \in Row, NEW keys
    PROVE  /\ H!IsTable(H!Put(table, key, row), Keys, Row)
           /\ H!IsTable(H!Without(table, keys), Keys, Row)
BY DEF H!IsTable, H!Put, H!Without

LEMMA RegistryTables ==
    ASSUME NEW Keys, NEW Row, NEW table, C!IsTable(table, Keys, Row),
           NEW key \in Keys, NEW row \in Row, NEW keys
    PROVE  /\ C!IsTable(C!Put(table, key, row), Keys, Row)
           /\ C!IsTable(C!Without(table, keys), Keys, Row)
BY DEF C!IsTable, C!Put, C!Without

\* The bounds of a behaviour.
LEMMA Bounds ==
    MaxCalls \in Nat /\ MaxFailures \in Nat /\ Salaries \subseteq Nat
    /\ DefaultTenant \in Tenants /\ FiledTypes \subseteq P!TaxTypes
    /\ OfferSizes \subseteq Nat \ {0} /\ MaxChecks \in Nat
BY PeopleAssumption DEF P!PayrollAssumption, H!HrAssumption, C!CredentialAssumption, P!TaxTypes

\* The next number is not taken, and a request has one for its row.
LEMMA FreshFacts ==
    ASSUME NEW n \in Nat, NEW bound \in Nat, n < bound, NEW table, Upto(table, n)
    PROVE  /\ P!Fresh(table) \in 1..bound /\ P!Fresh(table) \notin DOMAIN table
           /\ H!Fresh(table) = P!Fresh(table)
           /\ \A new : DOMAIN new = DOMAIN table \cup {P!Fresh(table)} => Upto(new, n + 1)
<1>1. PICK k \in 0..n : DOMAIN table = 1..k
  BY DEF Upto
<1>2. Cardinality(1..k) = k
  <2>1. k \in Int /\ 1 \in Int /\ 1 <= k + 1
    BY <1>1
  <2> QED BY <2>1, FS_Interval
<1>3. P!Fresh(table) = k + 1 /\ H!Fresh(table) = k + 1
  BY <1>1, <1>2 DEF P!Fresh, H!Fresh, P!Cardinality, H!Cardinality, Cardinality
<1>4. k + 1 \in 1..bound /\ k + 1 \notin 1..k /\ k + 1 \in 0..(n + 1)
  BY <1>1
<1>5. (1..k) \cup {k + 1} = 1..(k + 1)
  BY <1>1
<1> QED BY <1>1, <1>3, <1>4, <1>5 DEF Upto

\* A table with the rows it had stays numbered.
LEMMA UptoKept ==
    ASSUME NEW n \in Nat, NEW m \in {n, n + 1}, NEW old, Upto(old, n),
           NEW new, DOMAIN new = DOMAIN old
    PROVE  Upto(new, m)
BY DEF Upto

\* An offer is added at the end.
LEMMA OfferAdded ==
    ASSUME offers \in Seq(Offer), NEW o \in Offer, offers' = Append(offers, o)
    PROVE  /\ offers' \in Seq(Offer)
           /\ Len(offers) \in Nat /\ Len(offers') = Len(offers) + 1
           /\ DOMAIN offers = 1..Len(offers) /\ DOMAIN offers' = 1..(Len(offers) + 1)
           /\ \A i \in DOMAIN offers : offers'[i] = offers[i]
           /\ offers'[Len(offers) + 1] = o
OBVIOUS

\* What a step may do to the offers and the counters.
MoreOffers == offers' = offers \/ \E o \in Offer : offers' = Append(offers, o)

LEMMA OffersKept ==
    ASSUME offers \in Seq(Offer), MoreOffers
    PROVE  /\ offers' \in Seq(Offer) /\ Len(offers) \in Nat /\ Len(offers') \in Nat
           /\ Len(offers) <= Len(offers')
           /\ DOMAIN offers = 1..Len(offers) /\ DOMAIN offers' = 1..Len(offers')
           /\ \A i \in DOMAIN offers : i \in DOMAIN offers' /\ offers'[i] = offers[i]
<1>1. CASE offers' = offers
  BY <1>1
<1>2. CASE \E o \in Offer : offers' = Append(offers, o)
  <2>1. PICK o \in Offer : offers' = Append(offers, o)
    BY <1>2
  <2>2. /\ offers' \in Seq(Offer)
        /\ Len(offers) \in Nat /\ Len(offers') = Len(offers) + 1
        /\ DOMAIN offers = 1..Len(offers) /\ DOMAIN offers' = 1..(Len(offers) + 1)
        /\ \A i \in DOMAIN offers : offers'[i] = offers[i]
        /\ offers'[Len(offers) + 1] = o
    BY <2>1, OfferAdded
  <2> QED BY <2>2
<1> QED BY <1>1, <1>2 DEF MoreOffers

-----------------------------------------------------------------------------
(* Payroll: types and keys                                                   *)

\* What a call of payroll is.
LEMMA PayrollCallTypes ==
    ASSUME P!TypeOK, NEW c \in DOMAIN payCalls
    PROVE  /\ c \in 1..started
           /\ payCalls[c].op \in {"issue", "payout", "file"}
           /\ payCalls[c].op = "issue" => payCalls[c] \in P!IssueCall
           /\ payCalls[c].op = "payout" => payCalls[c] \in P!PayCall
           /\ payCalls[c].op = "file" => payCalls[c] \in P!FileCall
<1>1. c \in 1..started /\ payCalls[c] \in P!IssueCall \cup P!PayCall \cup P!FileCall
  BY DEF P!TypeOK, P!IsTable
<1> QED BY <1>1 DEF P!IssueCall, P!PayCall, P!FileCall

\* What no step of any component undoes.
PayrollFrame ==
    /\ DOMAIN runs \subseteq DOMAIN runs' /\ DOMAIN filings \subseteq DOMAIN filings'
    /\ DOMAIN payslips \subseteq DOMAIN payslips'
    /\ \A s \in DOMAIN payslips' : s \in DOMAIN payslips \/ s[1] \notin DOMAIN runs
    /\ disbursed \subseteq disbursed'
    /\ MoreOffers

\* A call that waits keeps what it holds.
LEMMA PayrollCallKept ==
    ASSUME PayrollRows, PayrollFrame, NEW c \in DOMAIN payCalls, payCalls'[c] = payCalls[c]
    PROVE  PayrollCall(c)'
<1> DEFINE call == payCalls[c]
<1>1. Len(offers) \in Nat /\ Len(offers') \in Nat /\ Len(offers) <= Len(offers')
  BY OffersKept DEF PayrollRows, OffersNameRows, PayrollFrame
<1>2. /\ call.op = "issue" => call.since \in Nat
      /\ call.op = "file" => call.since \in Nat
  BY PayrollCallTypes DEF PayrollRows, P!IssueCall, P!FileCall
<1>3. PayrollCall(c)
  BY DEF PayrollRows
<1> HIDE DEF call
<1>4. ASSUME call.op = "issue"
      PROVE  /\ call.run \in DOMAIN runs' /\ call.since <= Len(offers')
             /\ call.todo \subseteq call.seen
             /\ \A s \in call.seen : s \in DOMAIN payslips' /\ s[1] = call.run
  BY <1>1, <1>2, <1>3, <1>4 DEF PayrollCall, PayrollFrame, call
<1>5. ASSUME call.op = "payout"
      PROVE  /\ call.run \in DOMAIN runs'
             /\ \A s \in call.todo : s \in DOMAIN payslips' /\ s[1] = call.run
             /\ \A s \in DOMAIN payslips' :
                   s[1] = call.run => s \in call.todo \/ s \in disbursed'
  BY <1>3, <1>5 DEF PayrollCall, PayrollFrame, call
<1>6. ASSUME call.op = "file"
      PROVE  call.filing \in DOMAIN filings' /\ call.since <= Len(offers')
  BY <1>1, <1>2, <1>3, <1>6 DEF PayrollCall, PayrollFrame, call
<1>7. payCalls'[c] = call
  BY DEF call
<1> QED BY <1>4, <1>5, <1>6, <1>7 DEF PayrollCall

\* The names that offers use stay.
LEMMA OffersNamed ==
    ASSUME OffersNameRows, DOMAIN payslips \subseteq DOMAIN payslips',
           DOMAIN employees \subseteq DOMAIN employees',
           \/ offers' = offers
           \/ \E o \in Offer : /\ offers' = Append(offers, o)
                               /\ o.type = "PayslipVC" => o.of \in DOMAIN payslips'
                               /\ o.type = "EmploymentContractVC" => o.of \in DOMAIN employees'
    PROVE  OffersNameRows'
<1>1. CASE offers' = offers
  BY <1>1 DEF OffersNameRows
<1>2. CASE \E o \in Offer : /\ offers' = Append(offers, o)
                            /\ o.type = "PayslipVC" => o.of \in DOMAIN payslips'
                            /\ o.type = "EmploymentContractVC" => o.of \in DOMAIN employees'
  <2>1. PICK o \in Offer : /\ offers' = Append(offers, o)
                           /\ o.type = "PayslipVC" => o.of \in DOMAIN payslips'
                           /\ o.type = "EmploymentContractVC" => o.of \in DOMAIN employees'
    BY <1>2
  <2>2. offers \in Seq(Offer)
    BY DEF OffersNameRows
  <2>3. /\ offers' \in Seq(Offer)
        /\ Len(offers) \in Nat
        /\ DOMAIN offers = 1..Len(offers) /\ DOMAIN offers' = 1..(Len(offers) + 1)
        /\ \A i \in DOMAIN offers : offers'[i] = offers[i]
        /\ offers'[Len(offers) + 1] = o
    BY <2>1, <2>2, OfferAdded
  <2>4. \A i \in DOMAIN offers' : i \in DOMAIN offers \/ i = Len(offers) + 1
    BY <2>3
  <2> QED BY <2>1, <2>3, <2>4 DEF OffersNameRows
<1> QED BY <1>1, <1>2

PayrollCallSet == P!IssueCall \cup P!PayCall \cup P!FileCall

\* The calls of payroll after a step: each is one that waited, but those in new.
CallsThen(new) ==
    /\ P!IsTable(payCalls', 1..started', PayrollCallSet)
    /\ \A c \in DOMAIN payCalls' :
          c \notin new => c \in DOMAIN payCalls /\ payCalls'[c] = payCalls[c]

\* A call begins, returns, goes on to its next payslip, or waits.
LEMMA CallBegun ==
    ASSUME P!TypeOK, NEW call \in PayrollCallSet, P!Request, P!Begin(call)
    PROVE  /\ CallsThen({started + 1})
           /\ payCalls'[started + 1] = call
<1>1. P!IsTable(payCalls, 1..started, PayrollCallSet) /\ started \in Nat
  BY Bounds DEF P!TypeOK, PayrollCallSet
<1>2. started' = started + 1 /\ payCalls' = P!Put(payCalls, started + 1, call)
  BY DEF P!Request, P!Begin
<1>3. P!IsTable(payCalls, 1..started', PayrollCallSet) /\ started + 1 \in 1..started'
  BY <1>1, <1>2 DEF P!IsTable
<1>4. P!IsTable(payCalls', 1..started', PayrollCallSet)
  BY <1>2, <1>3, PayrollTables
<1>5. payCalls'[started + 1] = call
  BY <1>2 DEF P!Put
<1>6. \A c \in DOMAIN payCalls' :
         c # started + 1 => c \in DOMAIN payCalls /\ payCalls'[c] = payCalls[c]
  BY <1>2 DEF P!Put
<1> QED BY <1>4, <1>5, <1>6 DEF CallsThen

LEMMA CallReturned ==
    ASSUME P!TypeOK, NEW c, P!Return(c), UNCHANGED started
    PROVE  CallsThen({})
<1>1. payCalls' = P!Without(payCalls, {c})
  BY DEF P!Return
<1> QED BY <1>1 DEF P!TypeOK, PayrollCallSet, CallsThen, P!Without, P!IsTable

LEMMA CallContinued ==
    ASSUME P!TypeOK, NEW c \in DOMAIN payCalls, payCalls[c].op \in {"issue", "payout"},
           NEW s, P!Continue(c, s), UNCHANGED started
    PROVE  /\ CallsThen({c})
           /\ payCalls'[c] = [payCalls[c] EXCEPT !.todo = payCalls[c].todo \ {s}]
           /\ DOMAIN payCalls' = DOMAIN payCalls
<1> DEFINE call == payCalls[c]
           next == [call EXCEPT !.todo = call.todo \ {s}]
<1>1. payCalls' = P!Put(payCalls, c, next)
  BY DEF P!Continue
<1>2. (call \in P!IssueCall \/ call \in P!PayCall) /\ c \in 1..started
  BY PayrollCallTypes
<1> HIDE DEF call
<1>3. next \in PayrollCallSet
  BY <1>2 DEF P!IssueCall, P!PayCall, PayrollCallSet
<1> HIDE DEF next
<1>4. P!IsTable(payCalls, 1..started, PayrollCallSet)
  BY DEF P!TypeOK, PayrollCallSet
<1>5. P!IsTable(payCalls', 1..started', PayrollCallSet)
  BY <1>1, <1>2, <1>3, <1>4, PayrollTables
<1>6. payCalls'[c] = next /\ DOMAIN payCalls' = DOMAIN payCalls
  BY <1>1 DEF P!Put
<1>7. \A k \in DOMAIN payCalls' : k # c => payCalls'[k] = payCalls[k]
  BY <1>1 DEF P!Put
<1> QED BY <1>5, <1>6, <1>7 DEF CallsThen, next, call

LEMMA CallsWait ==
    ASSUME P!TypeOK, started' \in {started, started + 1}, UNCHANGED payCalls
    PROVE  CallsThen({})
<1>1. started \in Nat
  BY Bounds DEF P!TypeOK
<1> QED BY <1>1 DEF P!TypeOK, PayrollCallSet, CallsThen, P!IsTable

\* The table that a step changes, if it changes it, and how.
LEMMA PayrollRowsKept ==
    ASSUME PayrollRows, PayrollFrame,
           started' \in {started, started + 1}, started' \in 0..MaxCalls,
           failures' \in 0..MaxFailures,
           \/ employees' = employees
           \/ /\ P!IsTable(employees', P!Ids, P!Employee) /\ Upto(employees', started')
              /\ DOMAIN employees \subseteq DOMAIN employees',
           \/ runs' = runs
           \/ /\ P!IsTable(runs', P!Ids, P!Run) /\ Upto(runs', started')
              /\ \A r \in DOMAIN runs' : runs'[r].vc <= Len(offers'),
           \/ filings' = filings
           \/ /\ P!IsTable(filings', P!Ids, P!Filing) /\ Upto(filings', started')
              /\ \A f \in DOMAIN filings' : filings'[f].run \in DOMAIN runs',
           \/ payslips' = payslips
           \/ /\ P!IsTable(payslips', P!Ids \X P!Ids, P!Payslip)
              /\ \A s \in DOMAIN payslips' : s[1] \in DOMAIN runs',
           disbursed' \subseteq DOMAIN payslips',
           \/ offers' = offers
           \/ \E o \in Offer : /\ offers' = Append(offers, o)
                               /\ o.type = "PayslipVC" => o.of \in DOMAIN payslips'
                               /\ o.type = "EmploymentContractVC" => o.of \in DOMAIN employees',
           NEW new, CallsThen(new),
           \A c \in DOMAIN payCalls' : c \in new => PayrollCall(c)'
    PROVE  PayrollRows'
<1>1. /\ P!TypeOK /\ OffersNameRows /\ PayrollKeys /\ started \in Nat
      /\ Upto(employees, started) /\ Upto(runs, started) /\ Upto(filings, started)
  BY Bounds DEF PayrollRows, P!TypeOK, Numbered
<1>2. Numbered(employees)' /\ Numbered(runs)' /\ Numbered(filings)'
  BY <1>1, UptoKept DEF Numbered
<1>3. P!TypeOK'
  BY <1>1 DEF P!TypeOK, CallsThen, PayrollCallSet
<1>4. DOMAIN employees \subseteq DOMAIN employees'
  OBVIOUS
<1>5. OffersNameRows'
  BY <1>1, <1>4, OffersNamed DEF PayrollFrame
<1>6. PayrollKeys'
  <2>1. \A s \in DOMAIN payslips' : s[1] \in DOMAIN runs'
    BY <1>1 DEF PayrollKeys, PayrollFrame
  <2>2. \A f \in DOMAIN filings' : filings'[f].run \in DOMAIN runs'
    BY <1>1 DEF PayrollKeys, PayrollFrame
  <2>3. ASSUME NEW r \in DOMAIN runs'
        PROVE  runs'[r].vc <= Len(offers')
    <3>1. CASE runs' = runs
      <4>1. Len(offers) \in Nat /\ Len(offers') \in Nat /\ Len(offers) <= Len(offers')
        BY <1>1, OffersKept DEF OffersNameRows, PayrollFrame
      <4>2. runs[r].vc \in Nat /\ runs[r].vc <= Len(offers)
        BY <1>1, <3>1 DEF PayrollKeys, P!TypeOK, P!IsTable, P!Run
      <4> QED BY <3>1, <4>1, <4>2
    <3>2. CASE runs' # runs
      BY <3>2
    <3> QED BY <3>1, <3>2
  <2> QED BY <2>1, <2>2, <2>3 DEF PayrollKeys
<1>7. ASSUME NEW c \in DOMAIN payCalls'
      PROVE  PayrollCall(c)'
  <2>1. CASE c \in new
    BY <2>1
  <2>2. CASE c \notin new
    BY <2>2, PayrollCallKept DEF CallsThen
  <2> QED BY <2>1, <2>2
<1> QED BY <1>2, <1>3, <1>5, <1>6, <1>7 DEF PayrollRows

\* What a request of payroll does to the counters, and what an answer does.
LEMMA RequestCounts ==
    ASSUME PayrollRows, started < MaxCalls, started' = started + 1, UNCHANGED failures
    PROVE  /\ started \in Nat /\ started' \in 0..MaxCalls /\ started' \in {started, started + 1}
           /\ failures' \in 0..MaxFailures
BY Bounds DEF PayrollRows, P!TypeOK

LEMMA AnswerCounts ==
    ASSUME PayrollRows, UNCHANGED started,
           UNCHANGED failures \/ (failures < MaxFailures /\ failures' = failures + 1)
    PROVE  /\ started \in Nat /\ started' \in 0..MaxCalls /\ started' \in {started, started + 1}
           /\ failures' \in 0..MaxFailures
BY Bounds DEF PayrollRows, P!TypeOK

\* The number a request of payroll takes for a row.
LEMMA PayrollFresh ==
    ASSUME PayrollRows, P!Request, NEW table, Upto(table, started)
    PROVE  /\ P!Fresh(table) \in P!Ids /\ P!Fresh(table) \notin DOMAIN table
           /\ \A new : DOMAIN new = DOMAIN table \cup {P!Fresh(table)} => Upto(new, started')
<1>1. started \in Nat /\ MaxCalls \in Nat /\ started < MaxCalls /\ started' = started + 1
  BY Bounds DEF PayrollRows, P!TypeOK, P!Request
<1> QED BY <1>1, FreshFacts DEF P!Ids

\* A table of payroll with one row changed.
LEMMA PayrollRowChanged ==
    ASSUME NEW n \in Nat, NEW m \in {n, n + 1},
           NEW Row, NEW table, P!IsTable(table, P!Ids, Row), Upto(table, n),
           NEW key \in DOMAIN table, NEW row \in Row, NEW new, new = P!Put(table, key, row)
    PROVE  /\ P!IsTable(new, P!Ids, Row) /\ Upto(new, m)
           /\ DOMAIN new = DOMAIN table
           /\ new[key] = row /\ \A k \in DOMAIN table : k # key => new[k] = table[k]
<1>1. DOMAIN new = DOMAIN table
  BY DEF P!Put
<1>2. Upto(new, m)
  BY <1>1, UptoKept
<1>3. key \in P!Ids
  BY DEF P!IsTable
<1>4. P!IsTable(new, P!Ids, Row)
  BY <1>3, PayrollTables
<1>5. new[key] = row /\ \A k \in DOMAIN table : k # key => new[k] = table[k]
  BY DEF P!Put
<1> QED BY <1>1, <1>2, <1>4, <1>5

\* The facts that hold before every step.
LEMMA PayrollRowTypes ==
    ASSUME PayrollRows
    PROVE  /\ P!TypeOK
           /\ P!IsTable(employees, P!Ids, P!Employee) /\ Upto(employees, started)
           /\ P!IsTable(runs, P!Ids, P!Run) /\ Upto(runs, started)
           /\ P!IsTable(payslips, P!Ids \X P!Ids, P!Payslip)
           /\ P!IsTable(filings, P!Ids, P!Filing) /\ Upto(filings, started)
           /\ disbursed \subseteq DOMAIN payslips
           /\ offers \in Seq(Offer) /\ Len(offers) \in Nat
           /\ started \in Nat /\ failures \in Nat
<1>1. offers \in Seq(Offer)
  BY DEF PayrollRows, OffersNameRows
<1>2. Len(offers) \in Nat
  BY <1>1
<1> QED BY <1>1, <1>2, Bounds DEF PayrollRows, P!TypeOK, Numbered

LEMMA SaveEmployeeRows ==
    ASSUME PayrollRows, NEW salary \in Salaries, P!SaveEmployee(salary)
    PROVE  PayrollRows'
<1> DEFINE row == [tenant |-> DefaultTenant, salary |-> salary, candidate |-> 0]
<1>1. /\ P!Request /\ started < MaxCalls /\ started' = started + 1
      /\ UNCHANGED <<runs, payslips, filings, disbursed, payCalls, offers, failures>>
      /\ employees' = P!Put(employees, P!Fresh(employees), row)
  BY DEF P!SaveEmployee, P!Request
<1>2. row \in P!Employee
  BY Bounds DEF P!Employee
<1> HIDE DEF row
<1>3. /\ P!IsTable(employees', P!Ids, P!Employee) /\ Upto(employees', started')
      /\ DOMAIN employees \subseteq DOMAIN employees'
  <2>1. P!IsTable(employees, P!Ids, P!Employee) /\ Upto(employees, started)
    BY PayrollRowTypes
  <2> DEFINE key == P!Fresh(employees)
  <2>2. /\ key \in P!Ids
        /\ \A new : DOMAIN new = DOMAIN employees \cup {key} => Upto(new, started')
    BY <1>1, <2>1, PayrollFresh
  <2>3. employees' = P!Put(employees, key, row)
    BY <1>1
  <2> HIDE DEF key
  <2>4. DOMAIN employees' = DOMAIN employees \cup {key}
    BY <2>3 DEF P!Put
  <2>5. P!IsTable(employees', P!Ids, P!Employee)
    BY <1>2, <2>1, <2>2, <2>3, PayrollTables
  <2> QED BY <2>2, <2>4, <2>5
<1>4. PayrollFrame
  BY <1>1 DEF PayrollFrame, MoreOffers
<1>5. CallsThen({})
  BY <1>1, CallsWait, PayrollRowTypes
<1>6. disbursed' \subseteq DOMAIN payslips'
  BY <1>1, PayrollRowTypes
<1>7. /\ started' \in 0..MaxCalls /\ started' \in {started, started + 1}
      /\ failures' \in 0..MaxFailures
  BY <1>1, RequestCounts
<1> QED BY <1>1, <1>3, <1>4, <1>5, <1>6, <1>7, PayrollRowsKept

\* The rows of a table are finitely many.
LEMMA FiniteTables ==
    ASSUME PayrollRows
    PROVE  /\ IsFiniteSet(DOMAIN employees) /\ IsFiniteSet(P!Ids \X P!Ids)
           /\ IsFiniteSet(DOMAIN payslips) /\ \A S : S \subseteq DOMAIN payslips => Priced(payslips, S)
<1>1. PICK k \in 0..started : DOMAIN employees = 1..k
  BY PayrollRowTypes DEF Upto
<1>2. started \in Nat /\ MaxCalls \in Nat
  BY PayrollRowTypes, Bounds
<1>3. IsFiniteSet(DOMAIN employees)
  <2>1. k \in Int
    BY <1>2
  <2> QED BY <1>1, <2>1, FS_Interval
<1>4. IsFiniteSet(P!Ids \X P!Ids)
  <2>1. IsFiniteSet(P!Ids)
    BY <1>2, FS_Interval DEF P!Ids
  <2> QED BY <2>1, FS_Product
<1>5. IsFiniteSet(DOMAIN payslips)
  <2>1. DOMAIN payslips \subseteq P!Ids \X P!Ids
    BY PayrollRowTypes DEF P!IsTable
  <2> QED BY <1>4, <2>1, FS_Subset
<1>6. ASSUME NEW S, S \subseteq DOMAIN payslips
      PROVE  Priced(payslips, S)
  <2>1. IsFiniteSet(S)
    BY <1>5, <1>6, FS_Subset
  <2>2. \A s \in S : payslips[s].gross \in Nat
    BY <1>6, PayrollRowTypes DEF P!IsTable, P!Payslip
  <2> QED BY <2>1, <2>2 DEF Priced
<1> QED BY <1>3, <1>4, <1>5, <1>6

\* calculatePayrollRun: what it adds.
LEMMA CalculateAdds ==
    ASSUME PayrollRows, P!CalculatePayrollRun
    PROVE  /\ P!Request /\ UNCHANGED <<employees, filings, disbursed, payCalls, offers, failures>>
           /\ \E r \in P!Ids, paid \in SUBSET DOMAIN employees, row \in P!Run :
                 /\ r \notin DOMAIN runs /\ runs' = P!Put(runs, r, row)
                 /\ \A new : DOMAIN new = DOMAIN runs \cup {r} => Upto(new, started')
                 /\ row.vc = 0 /\ row.totals = P!Nothing /\ row.status = "draft"
                 /\ payslips' = [s \in DOMAIN payslips \cup ({r} \X paid) |->
                                    IF s \in {r} \X paid
                                    THEN [gross |-> employees[s[2]].salary, status |-> "pending",
                                          vc |-> 0]
                                    ELSE payslips[s]]
<1> DEFINE r == P!Fresh(runs)
           paid == {e \in DOMAIN employees : employees[e].tenant = DefaultTenant}
           gross == P!SumFunction([e \in paid |-> employees[e].salary])
           net == P!SumFunction([e \in paid |-> P!Net(employees[e].salary)])
           row == [status |-> "draft", totals |-> P!Nothing, vc |-> 0, gross |-> gross, net |-> net]
<1>1. /\ P!Request /\ UNCHANGED <<employees, filings, disbursed, payCalls, offers, failures>>
      /\ runs' = P!Put(runs, r, row)
      /\ payslips' = [s \in DOMAIN payslips \cup ({r} \X paid) |->
                         IF s \in {r} \X paid
                         THEN [gross |-> employees[s[2]].salary, status |-> "pending", vc |-> 0]
                         ELSE payslips[s]]
  BY DEF P!CalculatePayrollRun, P!NoOffer
<1>2. IsFiniteSet(paid) /\ paid \in SUBSET DOMAIN employees
  BY FiniteTables, FS_Subset
<1>3. \A e \in paid : employees[e].salary \in Nat
  BY PayrollRowTypes DEF P!IsTable, P!Employee
<1>4. gross \in Nat
  <2>1. [e \in paid |-> employees[e].salary] \in [paid -> Nat]
    BY <1>3
  <2> HIDE DEF paid
  <2> QED BY <1>2, <2>1, PayrollSumType
<1>5. net \in Nat
  <2>1. [e \in paid |-> P!Net(employees[e].salary)] \in [paid -> Nat]
    BY <1>3, DeductionFacts
  <2> HIDE DEF paid
  <2> QED BY <1>2, <2>1, PayrollSumType
<1> HIDE DEF gross, net, paid
<1>6. row \in P!Run /\ row.vc = 0 /\ row.totals = P!Nothing /\ row.status = "draft"
  BY <1>4, <1>5 DEF P!Run, P!Nothing
<1>7. /\ r \in P!Ids /\ r \notin DOMAIN runs
      /\ \A new : DOMAIN new = DOMAIN runs \cup {r} => Upto(new, started')
  BY <1>1, PayrollFresh, PayrollRowTypes
<1> HIDE DEF r, row
<1> QED BY <1>1, <1>2, <1>6, <1>7

LEMMA CalculateRows ==
    ASSUME PayrollRows, P!CalculatePayrollRun
    PROVE  PayrollRows'
<1>1. P!Request /\ UNCHANGED <<employees, filings, disbursed, payCalls, offers, failures>>
  BY CalculateAdds
<1>2. PICK r \in P!Ids, paid \in SUBSET DOMAIN employees, row \in P!Run :
         /\ r \notin DOMAIN runs /\ runs' = P!Put(runs, r, row)
         /\ \A new : DOMAIN new = DOMAIN runs \cup {r} => Upto(new, started')
         /\ row.vc = 0 /\ row.totals = P!Nothing /\ row.status = "draft"
         /\ payslips' = [s \in DOMAIN payslips \cup ({r} \X paid) |->
                            IF s \in {r} \X paid
                            THEN [gross |-> employees[s[2]].salary, status |-> "pending",
                                  vc |-> 0]
                            ELSE payslips[s]]
  BY CalculateAdds
<1>3. /\ DOMAIN runs' = DOMAIN runs \cup {r} /\ runs'[r] = row
      /\ \A k \in DOMAIN runs : runs'[k] = runs[k]
  BY <1>2 DEF P!Put
<1>4. P!IsTable(runs', P!Ids, P!Run) /\ Upto(runs', started')
  BY <1>2, <1>3, PayrollTables, PayrollRowTypes
<1>5. \A k \in DOMAIN runs' : runs'[k].vc <= Len(offers')
  <2>1. \A k \in DOMAIN runs : runs[k].vc <= Len(offers)
    BY DEF PayrollRows, PayrollKeys
  <2>2. 0 <= Len(offers)
    BY PayrollRowTypes
  <2> QED BY <1>1, <1>2, <1>3, <2>1, <2>2
<1>6. DOMAIN payslips' = DOMAIN payslips \cup ({r} \X paid)
  BY <1>2
<1>7. \A s \in DOMAIN payslips : s[1] \in DOMAIN runs
  BY DEF PayrollRows, PayrollKeys
<1>8. P!IsTable(payslips', P!Ids \X P!Ids, P!Payslip)
  <2>1. paid \subseteq P!Ids /\ \A e \in paid : employees[e].salary \in Nat
    BY <1>2, PayrollRowTypes DEF P!IsTable, P!Employee
  <2>2. DOMAIN payslips' \subseteq P!Ids \X P!Ids
    BY <1>2, <1>6, <2>1, PayrollRowTypes DEF P!IsTable
  <2>3. ASSUME NEW s \in DOMAIN payslips'
        PROVE  payslips'[s] \in P!Payslip
    <3>1. CASE s \in {r} \X paid
      <4>1. s[2] \in paid
        BY <3>1
      <4> QED BY <1>2, <2>1, <3>1, <4>1 DEF P!Payslip
    <3>2. CASE s \notin {r} \X paid
      BY <1>2, <1>6, <2>3, <3>2, PayrollRowTypes DEF P!IsTable
    <3> QED BY <3>1, <3>2
  <2>4. payslips' = [s \in DOMAIN payslips' |-> payslips'[s]]
    BY <1>2
  <2> QED BY <2>2, <2>3, <2>4 DEF P!IsTable
<1>9. \A s \in DOMAIN payslips' : s[1] \in DOMAIN runs'
  BY <1>3, <1>6, <1>7
<1>10. PayrollFrame
  BY <1>1, <1>2, <1>3, <1>6 DEF PayrollFrame, MoreOffers
<1>11. started < MaxCalls /\ started' = started + 1
  BY <1>1 DEF P!Request
<1>12. /\ started' \in 0..MaxCalls /\ started' \in {started, started + 1}
       /\ failures' \in 0..MaxFailures
  BY <1>1, <1>11, RequestCounts
<1>13. CallsThen({})
  BY <1>1, <1>12, CallsWait, PayrollRowTypes
<1>14. disbursed' \subseteq DOMAIN payslips'
  BY <1>1, <1>6, PayrollRowTypes
<1> QED BY <1>1, <1>4, <1>5, <1>8, <1>9, <1>10, <1>12, <1>13, <1>14, PayrollRowsKept

LEMMA UpdateTaxRows ==
    ASSUME PayrollRows, NEW f, NEW status \in {"filed", "confirmed", "rejected"},
           P!UpdateTaxComplianceStatus(f, status)
    PROVE  PayrollRows'
<1> DEFINE row == [filings[f] EXCEPT !.status = status]
<1>1. /\ P!Request /\ started < MaxCalls /\ started' = started + 1 /\ f \in DOMAIN filings
      /\ filings' = P!Put(filings, f, row)
      /\ UNCHANGED <<employees, runs, payslips, disbursed, payCalls, offers, failures>>
  BY DEF P!UpdateTaxComplianceStatus, P!Request
<1>2. filings[f] \in P!Filing /\ filings[f].run \in DOMAIN runs
  BY <1>1, PayrollRowTypes DEF P!IsTable, PayrollRows, PayrollKeys
<1>3. row \in P!Filing /\ row.run \in DOMAIN runs
  BY <1>2 DEF P!Filing
<1> HIDE DEF row
<1>4. /\ started' \in 0..MaxCalls /\ started' \in {started, started + 1}
      /\ failures' \in 0..MaxFailures /\ started \in Nat
  BY <1>1, RequestCounts
<1>5. /\ DOMAIN filings' = DOMAIN filings /\ filings'[f] = row
      /\ \A k \in DOMAIN filings : k # f => filings'[k] = filings[k]
  BY <1>1 DEF P!Put
<1>6. P!IsTable(filings', P!Ids, P!Filing) /\ Upto(filings', started')
  <2>1. f \in P!Ids
    BY <1>1, PayrollRowTypes DEF P!IsTable
  <2> QED BY <1>1, <1>3, <1>4, <1>5, <2>1, PayrollTables, PayrollRowTypes, UptoKept
<1>7. \A k \in DOMAIN filings' : filings'[k].run \in DOMAIN runs'
  BY <1>1, <1>3, <1>5 DEF PayrollRows, PayrollKeys
<1>8. PayrollFrame /\ disbursed' \subseteq DOMAIN payslips'
  BY <1>1, <1>5, PayrollRowTypes DEF PayrollFrame, MoreOffers
<1>9. CallsThen({})
  BY <1>1, <1>4, CallsWait, PayrollRowTypes
<1> QED BY <1>1, <1>4, <1>6, <1>7, <1>8, <1>9, PayrollRowsKept

\* A request that only begins a call.
LEMMA BeginRows ==
    ASSUME PayrollRows, P!Request, NEW call \in PayrollCallSet, P!Begin(call),
           UNCHANGED <<employees, runs, payslips, disbursed, offers, failures>>,
           \/ filings' = filings
           \/ /\ P!IsTable(filings', P!Ids, P!Filing) /\ Upto(filings', started')
              /\ \A f \in DOMAIN filings' : filings'[f].run \in DOMAIN runs',
           DOMAIN filings \subseteq DOMAIN filings',
           \A c : c = started + 1 /\ payCalls'[c] = call => PayrollCall(c)'
    PROVE  PayrollRows'
<1>1. /\ CallsThen({started + 1})
      /\ payCalls'[started + 1] = call
  BY CallBegun, PayrollRowTypes
<1>2. started < MaxCalls /\ started' = started + 1
  BY DEF P!Request
<1>3. /\ started' \in 0..MaxCalls /\ started' \in {started, started + 1}
      /\ failures' \in 0..MaxFailures
  BY <1>2, RequestCounts
<1>4. PayrollFrame /\ disbursed' \subseteq DOMAIN payslips'
  BY PayrollRowTypes DEF PayrollFrame, MoreOffers
<1>5. \A c \in DOMAIN payCalls' : c \in {started + 1} => PayrollCall(c)'
  BY <1>1
<1> QED BY <1>1, <1>3, <1>4, <1>5, PayrollRowsKept

LEMMA IssuePayslipsRows ==
    ASSUME PayrollRows, NEW r, P!IssuePayslips(r)
    PROVE  PayrollRows'
<1> DEFINE call == [op |-> "issue", run |-> r, seen |-> P!Pending(r), todo |-> P!Pending(r),
                    since |-> Len(offers)]
<1>1. /\ P!Request /\ r \in DOMAIN runs /\ P!Begin(call)
      /\ UNCHANGED <<employees, runs, payslips, filings, disbursed, offers, failures>>
  BY DEF P!IssuePayslips
<1>2. P!Pending(r) \subseteq DOMAIN payslips /\ \A s \in P!Pending(r) : s[1] = r
  BY DEF P!Pending, P!SlipsOf
<1>3. call \in PayrollCallSet
  <2>1. r \in P!Ids /\ P!Pending(r) \in SUBSET (P!Ids \X P!Ids) /\ Len(offers) \in Nat
    BY <1>1, <1>2, PayrollRowTypes DEF P!IsTable
  <2> HIDE DEF P!Pending
  <2> QED BY <2>1 DEF PayrollCallSet, P!IssueCall
<1>4. ASSUME NEW c, c = started + 1, payCalls'[c] = call
      PROVE  PayrollCall(c)'
  <2>1. /\ call.op = "issue" /\ call.run = r /\ call.since = Len(offers)
        /\ call.todo = P!Pending(r) /\ call.seen = P!Pending(r)
    OBVIOUS
  <2>2. Len(offers) \in Nat
    BY PayrollRowTypes
  <2> HIDE DEF call
  <2> QED BY <1>1, <1>2, <1>4, <2>1, <2>2 DEF PayrollCall
<1> HIDE DEF call
<1> QED BY <1>1, <1>3, <1>4, BeginRows

LEMMA ProcessRunPayoutRows ==
    ASSUME PayrollRows, NEW r, P!ProcessRunPayout(r)
    PROVE  PayrollRows'
<1> DEFINE call == [op |-> "payout", run |-> r, todo |-> P!SlipsOf(r)]
<1>1. /\ P!Request /\ r \in DOMAIN runs /\ P!Begin(call)
      /\ UNCHANGED <<employees, runs, payslips, filings, disbursed, offers, failures>>
  BY DEF P!ProcessRunPayout
<1>2. \A s : s \in P!SlipsOf(r) <=> s \in DOMAIN payslips /\ s[1] = r
  BY DEF P!SlipsOf
<1>3. call \in PayrollCallSet
  <2>1. r \in P!Ids /\ P!SlipsOf(r) \in SUBSET (P!Ids \X P!Ids)
    BY <1>1, <1>2, PayrollRowTypes DEF P!IsTable
  <2> QED BY <2>1 DEF PayrollCallSet, P!PayCall
<1>4. ASSUME NEW c, c = started + 1, payCalls'[c] = call
      PROVE  PayrollCall(c)'
  <2>1. call.op = "payout" /\ call.run = r /\ call.todo = P!SlipsOf(r)
    OBVIOUS
  <2> HIDE DEF call
  <2> QED BY <1>1, <1>2, <1>4, <2>1 DEF PayrollCall
<1> HIDE DEF call
<1> QED BY <1>1, <1>3, <1>4, BeginRows

LEMMA IssueTaxRows ==
    ASSUME PayrollRows, NEW r, NEW type \in FiledTypes, P!IssueTaxComplianceVC(r, type)
    PROVE  PayrollRows'
<1> DEFINE f == P!Fresh(filings)
           row == [run |-> r, type |-> type, status |-> "pending",
                   amount |-> runs[r].totals[type], vc |-> 0]
           call == [op |-> "file", filing |-> f, since |-> Len(offers)]
<1>1. /\ P!Request /\ r \in DOMAIN runs /\ P!Begin(call)
      /\ filings' = P!Put(filings, f, row)
      /\ UNCHANGED <<employees, runs, payslips, disbursed, offers, failures>>
  BY DEF P!IssueTaxComplianceVC, P!NoOffer
<1>2. r \in P!Ids /\ runs[r].totals \in [P!TaxTypes -> Nat]
  BY <1>1, PayrollRowTypes DEF P!IsTable, P!Run
<1>3. row \in P!Filing /\ row.run = r
  BY <1>2, Bounds DEF P!Filing
<1>4. /\ f \in P!Ids
      /\ \A new : DOMAIN new = DOMAIN filings \cup {f} => Upto(new, started')
  BY <1>1, PayrollFresh, PayrollRowTypes
<1> HIDE DEF f, row
<1>5. DOMAIN filings' = DOMAIN filings \cup {f} /\ filings'[f] = row
      /\ \A k \in DOMAIN filings : k # f => filings'[k] = filings[k]
  BY <1>1 DEF P!Put
<1>6. P!IsTable(filings', P!Ids, P!Filing) /\ Upto(filings', started')
  <2>1. P!IsTable(filings, P!Ids, P!Filing)
    BY PayrollRowTypes
  <2> QED BY <1>1, <1>3, <1>4, <1>5, <2>1, PayrollTables
<1>7. \A k \in DOMAIN filings' : filings'[k].run \in DOMAIN runs'
  BY <1>1, <1>3, <1>5 DEF PayrollRows, PayrollKeys
<1>8. call \in PayrollCallSet
  <2>1. Len(offers) \in Nat
    BY PayrollRowTypes
  <2> QED BY <1>4, <2>1 DEF PayrollCallSet, P!FileCall
<1>9. ASSUME NEW c, c = started + 1, payCalls'[c] = call
      PROVE  PayrollCall(c)'
  <2>1. call.op = "file" /\ call.filing = f /\ call.since = Len(offers)
    OBVIOUS
  <2>2. Len(offers) \in Nat
    BY PayrollRowTypes
  <2> HIDE DEF call
  <2> QED BY <1>1, <1>5, <1>9, <2>1, <2>2 DEF PayrollCall
<1> HIDE DEF call
<1> QED BY <1>1, <1>5, <1>6, <1>7, <1>8, <1>9, BeginRows

\* The offer that is made for a holder.
OfferFor(type, of, since, lost) == [type |-> type, of |-> of, since |-> since, lost |-> lost]

\* What a call finds in its rows.
LEMMA IssueCallFacts ==
    ASSUME PayrollRows, NEW c \in DOMAIN payCalls, payCalls[c].op = "issue"
    PROVE  /\ payCalls[c].run \in DOMAIN runs /\ payCalls[c].run \in P!Ids
           /\ payCalls[c].since \in Nat /\ payCalls[c].since <= Len(offers)
           /\ payCalls[c].todo \subseteq payCalls[c].seen
           /\ \A s \in payCalls[c].seen :
                 /\ s \in DOMAIN payslips /\ s \in Nat \X Nat /\ s[1] = payCalls[c].run
                 /\ payslips[s] \in P!Payslip
           /\ runs[payCalls[c].run] \in P!Run
<1>1. PayrollCall(c) /\ payCalls[c] \in P!IssueCall
  BY PayrollCallTypes DEF PayrollRows
<1>2. DOMAIN payslips \subseteq Nat \X Nat
  <2>1. P!Ids \subseteq Nat
    BY DEF P!Ids
  <2> QED BY <2>1, PayrollRowTypes DEF P!IsTable
<1> QED BY <1>1, <1>2, PayrollRowTypes DEF PayrollCall, P!IssueCall, P!IsTable

\* An issuance that goes on to its next payslip holds what it should.
LEMMA IssueContinued ==
    ASSUME PayrollRows, PayrollFrame, NEW c \in DOMAIN payCalls, payCalls[c].op = "issue", NEW s,
           payCalls'[c] = [payCalls[c] EXCEPT !.todo = payCalls[c].todo \ {s}]
    PROVE  PayrollCall(c)'
<1> DEFINE call == payCalls[c]
           next == [call EXCEPT !.todo = call.todo \ {s}]
<1>1. call \in P!IssueCall /\ PayrollCall(c)
  BY PayrollCallTypes DEF PayrollRows
<1>2. /\ next.op = "issue" /\ next.run = call.run /\ next.since = call.since
      /\ next.seen = call.seen /\ next.todo \subseteq call.todo
  BY <1>1 DEF P!IssueCall
<1>3. Len(offers) \in Nat /\ Len(offers') \in Nat /\ Len(offers) <= Len(offers')
  BY OffersKept DEF PayrollRows, OffersNameRows, PayrollFrame
<1>4. /\ call.run \in DOMAIN runs' /\ call.since <= Len(offers')
      /\ call.todo \subseteq call.seen
      /\ \A k \in call.seen : k \in DOMAIN payslips' /\ k[1] = call.run
  <2>1. call.since \in Nat
    BY <1>1 DEF P!IssueCall
  <2> QED BY <1>1, <1>3, <2>1 DEF PayrollCall, PayrollFrame
<1>5. payCalls'[c] = next
  OBVIOUS
<1> HIDE DEF next, call
<1> QED BY <1>2, <1>4, <1>5 DEF PayrollCall

LEMMA SlipOfferedRows ==
    ASSUME PayrollRows, NEW c, NEW s, P!SlipOffered(c, s)
    PROVE  PayrollRows'
<1> DEFINE o == OfferFor("PayslipVC", s, payCalls[c].since, FALSE)
           row == [payslips[s] EXCEPT !.status = "issued", !.vc = Len(offers) + 1]
<1>1. /\ c \in DOMAIN payCalls /\ payCalls[c].op = "issue" /\ s \in payCalls[c].todo
      /\ offers' = Append(offers, o) /\ UNCHANGED failures
      /\ payslips' = P!Put(payslips, s, row)
      /\ P!Continue(c, s)
      /\ UNCHANGED <<employees, runs, filings, disbursed, started>>
  BY DEF P!SlipOffered, P!Issuing, P!Offered, P!NewOffer, P!OfferId, OfferFor
<1>2. /\ payCalls[c].since \in Nat /\ payCalls[c].todo \subseteq payCalls[c].seen
      /\ s \in DOMAIN payslips /\ s \in Nat \X Nat /\ s[1] = payCalls[c].run
      /\ payslips[s] \in P!Payslip
  BY <1>1, IssueCallFacts
<1>3. o \in Offer /\ o.type = "PayslipVC" /\ o.of = s
  BY <1>2 DEF Offer, OfferTypes, OfferFor
<1>4. row \in P!Payslip
  <2>1. Len(offers) + 1 \in Nat
    BY PayrollRowTypes
  <2> QED BY <1>2, <2>1 DEF P!Payslip
<1> HIDE DEF o, row
<1>5. DOMAIN payslips' = DOMAIN payslips
  BY <1>1, <1>2 DEF P!Put
<1>6. P!IsTable(payslips', P!Ids \X P!Ids, P!Payslip)
  <2>1. P!IsTable(payslips, P!Ids \X P!Ids, P!Payslip) /\ s \in P!Ids \X P!Ids
    BY <1>2, PayrollRowTypes DEF P!IsTable
  <2> QED BY <1>1, <1>4, <2>1, PayrollTables
<1>7. \A k \in DOMAIN payslips' : k[1] \in DOMAIN runs'
  BY <1>1, <1>5 DEF PayrollRows, PayrollKeys
<1>8. PayrollFrame /\ disbursed' \subseteq DOMAIN payslips'
  BY <1>1, <1>3, <1>5, PayrollRowTypes DEF PayrollFrame, MoreOffers
<1>9. /\ started' \in 0..MaxCalls /\ started' \in {started, started + 1}
      /\ failures' \in 0..MaxFailures
  BY <1>1, AnswerCounts
<1>10. /\ CallsThen({c})
       /\ payCalls'[c] = [payCalls[c] EXCEPT !.todo = payCalls[c].todo \ {s}]
       /\ DOMAIN payCalls' = DOMAIN payCalls
  BY <1>1, CallContinued, PayrollRowTypes
<1>11. PayrollCall(c)'
  BY <1>1, <1>8, <1>10, IssueContinued
<1>12. \A k \in DOMAIN payCalls' : k \in {c} => PayrollCall(k)'
  BY <1>11
<1>13. o.type = "PayslipVC" => o.of \in DOMAIN payslips'
  BY <1>2, <1>3, <1>5
<1>14. o.type = "EmploymentContractVC" => o.of \in DOMAIN employees'
  BY <1>3
<1> QED BY <1>1, <1>3, <1>6, <1>7, <1>8, <1>9, <1>10, <1>12, <1>13, <1>14, PayrollRowsKept

LEMMA SlipRefusedRows ==
    ASSUME PayrollRows, NEW c, NEW s, P!SlipRefused(c, s)
    PROVE  PayrollRows'
<1> DEFINE o == OfferFor("PayslipVC", s, payCalls[c].since, TRUE)
<1>1. /\ c \in DOMAIN payCalls /\ payCalls[c].op = "issue" /\ s \in payCalls[c].todo
      /\ failures < MaxFailures /\ failures' = failures + 1
      /\ offers' = offers \/ offers' = Append(offers, o)
      /\ P!Continue(c, s)
      /\ UNCHANGED <<employees, runs, payslips, filings, disbursed, started>>
  BY DEF P!SlipRefused, P!Issuing, P!Refused, P!Failure, P!NewOffer, OfferFor
<1>2. /\ payCalls[c].since \in Nat /\ payCalls[c].todo \subseteq payCalls[c].seen
      /\ s \in DOMAIN payslips /\ s \in Nat \X Nat /\ s[1] = payCalls[c].run
  BY <1>1, IssueCallFacts
<1>3. o \in Offer /\ o.type = "PayslipVC" /\ o.of = s
  BY <1>2 DEF Offer, OfferTypes, OfferFor
<1> HIDE DEF o
<1>4. PayrollFrame /\ disbursed' \subseteq DOMAIN payslips'
  BY <1>1, <1>3, PayrollRowTypes DEF PayrollFrame, MoreOffers
<1>5. /\ started' \in 0..MaxCalls /\ started' \in {started, started + 1}
      /\ failures' \in 0..MaxFailures
  BY <1>1, AnswerCounts
<1>6. /\ CallsThen({c})
      /\ payCalls'[c] = [payCalls[c] EXCEPT !.todo = payCalls[c].todo \ {s}]
      /\ DOMAIN payCalls' = DOMAIN payCalls
  BY <1>1, CallContinued, PayrollRowTypes
<1>7. PayrollCall(c)'
  BY <1>1, <1>4, <1>6, IssueContinued
<1>8. \A k \in DOMAIN payCalls' : k \in {c} => PayrollCall(k)'
  BY <1>7
<1>9. /\ o.type = "PayslipVC" => o.of \in DOMAIN payslips'
      /\ o.type = "EmploymentContractVC" => o.of \in DOMAIN employees'
  BY <1>1, <1>2, <1>3
<1> QED BY <1>1, <1>3, <1>4, <1>5, <1>6, <1>8, <1>9, PayrollRowsKept

LEMMA PayCallFacts ==
    ASSUME PayrollRows, NEW c \in DOMAIN payCalls, payCalls[c].op = "payout"
    PROVE  /\ payCalls[c].run \in DOMAIN runs /\ runs[payCalls[c].run] \in P!Run
           /\ payCalls[c] \in P!PayCall
           /\ \A s \in payCalls[c].todo : s \in DOMAIN payslips /\ s[1] = payCalls[c].run
           /\ \A s \in DOMAIN payslips :
                 s[1] = payCalls[c].run => s \in payCalls[c].todo \/ s \in disbursed
<1>1. PayrollCall(c) /\ payCalls[c] \in P!PayCall
  BY PayrollCallTypes DEF PayrollRows
<1> QED BY <1>1, PayrollRowTypes DEF PayrollCall, P!IsTable

LEMMA DisburseRows ==
    ASSUME PayrollRows, NEW c, NEW s, P!Disburse(c, s)
    PROVE  PayrollRows'
<1> DEFINE call == payCalls[c]
           next == [call EXCEPT !.todo = call.todo \ {s}]
<1>1. /\ c \in DOMAIN payCalls /\ payCalls[c].op = "payout" /\ s \in payCalls[c].todo
      /\ disbursed' = disbursed \cup {s} /\ P!Continue(c, s)
      /\ UNCHANGED <<employees, runs, payslips, filings, offers, failures, started>>
  BY DEF P!Disburse, P!Paying
<1>2. /\ call.run \in DOMAIN runs /\ call \in P!PayCall
      /\ \A k \in call.todo : k \in DOMAIN payslips /\ k[1] = call.run
      /\ \A k \in DOMAIN payslips : k[1] = call.run => k \in call.todo \/ k \in disbursed
  BY <1>1, PayCallFacts
<1>3. PayrollFrame /\ disbursed' \subseteq DOMAIN payslips'
  BY <1>1, <1>2, PayrollRowTypes DEF PayrollFrame, MoreOffers
<1>4. /\ started' \in 0..MaxCalls /\ started' \in {started, started + 1}
      /\ failures' \in 0..MaxFailures
  BY <1>1, AnswerCounts
<1>5. CallsThen({c}) /\ payCalls'[c] = next
  BY <1>1, CallContinued, PayrollRowTypes
<1>6. next.op = "payout" /\ next.run = call.run /\ next.todo = call.todo \ {s}
  BY <1>1, <1>2 DEF P!PayCall
<1>7. PayrollCall(c)'
  <2> HIDE DEF call, next
  <2> QED BY <1>1, <1>2, <1>5, <1>6 DEF PayrollCall
<1>8. \A k \in DOMAIN payCalls' : k \in {c} => PayrollCall(k)'
  BY <1>7
<1> QED BY <1>1, <1>3, <1>4, <1>5, <1>8, PayrollRowsKept

\* An answer that ends a call, and may change a row of runs.
LEMMA ReturnRows ==
    ASSUME PayrollRows, NEW c \in DOMAIN payCalls, P!Return(c),
           UNCHANGED <<employees, payslips, filings, disbursed, started>>,
           UNCHANGED failures \/ (failures < MaxFailures /\ failures' = failures + 1),
           NEW r \in DOMAIN runs, NEW row \in P!Run,
           runs' = runs \/ runs' = P!Put(runs, r, row),
           row.vc <= Len(offers'),
           NEW o \in Offer, offers' = offers \/ offers' = Append(offers, o),
           o.type \notin {"PayslipVC", "EmploymentContractVC"}
    PROVE  PayrollRows'
<1>1. /\ P!TypeOK /\ P!IsTable(runs, P!Ids, P!Run) /\ Upto(runs, started) /\ started \in Nat
      /\ offers \in Seq(Offer) /\ disbursed \subseteq DOMAIN payslips
  BY PayrollRowTypes
<1>2. MoreOffers
  BY DEF MoreOffers
<1>3. \/ runs' = runs
      \/ /\ P!IsTable(runs', P!Ids, P!Run) /\ Upto(runs', started')
         /\ \A k \in DOMAIN runs' : runs'[k].vc <= Len(offers')
  <2> SUFFICES ASSUME runs' = P!Put(runs, r, row)
               PROVE  /\ P!IsTable(runs', P!Ids, P!Run) /\ Upto(runs', started')
                      /\ \A k \in DOMAIN runs' : runs'[k].vc <= Len(offers')
    OBVIOUS
  <2>1. /\ DOMAIN runs' = DOMAIN runs /\ runs'[r] = row
        /\ \A k \in DOMAIN runs : k # r => runs'[k] = runs[k]
    BY DEF P!Put
  <2>2. r \in P!Ids
    BY <1>1 DEF P!IsTable
  <2>3. P!IsTable(runs', P!Ids, P!Run)
    BY <1>1, <2>2, PayrollTables
  <2>4. Upto(runs', started')
    BY <1>1, <2>1, UptoKept
  <2>5. Len(offers) \in Nat /\ Len(offers') \in Nat /\ Len(offers) <= Len(offers')
    BY <1>1, <1>2, OffersKept
  <2>6. \A k \in DOMAIN runs : runs[k].vc <= Len(offers) /\ runs[k].vc \in Nat
    BY <1>1 DEF PayrollRows, PayrollKeys, P!IsTable, P!Run
  <2>7. \A k \in DOMAIN runs' : runs'[k].vc <= Len(offers')
    BY <2>1, <2>5, <2>6
  <2> QED BY <2>3, <2>4, <2>7
<1>4. DOMAIN runs' = DOMAIN runs
  BY DEF P!Put
<1>5. PayrollFrame
  BY <1>2, <1>4 DEF PayrollFrame
<1>6. /\ started' \in 0..MaxCalls /\ started' \in {started, started + 1}
      /\ failures' \in 0..MaxFailures
  BY AnswerCounts
<1>7. CallsThen({})
  BY <1>1, CallReturned
<1> QED BY <1>1, <1>3, <1>5, <1>6, <1>7, PayrollRowsKept

LEMMA PayoutEndsRows ==
    ASSUME PayrollRows, NEW c, P!PayoutEnds(c)
    PROVE  PayrollRows'
<1> DEFINE r == payCalls[c].run
           row == [runs[r] EXCEPT !.status = "paid"]
           o == OfferFor("PayrollRunVC", 0, 0, TRUE)
<1>1. /\ c \in DOMAIN payCalls /\ payCalls[c].op = "payout" /\ runs' = P!Put(runs, r, row)
      /\ P!Return(c)
      /\ UNCHANGED <<employees, payslips, filings, disbursed, offers, failures, started>>
  BY DEF P!PayoutEnds, P!Paying
<1>2. r \in DOMAIN runs /\ runs[r] \in P!Run /\ runs[r].vc <= Len(offers)
  BY <1>1, PayCallFacts DEF PayrollRows, PayrollKeys
<1>3. o \in Offer /\ o.type \notin {"PayslipVC", "EmploymentContractVC"}
  BY DEF Offer, OfferTypes, OfferFor
<1> HIDE DEF r, o
<1>4. row \in P!Run /\ row.vc <= Len(offers')
  BY <1>1, <1>2 DEF P!Run
<1> HIDE DEF row
<1> QED BY <1>1, <1>2, <1>3, <1>4, ReturnRows

\* The run of an issuance gets its totals.
LEMMA RunOfferedRow ==
    ASSUME PayrollRows, NEW c, P!RunOffered(c)
    PROVE  \E r \in DOMAIN runs, row \in P!Run, o \in Offer :
              /\ c \in DOMAIN payCalls /\ payCalls[c].op = "issue" /\ payCalls[c].run = r
              /\ runs' = P!Put(runs, r, row)
              /\ offers' = Append(offers, o) /\ UNCHANGED failures
              /\ o = OfferFor("PayrollRunVC", r, payCalls[c].since, FALSE)
              /\ row.vc = Len(offers) + 1 /\ row.status = "completed"
              /\ row.totals = Sums(payslips, payCalls[c].seen)
              /\ P!Return(c)
              /\ UNCHANGED <<employees, payslips, filings, disbursed, started>>
<1> DEFINE r == payCalls[c].run
           row == [runs[r] EXCEPT !.status = "completed", !.vc = Len(offers) + 1,
                                  !.totals = Sums(payslips, payCalls[c].seen)]
           o == OfferFor("PayrollRunVC", r, payCalls[c].since, FALSE)
<1>1. /\ c \in DOMAIN payCalls /\ payCalls[c].op = "issue" /\ UNCHANGED failures
      /\ offers' = Append(offers, o) /\ runs' = P!Put(runs, r, row) /\ P!Return(c)
      /\ UNCHANGED <<employees, payslips, filings, disbursed, started>>
  BY DEF P!RunOffered, P!Summing, P!Offered, P!NewOffer, P!OfferId, OfferFor, P!Totals, Sums
<1>2. /\ r \in DOMAIN runs /\ r \in P!Ids /\ payCalls[c].since \in Nat /\ runs[r] \in P!Run
      /\ payCalls[c].seen \subseteq DOMAIN payslips
  BY <1>1, IssueCallFacts
<1>3. Sums(payslips, payCalls[c].seen) \in [P!TaxTypes -> Nat]
  <2> SUFFICES ASSUME NEW seen, seen = payCalls[c].seen
               PROVE  Sums(payslips, seen) \in [P!TaxTypes -> Nat]
    OBVIOUS
  <2> QED BY <1>2, FiniteTables, SumsType
<1>4. o \in Offer
  BY <1>2 DEF Offer, OfferTypes, OfferFor, P!Ids
<1>5. /\ row \in P!Run /\ row.vc = Len(offers) + 1 /\ row.status = "completed"
      /\ row.totals = Sums(payslips, payCalls[c].seen)
  <2>1. Len(offers) + 1 \in Nat
    BY PayrollRowTypes
  <2> HIDE DEF r
  <2> QED BY <1>2, <1>3, <2>1 DEF P!Run
<1> HIDE DEF row
<1> QED BY <1>1, <1>2, <1>4, <1>5

LEMMA RunOfferedRows ==
    ASSUME PayrollRows, NEW c, P!RunOffered(c)
    PROVE  PayrollRows'
<1>1. PICK r \in DOMAIN runs, row \in P!Run, o \in Offer :
         /\ c \in DOMAIN payCalls /\ payCalls[c].op = "issue" /\ payCalls[c].run = r
         /\ runs' = P!Put(runs, r, row)
         /\ offers' = Append(offers, o) /\ UNCHANGED failures
         /\ o = OfferFor("PayrollRunVC", r, payCalls[c].since, FALSE)
         /\ row.vc = Len(offers) + 1 /\ row.status = "completed"
         /\ row.totals = Sums(payslips, payCalls[c].seen)
         /\ P!Return(c)
         /\ UNCHANGED <<employees, payslips, filings, disbursed, started>>
  BY RunOfferedRow
<1>2. row.vc <= Len(offers')
  <2>1. offers \in Seq(Offer)
    BY PayrollRowTypes
  <2>2. Len(offers') = Len(offers) + 1 /\ Len(offers) \in Nat
    BY <1>1, <2>1, OfferAdded
  <2> QED BY <1>1, <2>2
<1>3. o.type \notin {"PayslipVC", "EmploymentContractVC"}
  BY <1>1 DEF OfferFor
<1> QED BY <1>1, <1>2, <1>3, ReturnRows

\* The run of an issuance gets its status only.
LEMMA RunRefusedRow ==
    ASSUME PayrollRows, NEW c, P!RunRefused(c)
    PROVE  \E r \in DOMAIN runs, row \in P!Run, o \in Offer :
              /\ c \in DOMAIN payCalls /\ payCalls[c].op = "issue" /\ payCalls[c].run = r
              /\ runs' = P!Put(runs, r, row)
              /\ offers' = offers \/ offers' = Append(offers, o)
              /\ failures < MaxFailures /\ failures' = failures + 1
              /\ o = OfferFor("PayrollRunVC", r, payCalls[c].since, TRUE)
              /\ row.vc = runs[r].vc /\ row.totals = runs[r].totals /\ row.status = "completed"
              /\ P!Return(c)
              /\ UNCHANGED <<employees, payslips, filings, disbursed, started>>
<1> DEFINE r == payCalls[c].run
           row == [runs[r] EXCEPT !.status = "completed"]
           o == OfferFor("PayrollRunVC", r, payCalls[c].since, TRUE)
<1>1. /\ c \in DOMAIN payCalls /\ payCalls[c].op = "issue"
      /\ failures < MaxFailures /\ failures' = failures + 1
      /\ offers' = offers \/ offers' = Append(offers, o)
      /\ runs' = P!Put(runs, r, row) /\ P!Return(c)
      /\ UNCHANGED <<employees, payslips, filings, disbursed, started>>
  BY DEF P!RunRefused, P!Summing, P!Refused, P!Failure, P!NewOffer, OfferFor
<1>2. r \in DOMAIN runs /\ r \in P!Ids /\ payCalls[c].since \in Nat /\ runs[r] \in P!Run
  BY <1>1, IssueCallFacts
<1>3. o \in Offer
  BY <1>2 DEF Offer, OfferTypes, OfferFor, P!Ids
<1>4. /\ row \in P!Run /\ row.vc = runs[r].vc /\ row.totals = runs[r].totals
      /\ row.status = "completed"
  <2> HIDE DEF r
  <2> QED BY <1>2 DEF P!Run
<1> QED BY <1>1, <1>2, <1>3, <1>4

LEMMA RunRefusedRows ==
    ASSUME PayrollRows, NEW c, P!RunRefused(c)
    PROVE  PayrollRows'
<1>1. PICK r \in DOMAIN runs, row \in P!Run, o \in Offer :
         /\ c \in DOMAIN payCalls /\ payCalls[c].op = "issue" /\ payCalls[c].run = r
         /\ runs' = P!Put(runs, r, row)
         /\ offers' = offers \/ offers' = Append(offers, o)
         /\ failures < MaxFailures /\ failures' = failures + 1
         /\ o = OfferFor("PayrollRunVC", r, payCalls[c].since, TRUE)
         /\ row.vc = runs[r].vc /\ row.totals = runs[r].totals /\ row.status = "completed"
         /\ P!Return(c)
         /\ UNCHANGED <<employees, payslips, filings, disbursed, started>>
  BY RunRefusedRow
<1>2. row.vc <= Len(offers')
  <2>1. offers \in Seq(Offer) /\ MoreOffers
    BY <1>1, PayrollRowTypes DEF MoreOffers
  <2>2. Len(offers) \in Nat /\ Len(offers') \in Nat /\ Len(offers) <= Len(offers')
    BY <2>1, OffersKept
  <2>3. row.vc <= Len(offers) /\ row.vc \in Nat
    BY <1>1 DEF PayrollRows, PayrollKeys, P!Run
  <2> QED BY <2>2, <2>3
<1>3. o.type \notin {"PayslipVC", "EmploymentContractVC"}
  BY <1>1 DEF OfferFor
<1> QED BY <1>1, <1>2, <1>3, ReturnRows

LEMMA FileCallFacts ==
    ASSUME PayrollRows, NEW c \in DOMAIN payCalls, payCalls[c].op = "file"
    PROVE  /\ payCalls[c].filing \in DOMAIN filings /\ payCalls[c].filing \in P!Ids
           /\ payCalls[c].since \in Nat
           /\ filings[payCalls[c].filing] \in P!Filing
           /\ filings[payCalls[c].filing].run \in DOMAIN runs
<1>1. PayrollCall(c) /\ payCalls[c] \in P!FileCall
  BY PayrollCallTypes DEF PayrollRows
<1> QED BY <1>1, PayrollRowTypes DEF PayrollCall, P!FileCall, P!IsTable, PayrollRows, PayrollKeys

LEMMA FilingRows ==
    ASSUME PayrollRows, NEW c, P!FilingOffered(c) \/ P!FilingRefused(c)
    PROVE  PayrollRows'
<1> DEFINE f == payCalls[c].filing
           row == [filings[f] EXCEPT !.vc = Len(offers) + 1]
           made == OfferFor("TaxComplianceVC", f, payCalls[c].since, FALSE)
           lost == OfferFor("TaxComplianceVC", f, payCalls[c].since, TRUE)
<1>1. /\ c \in DOMAIN payCalls /\ payCalls[c].op = "file" /\ P!Return(c)
      /\ UNCHANGED <<employees, runs, payslips, disbursed, started>>
      /\ UNCHANGED failures \/ (failures < MaxFailures /\ failures' = failures + 1)
      /\ offers' = offers \/ offers' = Append(offers, made) \/ offers' = Append(offers, lost)
      /\ filings' = filings \/ filings' = P!Put(filings, f, row)
  BY DEF P!FilingOffered, P!FilingRefused, P!Filed, P!Offered, P!Refused, P!Failure,
         P!NewOffer, P!OfferId, OfferFor
<1>2. /\ f \in DOMAIN filings /\ f \in P!Ids /\ payCalls[c].since \in Nat
      /\ filings[f] \in P!Filing /\ filings[f].run \in DOMAIN runs
  BY <1>1, FileCallFacts
<1>3. /\ made \in Offer /\ made.type \notin {"PayslipVC", "EmploymentContractVC"}
      /\ lost \in Offer /\ lost.type \notin {"PayslipVC", "EmploymentContractVC"}
  BY <1>2 DEF Offer, OfferTypes, OfferFor, P!Ids
<1>4. row \in P!Filing /\ row.run \in DOMAIN runs
  <2>1. Len(offers) + 1 \in Nat
    BY PayrollRowTypes
  <2> HIDE DEF f
  <2> QED BY <1>2, <2>1 DEF P!Filing
<1> HIDE DEF row, made, lost, f
<1>5. DOMAIN filings' = DOMAIN filings
  BY <1>1, <1>2 DEF P!Put
<1>6. \/ filings' = filings
      \/ /\ P!IsTable(filings', P!Ids, P!Filing) /\ Upto(filings', started')
         /\ \A k \in DOMAIN filings' : filings'[k].run \in DOMAIN runs'
  <2> SUFFICES ASSUME filings' = P!Put(filings, f, row)
               PROVE  /\ P!IsTable(filings', P!Ids, P!Filing) /\ Upto(filings', started')
                      /\ \A k \in DOMAIN filings' : filings'[k].run \in DOMAIN runs'
    BY <1>1
  <2>1. P!IsTable(filings, P!Ids, P!Filing) /\ Upto(filings, started) /\ started \in Nat
    BY PayrollRowTypes
  <2>2. P!IsTable(filings', P!Ids, P!Filing)
    BY <1>2, <1>4, <2>1, PayrollTables
  <2>3. Upto(filings', started')
    BY <1>1, <1>5, <2>1, UptoKept
  <2>4. \A k \in DOMAIN filings' : filings'[k].run \in DOMAIN runs'
    BY <1>1, <1>4, <1>5 DEF P!Put, PayrollRows, PayrollKeys
  <2> QED BY <2>2, <2>3, <2>4
<1>7. PayrollFrame /\ disbursed' \subseteq DOMAIN payslips'
  BY <1>1, <1>3, <1>5, PayrollRowTypes DEF PayrollFrame, MoreOffers
<1>8. /\ started' \in 0..MaxCalls /\ started' \in {started, started + 1}
      /\ failures' \in 0..MaxFailures
  BY <1>1, AnswerCounts
<1>9. CallsThen({})
  BY <1>1, CallReturned, PayrollRowTypes
<1>10. \/ offers' = offers
       \/ \E o \in Offer : /\ offers' = Append(offers, o)
                           /\ o.type = "PayslipVC" => o.of \in DOMAIN payslips'
                           /\ o.type = "EmploymentContractVC" => o.of \in DOMAIN employees'
  BY <1>1, <1>3
<1> QED BY <1>1, <1>6, <1>7, <1>8, <1>9, <1>10, PayrollRowsKept

\* What the other components do, as payroll sees it; the calls die when all do.
OthersStep ==
    /\ UNCHANGED <<runs, payslips, filings, disbursed>>
    /\ UNCHANGED payCalls \/ payCalls' = P!EmptyTable
    /\ started' \in {started, started + 1} /\ started' \in 0..MaxCalls
    /\ failures' \in 0..MaxFailures
    /\ P!IsTable(employees', P!Ids, P!Employee) /\ Upto(employees', started')
    /\ DOMAIN employees \subseteq DOMAIN employees'
    /\ \/ offers' = offers
       \/ \E o \in Offer : /\ offers' = Append(offers, o)
                           /\ o.type # "PayslipVC"
                           /\ o.type = "EmploymentContractVC" => o.of \in DOMAIN employees'

LEMMA OthersRows ==
    ASSUME PayrollRows, OthersStep
    PROVE  PayrollRows'
<1>1. PayrollFrame /\ disbursed' \subseteq DOMAIN payslips'
  BY PayrollRowTypes DEF PayrollFrame, MoreOffers, OthersStep
<1>2. CallsThen({})
  <2>1. CASE UNCHANGED payCalls
    BY <2>1, CallsWait, PayrollRowTypes DEF OthersStep
  <2>2. CASE payCalls' = P!EmptyTable
    BY <2>2 DEF CallsThen, P!IsTable, P!EmptyTable
  <2> QED BY <2>1, <2>2 DEF OthersStep
<1> QED BY <1>1, <1>2, PayrollRowsKept DEF OthersStep

\* Types and keys of payroll survive every step.
LEMMA PayrollRowsNext ==
    ASSUME PayrollRows, P!Requests \/ P!Answers \/ OthersStep
    PROVE  PayrollRows'
<1>1. CASE P!Requests
  BY <1>1, SaveEmployeeRows, CalculateRows, IssuePayslipsRows, ProcessRunPayoutRows,
     IssueTaxRows, UpdateTaxRows DEF P!Requests
<1>2. CASE P!Answers
  BY <1>2, SlipOfferedRows, SlipRefusedRows, DisburseRows, RunOfferedRows, RunRefusedRows,
     FilingRows, PayoutEndsRows DEF P!Answers, P!Answer
<1> QED BY <1>1, <1>2, OthersRows

-----------------------------------------------------------------------------
(* Payroll: the offers of payslips                                           *)

\* Offers of one payslip, in their order.
Reoffers(seq) ==
    \A i, j \in DOMAIN seq :
        i < j /\ seq[i].type = "PayslipVC" /\ seq[j].type = "PayslipVC" /\ seq[i].of = seq[j].of
        => seq[i].lost \/ seq[j].since < i

\* That is what the property says.
LEMMA SameOffer ==
    ASSUME NEW a \in Offer, NEW b \in Offer
    PROVE  b = [a EXCEPT !.since = b.since, !.lost = b.lost] <=> a.type = b.type /\ a.of = b.of
BY DEF Offer

LEMMA ReofferMeaning ==
    /\ offers \in Seq(Offer) => (ReofferExplained <=> Reoffers(offers))
    /\ offers' \in Seq(Offer) => (ReofferExplained' <=> Reoffers(offers'))
<1>1. ASSUME NEW seq \in Seq(Offer)
      PROVE  (\A i, j \in DOMAIN seq :
                 i < j /\ seq[i].type = "PayslipVC" /\ seq[j] = [seq[i] EXCEPT
                     !.since = seq[j].since, !.lost = seq[j].lost]
                 => seq[i].lost \/ seq[j].since < i)
             <=> Reoffers(seq)
  <2> DEFINE Same(i, j) == seq[j] = [seq[i] EXCEPT !.since = seq[j].since, !.lost = seq[j].lost]
  <2>1. \A i \in DOMAIN seq : seq[i] \in Offer
    OBVIOUS
  <2>2. \A i, j \in DOMAIN seq :
           Same(i, j) <=> seq[i].type = seq[j].type /\ seq[i].of = seq[j].of
    BY <2>1, SameOffer
  <2> HIDE DEF Same
  <2>3. (\A i, j \in DOMAIN seq : i < j /\ seq[i].type = "PayslipVC" /\ Same(i, j)
                                  => seq[i].lost \/ seq[j].since < i)
        <=> Reoffers(seq)
    BY <2>2 DEF Reoffers
  <2> QED BY <2>3 DEF Same
<1>2. offers \in Seq(Offer) => (ReofferExplained <=> Reoffers(offers))
  BY <1>1 DEF ReofferExplained
<1>3. offers' \in Seq(Offer) => (ReofferExplained' <=> Reoffers(offers'))
  BY <1>1 DEF ReofferExplained
<1> QED BY <1>2, <1>3

SlipInv == SlipsPending /\ (\A c \in DOMAIN payCalls : IssueSees(c)) /\ ReofferExplained

\* A step that makes no offer of a payslip.
NoSlipOffer ==
    offers' = offers \/ \E o \in Offer : offers' = Append(offers, o) /\ o.type # "PayslipVC"

LEMMA SlipOffersKept ==
    ASSUME offers \in Seq(Offer), NoSlipOffer
    PROVE  /\ \A s : \A i \in DOMAIN offers' : OfferOf(s, i)' => i \in DOMAIN offers /\ OfferOf(s, i)
           /\ \A s : \A i \in DOMAIN offers : OfferOf(s, i) => i \in DOMAIN offers' /\ OfferOf(s, i)'
           /\ Reoffers(offers) => Reoffers(offers')
<1>1. CASE offers' = offers
  BY <1>1 DEF OfferOf
<1>2. CASE \E o \in Offer : offers' = Append(offers, o) /\ o.type # "PayslipVC"
  <2>1. PICK o \in Offer : offers' = Append(offers, o) /\ o.type # "PayslipVC"
    BY <1>2
  <2>2. /\ Len(offers) \in Nat
        /\ DOMAIN offers = 1..Len(offers) /\ DOMAIN offers' = 1..(Len(offers) + 1)
        /\ \A i \in DOMAIN offers : offers'[i] = offers[i]
        /\ offers'[Len(offers) + 1] = o
    BY <2>1, OfferAdded
  <2>3. /\ DOMAIN offers \subseteq DOMAIN offers'
        /\ \A i \in DOMAIN offers' : i \in DOMAIN offers \/ offers'[i].type # "PayslipVC"
    BY <2>1, <2>2
  <2>4. \A s : \A i \in DOMAIN offers' : OfferOf(s, i)' => i \in DOMAIN offers /\ OfferOf(s, i)
    BY <2>2, <2>3 DEF OfferOf
  <2>5. \A s : \A i \in DOMAIN offers : OfferOf(s, i) => i \in DOMAIN offers' /\ OfferOf(s, i)'
    BY <2>2, <2>3 DEF OfferOf
  <2>6. Reoffers(offers) => Reoffers(offers')
    BY <2>2, <2>3 DEF Reoffers
  <2> QED BY <2>4, <2>5, <2>6
<1> QED BY <1>1, <1>2 DEF NoSlipOffer

\* Payslips that are added are pending, and others stay.
SlipsStay ==
    /\ DOMAIN payslips \subseteq DOMAIN payslips'
    /\ \A s \in DOMAIN payslips' :
          \/ s \in DOMAIN payslips /\ payslips'[s] = payslips[s]
          \/ s \notin DOMAIN payslips /\ s[1] \notin DOMAIN runs /\ payslips'[s].status = "pending"

LEMMA SlipInvKept ==
    ASSUME PayrollRows, SlipInv, NoSlipOffer, SlipsStay,
           \A c \in DOMAIN payCalls' :
              \/ c \in DOMAIN payCalls /\ payCalls'[c] = payCalls[c]
              \/ IssueSees(c)'
    PROVE  SlipInv'
<1>1. /\ offers \in Seq(Offer)
      /\ \A i \in DOMAIN offers : offers[i].type = "PayslipVC" => offers[i].of \in DOMAIN payslips
  BY DEF PayrollRows, OffersNameRows
<1>2. /\ \A s : \A i \in DOMAIN offers' : OfferOf(s, i)' => i \in DOMAIN offers /\ OfferOf(s, i)
      /\ \A s : \A i \in DOMAIN offers : OfferOf(s, i) => i \in DOMAIN offers' /\ OfferOf(s, i)'
      /\ Reoffers(offers) => Reoffers(offers')
  BY <1>1, SlipOffersKept
<1>3. SlipsPending'
  <2>1. ASSUME NEW s \in DOMAIN payslips', payslips'[s].status = "pending",
               NEW i \in DOMAIN offers', OfferOf(s, i)'
        PROVE  FALSE
    <3>1. i \in DOMAIN offers /\ OfferOf(s, i) /\ s \in DOMAIN payslips
      BY <1>1, <1>2, <2>1 DEF OfferOf
    <3> QED BY <2>1, <3>1 DEF SlipsStay, SlipInv, SlipsPending
  <2>2. ASSUME NEW s \in DOMAIN payslips', payslips'[s].status = "issued"
        PROVE  \E i \in DOMAIN offers' : OfferOf(s, i)'
    BY <1>2, <2>2 DEF SlipsStay, SlipInv, SlipsPending
  <2> QED BY <2>1, <2>2 DEF SlipsPending
<1>4. ASSUME NEW c \in DOMAIN payCalls'
      PROVE  IssueSees(c)'
  <2> SUFFICES ASSUME c \in DOMAIN payCalls, payCalls'[c] = payCalls[c]
               PROVE  IssueSees(c)'
    OBVIOUS
  <2> DEFINE call == payCalls[c]
  <2> SUFFICES ASSUME call.op = "issue"
               PROVE  /\ \A s \in call.todo : \A i \in DOMAIN offers' :
                            OfferOf(s, i)' => call.since < i
                      /\ \A s \in DOMAIN payslips' : s[1] = call.run =>
                            s \in call.seen
                            \/ \E i \in DOMAIN offers' : OfferOf(s, i)' /\ i <= call.since
    BY DEF IssueSees
  <2>1. IssueSees(c) /\ call.run \in DOMAIN runs
    BY IssueCallFacts DEF SlipInv
  <2>2. ASSUME NEW s \in call.todo, NEW i \in DOMAIN offers', OfferOf(s, i)'
        PROVE  call.since < i
    BY <1>2, <2>1, <2>2 DEF IssueSees
  <2>3. ASSUME NEW s \in DOMAIN payslips', s[1] = call.run
        PROVE  s \in call.seen \/ \E i \in DOMAIN offers' : OfferOf(s, i)' /\ i <= call.since
    <3>1. s \in DOMAIN payslips
      BY <2>1, <2>3 DEF SlipsStay
    <3> HIDE DEF call
    <3>2. s \in call.seen \/ \E i \in DOMAIN offers : OfferOf(s, i) /\ i <= call.since
      BY <2>1, <2>3, <3>1 DEF IssueSees, call
    <3> QED BY <1>2, <3>2
  <2> QED BY <2>2, <2>3
<1>5. ReofferExplained'
  <2>1. offers' \in Seq(Offer) /\ MoreOffers
    BY <1>1, OffersKept DEF NoSlipOffer, MoreOffers
  <2> QED BY <1>1, <1>2, <2>1, ReofferMeaning DEF SlipInv
<1> QED BY <1>3, <1>4, <1>5 DEF SlipInv

\* An offer of a payslip that a call comes to, which the row gets or which is lost.
LEMMA SlipOfferKept ==
    ASSUME PayrollRows, SlipInv, NEW c \in DOMAIN payCalls,
           payCalls[c].op = "issue", NEW s \in payCalls[c].todo,
           payCalls'[c] = [payCalls[c] EXCEPT !.todo = payCalls[c].todo \ {s}],
           DOMAIN payCalls' = DOMAIN payCalls,
           \A k \in DOMAIN payCalls : k # c => payCalls'[k] = payCalls[k],
           NEW lost \in BOOLEAN,
           offers' = Append(offers, OfferFor("PayslipVC", s, payCalls[c].since, lost)),
           DOMAIN payslips' = DOMAIN payslips,
           payslips'[s].status = IF lost THEN payslips[s].status ELSE "issued",
           \A k \in DOMAIN payslips : k # s => payslips'[k] = payslips[k]
    PROVE  SlipInv'
<1> DEFINE o == OfferFor("PayslipVC", s, payCalls[c].since, lost)
           n == Len(offers) + 1
<1>1. /\ payCalls[c].since \in Nat /\ payCalls[c].since <= Len(offers)
      /\ payCalls[c].todo \subseteq payCalls[c].seen
      /\ s \in DOMAIN payslips /\ s \in Nat \X Nat /\ s[1] = payCalls[c].run
      /\ payslips[s] \in P!Payslip
  BY IssueCallFacts
<1>2. /\ o \in Offer /\ o.type = "PayslipVC" /\ o.of = s /\ o.lost = lost
      /\ o.since = payCalls[c].since
  BY <1>1 DEF Offer, OfferTypes, OfferFor
<1>3. offers \in Seq(Offer) /\ offers' = Append(offers, o)
  BY DEF PayrollRows, OffersNameRows
<1> HIDE DEF o
<1>4. /\ offers' \in Seq(Offer) /\ Len(offers) \in Nat
      /\ DOMAIN offers = 1..Len(offers) /\ DOMAIN offers' = 1..(Len(offers) + 1)
      /\ \A i \in DOMAIN offers : offers'[i] = offers[i]
      /\ offers'[n] = o
  BY <1>2, <1>3, OfferAdded
<1>5. /\ DOMAIN offers \subseteq DOMAIN offers' /\ n \in DOMAIN offers' /\ n \notin DOMAIN offers
      /\ \A i \in DOMAIN offers' : i \in DOMAIN offers \/ i = n
      /\ \A i \in DOMAIN offers : i < n /\ ~(n < i)
  BY <1>4
<1> HIDE DEF n
<1>6. /\ \A k : \A i \in DOMAIN offers : OfferOf(k, i)' <=> OfferOf(k, i)
      /\ \A k : \A i \in DOMAIN offers' :
            i \notin DOMAIN offers => (OfferOf(k, i)' <=> k = s /\ ~lost)
  BY <1>2, <1>4, <1>5 DEF OfferOf
<1>7. SlipsPending /\ \A k \in DOMAIN payCalls : IssueSees(k)
  BY DEF SlipInv
<1>8. SlipsPending'
  <2>1. ASSUME NEW k \in DOMAIN payslips', payslips'[k].status = "pending",
               NEW i \in DOMAIN offers', OfferOf(k, i)'
        PROVE  FALSE
    <3>1. CASE k = s
      <4>1. lost /\ payslips[s].status = "pending"
        BY <2>1, <3>1
      <4>2. i \in DOMAIN offers /\ OfferOf(s, i)
        BY <1>5, <1>6, <2>1, <3>1, <4>1
      <4> QED BY <1>1, <1>7, <4>1, <4>2 DEF SlipsPending
    <3>2. CASE k # s
      <4>1. i \in DOMAIN offers /\ OfferOf(k, i)
        BY <1>5, <1>6, <2>1, <3>2
      <4> QED BY <1>7, <2>1, <3>2, <4>1 DEF SlipsPending
    <3> QED BY <3>1, <3>2
  <2>2. ASSUME NEW k \in DOMAIN payslips', payslips'[k].status = "issued"
        PROVE  \E i \in DOMAIN offers' : OfferOf(k, i)'
    <3>1. CASE k = s /\ ~lost
      BY <1>5, <1>6, <3>1
    <3>2. CASE k # s \/ lost
      <4>1. payslips[k].status = "issued"
        BY <2>2, <3>2
      <4> QED BY <1>5, <1>6, <1>7, <2>2, <4>1 DEF SlipsPending
    <3> QED BY <3>1, <3>2
  <2> QED BY <2>1, <2>2 DEF SlipsPending
<1>9. ASSUME NEW k \in DOMAIN payCalls'
      PROVE  IssueSees(k)'
  <2> DEFINE call == payCalls[k]
             next == payCalls'[k]
  <2> SUFFICES ASSUME next.op = "issue"
               PROVE  /\ \A x \in next.todo : \A i \in DOMAIN offers' :
                            OfferOf(x, i)' => next.since < i
                      /\ \A x \in DOMAIN payslips' : x[1] = next.run =>
                            x \in next.seen
                            \/ \E i \in DOMAIN offers' : OfferOf(x, i)' /\ i <= next.since
    BY DEF IssueSees
  <2>1. /\ call.op = "issue" /\ next.seen = call.seen /\ next.run = call.run
        /\ next.since = call.since /\ next.todo \subseteq call.todo
    <3>1. CASE k = c
      <4>1. payCalls[c] \in P!IssueCall
        BY PayrollCallTypes DEF PayrollRows
      <4> QED BY <3>1, <4>1 DEF P!IssueCall
    <3>2. CASE k # c
      BY <3>2
    <3> QED BY <3>1, <3>2
  <2>2. /\ IssueSees(k) /\ call.since \in Nat /\ call.since <= Len(offers)
    BY <1>7, <2>1, IssueCallFacts
  <2>3. call.since < n
    BY <1>4, <2>2 DEF n
  <2> HIDE DEF next
  <2>4. ASSUME NEW x \in next.todo, NEW i \in DOMAIN offers', OfferOf(x, i)'
        PROVE  next.since < i
    <3>1. CASE i = n
      BY <2>1, <2>3, <3>1
    <3>2. CASE i \in DOMAIN offers
      BY <1>6, <2>1, <2>2, <2>4, <3>2 DEF IssueSees
    <3> QED BY <1>5, <3>1, <3>2
  <2>5. ASSUME NEW x \in DOMAIN payslips', x[1] = next.run
        PROVE  x \in next.seen \/ \E i \in DOMAIN offers' : OfferOf(x, i)' /\ i <= next.since
    BY <1>5, <1>6, <2>1, <2>2, <2>5 DEF IssueSees
  <2> QED BY <2>4, <2>5
<1>10. ReofferExplained'
  <2>1. Reoffers(offers)
    BY <1>3, ReofferMeaning DEF SlipInv
  <2>2. ASSUME NEW i \in DOMAIN offers, offers[i].type = "PayslipVC", offers[i].of = s
        PROVE  offers[i].lost \/ payCalls[c].since < i
    BY <1>7, <2>2 DEF IssueSees, OfferOf
  <2>3. Reoffers(offers')
    BY <1>2, <1>4, <1>5, <2>1, <2>2 DEF Reoffers
  <2> QED BY <1>4, <2>3, ReofferMeaning
<1> QED BY <1>8, <1>9, <1>10 DEF SlipInv

LEMMA SlipOfferedSlips ==
    ASSUME PayrollRows, SlipInv, NEW c, NEW s, P!SlipOffered(c, s)
    PROVE  SlipInv'
<1> DEFINE row == [payslips[s] EXCEPT !.status = "issued", !.vc = Len(offers) + 1]
<1>1. /\ c \in DOMAIN payCalls /\ payCalls[c].op = "issue" /\ s \in payCalls[c].todo
      /\ offers' = Append(offers, OfferFor("PayslipVC", s, payCalls[c].since, FALSE))
      /\ payslips' = P!Put(payslips, s, row)
      /\ P!Continue(c, s) /\ UNCHANGED started
  BY DEF P!SlipOffered, P!Issuing, P!Offered, P!NewOffer, P!OfferId, OfferFor
<1>2. /\ s \in DOMAIN payslips /\ payslips[s] \in P!Payslip
  BY <1>1, IssueCallFacts
<1>3. row.status = "issued"
  BY <1>2 DEF P!Payslip
<1> HIDE DEF row
<1>4. /\ DOMAIN payslips' = DOMAIN payslips /\ payslips'[s].status = "issued"
      /\ \A k \in DOMAIN payslips : k # s => payslips'[k] = payslips[k]
  BY <1>1, <1>2, <1>3 DEF P!Put
<1>5. /\ CallsThen({c})
      /\ payCalls'[c] = [payCalls[c] EXCEPT !.todo = payCalls[c].todo \ {s}]
      /\ DOMAIN payCalls' = DOMAIN payCalls
  BY <1>1, CallContinued, PayrollRowTypes
<1>6. \A k \in DOMAIN payCalls : k # c => payCalls'[k] = payCalls[k]
  BY <1>5 DEF CallsThen
<1> QED BY <1>1, <1>4, <1>5, <1>6, SlipOfferKept

LEMMA SlipRefusedSlips ==
    ASSUME PayrollRows, SlipInv, NEW c, NEW s, P!SlipRefused(c, s)
    PROVE  SlipInv'
<1>1. /\ c \in DOMAIN payCalls /\ payCalls[c].op = "issue" /\ s \in payCalls[c].todo
      /\ \/ offers' = offers
         \/ offers' = Append(offers, OfferFor("PayslipVC", s, payCalls[c].since, TRUE))
      /\ P!Continue(c, s) /\ UNCHANGED <<payslips, started>>
  BY DEF P!SlipRefused, P!Issuing, P!Refused, P!NewOffer, OfferFor
<1>2. /\ CallsThen({c})
      /\ payCalls'[c] = [payCalls[c] EXCEPT !.todo = payCalls[c].todo \ {s}]
      /\ DOMAIN payCalls' = DOMAIN payCalls
  BY <1>1, CallContinued, PayrollRowTypes
<1>3. \A k \in DOMAIN payCalls : k # c => payCalls'[k] = payCalls[k]
  BY <1>2 DEF CallsThen
<1>4. CASE offers' = Append(offers, OfferFor("PayslipVC", s, payCalls[c].since, TRUE))
  BY <1>1, <1>2, <1>3, <1>4, SlipOfferKept
<1>5. CASE offers' = offers
  <2>1. NoSlipOffer /\ SlipsStay
    BY <1>1, <1>5 DEF NoSlipOffer, SlipsStay
  <2>2. IssueSees(c)'
    <3>1. payCalls[c] \in P!IssueCall /\ IssueSees(c)
      BY <1>1, PayrollCallTypes DEF SlipInv, PayrollRows
    <3>2. /\ payCalls'[c].seen = payCalls[c].seen /\ payCalls'[c].run = payCalls[c].run
          /\ payCalls'[c].since = payCalls[c].since
          /\ payCalls'[c].todo \subseteq payCalls[c].todo
      BY <1>2, <3>1 DEF P!IssueCall
    <3> QED BY <1>1, <1>5, <3>1, <3>2 DEF IssueSees, OfferOf
  <2>3. \A k \in DOMAIN payCalls' : \/ k \in DOMAIN payCalls /\ payCalls'[k] = payCalls[k]
                                    \/ IssueSees(k)'
    BY <1>2, <1>3, <2>2
  <2> QED BY <2>1, <2>3, SlipInvKept
<1> QED BY <1>1, <1>4, <1>5

\* A call that begins or goes on, and is no issuance, sees what it should.
LEMMA OtherCallSees ==
    ASSUME NEW c, payCalls'[c].op # "issue"
    PROVE  IssueSees(c)'
BY DEF IssueSees

LEMMA IssuePayslipsSlips ==
    ASSUME PayrollRows, SlipInv, NEW r, P!IssuePayslips(r)
    PROVE  SlipInv'
<1> DEFINE call == [op |-> "issue", run |-> r, seen |-> P!Pending(r), todo |-> P!Pending(r),
                    since |-> Len(offers)]
<1>1. /\ P!Request /\ P!Begin(call) /\ UNCHANGED <<payslips, offers>> /\ r \in DOMAIN runs
  BY DEF P!IssuePayslips
<1>2. \A s : s \in P!Pending(r) <=>
                s \in DOMAIN payslips /\ s[1] = r /\ payslips[s].status = "pending"
  BY DEF P!Pending, P!SlipsOf
<1>3. call \in PayrollCallSet
  <2>1. P!Pending(r) \in SUBSET (P!Ids \X P!Ids) /\ Len(offers) \in Nat /\ r \in P!Ids
    BY <1>1, <1>2, PayrollRowTypes DEF P!IsTable
  <2> HIDE DEF P!Pending
  <2> QED BY <2>1 DEF PayrollCallSet, P!IssueCall
<1>4. /\ CallsThen({started + 1})
      /\ payCalls'[started + 1] = call
  BY <1>1, <1>3, CallBegun, PayrollRowTypes
<1>5. ASSUME NEW c, c = started + 1
      PROVE  IssueSees(c)'
  <2>1. payCalls'[c] = call
    BY <1>4, <1>5
  <2>2. /\ call.run = r /\ call.since = Len(offers) /\ call.todo = P!Pending(r)
        /\ call.seen = P!Pending(r)
    OBVIOUS
  <2>3. ASSUME NEW s \in P!Pending(r), NEW i \in DOMAIN offers
        PROVE  ~OfferOf(s, i)
    BY <1>2, <2>3 DEF SlipInv, SlipsPending
  <2>4. ASSUME NEW s \in DOMAIN payslips, s[1] = r, s \notin P!Pending(r)
        PROVE  \E i \in DOMAIN offers : OfferOf(s, i) /\ i <= Len(offers)
    <3>1. payslips[s].status = "issued"
      BY <1>2, <2>4, PayrollRowTypes DEF P!IsTable, P!Payslip
    <3>2. PICK i \in DOMAIN offers : OfferOf(s, i)
      BY <2>4, <3>1 DEF SlipInv, SlipsPending
    <3>3. i <= Len(offers)
      BY PayrollRowTypes
    <3> QED BY <3>2, <3>3
  <2> HIDE DEF call
  <2>5. \A s, i : OfferOf(s, i)' <=> OfferOf(s, i)
    BY <1>1 DEF OfferOf
  <2> QED BY <1>1, <2>1, <2>2, <2>3, <2>4, <2>5 DEF IssueSees
<1>6. NoSlipOffer /\ SlipsStay
  BY <1>1 DEF NoSlipOffer, SlipsStay
<1>7. \A c \in DOMAIN payCalls' : \/ c \in DOMAIN payCalls /\ payCalls'[c] = payCalls[c]
                                  \/ IssueSees(c)'
  BY <1>4, <1>5 DEF CallsThen
<1> QED BY <1>6, <1>7, SlipInvKept

LEMMA BeginSlips ==
    ASSUME PayrollRows, SlipInv, P!Request, NEW call, call.op # "issue", P!Begin(call),
           UNCHANGED <<payslips, offers>>
    PROVE  SlipInv'
<1>1. payCalls' = P!Put(payCalls, started + 1, call)
  BY DEF P!Begin
<1>2. \A c \in DOMAIN payCalls' : \/ c \in DOMAIN payCalls /\ payCalls'[c] = payCalls[c]
                                  \/ payCalls'[c].op # "issue"
  BY <1>1 DEF P!Put
<1>3. NoSlipOffer /\ SlipsStay
  BY DEF NoSlipOffer, SlipsStay
<1> QED BY <1>2, <1>3, OtherCallSees, SlipInvKept

\* The requests that begin another call, or none.
LEMMA RequestSlips ==
    ASSUME PayrollRows, SlipInv, P!Requests, ~\E r \in DOMAIN runs : P!IssuePayslips(r)
    PROVE  SlipInv'
<1>1. CASE \E salary \in Salaries : P!SaveEmployee(salary)
  BY <1>1, SlipInvKept DEF P!SaveEmployee, NoSlipOffer, SlipsStay
<1>2. CASE P!CalculatePayrollRun
  <2>1. UNCHANGED <<payCalls, offers>>
    BY <1>2, CalculateAdds
  <2>2. PICK r \in P!Ids, paid \in SUBSET DOMAIN employees, row \in P!Run :
           /\ r \notin DOMAIN runs /\ runs' = P!Put(runs, r, row)
           /\ \A new : DOMAIN new = DOMAIN runs \cup {r} => Upto(new, started')
           /\ row.vc = 0 /\ row.totals = P!Nothing /\ row.status = "draft"
           /\ payslips' = [s \in DOMAIN payslips \cup ({r} \X paid) |->
                              IF s \in {r} \X paid
                              THEN [gross |-> employees[s[2]].salary, status |-> "pending",
                                    vc |-> 0]
                              ELSE payslips[s]]
    BY <1>2, CalculateAdds
  <2>3. \A s \in DOMAIN payslips : s[1] \in DOMAIN runs
    BY DEF PayrollRows, PayrollKeys
  <2>4. SlipsStay
    BY <2>2, <2>3 DEF SlipsStay
  <2> QED BY <2>1, <2>4, SlipInvKept DEF NoSlipOffer
<1>3. ASSUME NEW r \in DOMAIN runs, P!ProcessRunPayout(r)
      PROVE  SlipInv'
  <2> DEFINE call == [op |-> "payout", run |-> r, todo |-> P!SlipsOf(r)]
  <2>1. /\ P!Begin(call) /\ P!Request /\ UNCHANGED <<payslips, offers>>
    BY <1>3 DEF P!ProcessRunPayout
  <2>2. call.op # "issue"
    OBVIOUS
  <2> HIDE DEF call
  <2> QED BY <2>1, <2>2, BeginSlips
<1>4. ASSUME NEW r \in DOMAIN runs, NEW type, P!IssueTaxComplianceVC(r, type)
      PROVE  SlipInv'
  <2> DEFINE call == [op |-> "file", filing |-> P!Fresh(filings), since |-> Len(offers)]
  <2>1. /\ P!Begin(call) /\ P!Request /\ UNCHANGED <<payslips, offers>>
    BY <1>4 DEF P!IssueTaxComplianceVC
  <2>2. call.op # "issue"
    OBVIOUS
  <2> HIDE DEF call
  <2> QED BY <2>1, <2>2, BeginSlips
<1>5. ASSUME NEW f, NEW status, P!UpdateTaxComplianceStatus(f, status)
      PROVE  SlipInv'
  BY <1>5, SlipInvKept DEF P!UpdateTaxComplianceStatus, NoSlipOffer, SlipsStay
<1> QED BY <1>1, <1>2, <1>3, <1>4, <1>5 DEF P!Requests

\* The offers of answers that end a call.
LEMMA ReturnOffers ==
    ASSUME PayrollRows, NEW c,
           \/ P!RunOffered(c) \/ P!RunRefused(c) \/ P!PayoutEnds(c)
           \/ P!FilingOffered(c) \/ P!FilingRefused(c)
    PROVE  NoSlipOffer
<1>1. CASE P!RunOffered(c)
  <2>1. PICK r \in DOMAIN runs, row \in P!Run, o \in Offer :
           offers' = Append(offers, o) /\ o = OfferFor("PayrollRunVC", r, payCalls[c].since, FALSE)
    BY <1>1, RunOfferedRow
  <2> QED BY <2>1 DEF NoSlipOffer, OfferFor
<1>2. CASE P!RunRefused(c)
  <2>1. PICK r \in DOMAIN runs, row \in P!Run, o \in Offer :
           /\ offers' = offers \/ offers' = Append(offers, o)
           /\ o = OfferFor("PayrollRunVC", r, payCalls[c].since, TRUE)
    BY <1>2, RunRefusedRow
  <2> QED BY <2>1 DEF NoSlipOffer, OfferFor
<1>3. CASE P!PayoutEnds(c)
  BY <1>3 DEF P!PayoutEnds, NoSlipOffer
<1>4. CASE P!FilingOffered(c) \/ P!FilingRefused(c)
  <2> DEFINE made == OfferFor("TaxComplianceVC", payCalls[c].filing, payCalls[c].since, FALSE)
             lost == OfferFor("TaxComplianceVC", payCalls[c].filing, payCalls[c].since, TRUE)
  <2>1. /\ c \in DOMAIN payCalls /\ payCalls[c].op = "file"
        /\ offers' = offers \/ offers' = Append(offers, made) \/ offers' = Append(offers, lost)
    BY <1>4 DEF P!FilingOffered, P!FilingRefused, P!Filed, P!Offered, P!Refused, P!NewOffer, OfferFor
  <2>2. payCalls[c].filing \in P!Ids /\ payCalls[c].since \in Nat
    BY <2>1, FileCallFacts
  <2>3. made \in Offer /\ lost \in Offer /\ made.type # "PayslipVC" /\ lost.type # "PayslipVC"
    BY <2>2 DEF Offer, OfferTypes, OfferFor, P!Ids
  <2> HIDE DEF made, lost
  <2> QED BY <2>1, <2>3 DEF NoSlipOffer
<1> QED BY <1>1, <1>2, <1>3, <1>4

\* The answers that make no offer of a payslip.
LEMMA AnswerSlips ==
    ASSUME PayrollRows, SlipInv, NEW c,
           \/ \E s : P!Disburse(c, s)
           \/ P!RunOffered(c) \/ P!RunRefused(c) \/ P!PayoutEnds(c)
           \/ P!FilingOffered(c) \/ P!FilingRefused(c)
    PROVE  SlipInv'
<1>1. CASE \E s : P!Disburse(c, s)
  <2>1. PICK s : P!Disburse(c, s)
    BY <1>1
  <2>2. /\ c \in DOMAIN payCalls /\ payCalls[c].op = "payout" /\ P!Continue(c, s)
        /\ UNCHANGED <<payslips, offers, started>>
    BY <2>1 DEF P!Disburse, P!Paying
  <2>3. /\ CallsThen({c})
        /\ payCalls'[c] = [payCalls[c] EXCEPT !.todo = payCalls[c].todo \ {s}]
        /\ DOMAIN payCalls' = DOMAIN payCalls
    BY <2>2, CallContinued, PayrollRowTypes
  <2>4. payCalls'[c].op # "issue"
    <3>1. payCalls[c] \in P!PayCall
      BY <2>2, PayCallFacts
    <3> QED BY <2>2, <2>3, <3>1 DEF P!PayCall
  <2> QED BY <2>2, <2>3, <2>4, OtherCallSees, SlipInvKept DEF CallsThen, NoSlipOffer, SlipsStay
<1>2. CASE \/ P!RunOffered(c) \/ P!RunRefused(c) \/ P!PayoutEnds(c)
           \/ P!FilingOffered(c) \/ P!FilingRefused(c)
  <2>1. c \in DOMAIN payCalls /\ UNCHANGED <<payslips, started>> /\ P!Return(c)
    BY <1>2 DEF P!RunOffered, P!RunRefused, P!PayoutEnds, P!FilingOffered, P!FilingRefused,
       P!Summing, P!Paying, P!Filed
  <2>2. CallsThen({})
    BY <2>1, CallReturned, PayrollRowTypes
  <2>3. NoSlipOffer
    BY <1>2, ReturnOffers
  <2> QED BY <2>1, <2>2, <2>3, SlipInvKept DEF CallsThen, SlipsStay
<1> QED BY <1>1, <1>2

LEMMA SlipInvNext ==
    ASSUME PayrollRows, SlipInv, P!Requests \/ P!Answers \/ OthersStep
    PROVE  SlipInv'
<1>1. CASE P!Requests
  BY <1>1, RequestSlips, IssuePayslipsSlips
<1>2. CASE P!Answers
  BY <1>2, SlipOfferedSlips, SlipRefusedSlips, AnswerSlips DEF P!Answers, P!Answer
<1>3. CASE OthersStep
  <2>1. NoSlipOffer /\ SlipsStay
    BY <1>3 DEF OthersStep, NoSlipOffer, SlipsStay
  <2>2. \A c \in DOMAIN payCalls' : c \in DOMAIN payCalls /\ payCalls'[c] = payCalls[c]
    BY <1>3 DEF OthersStep, P!EmptyTable
  <2> QED BY <2>1, <2>2, SlipInvKept
<1> QED BY <1>1, <1>2, <1>3

-----------------------------------------------------------------------------
(* Payroll: runs, filings and payouts match the payslips                     *)

\* What the property says of a run, and of a filing.
RunMatches(r) ==
    /\ runs[r].vc # 0
       /\ (\A i \in DOMAIN offers : offers[i].type = "PayslipVC" /\ offers[i].of[1] = r
                                    => offers[runs[r].vc].since < i)
       => runs[r].totals = Sums(payslips, Slips(payslips, r))
    /\ runs[r].status = "paid" => Slips(payslips, r) \subseteq disbursed
FilingMatches(f) ==
    filings[f].amount <= Sums(payslips, Slips(payslips, filings[f].run))[filings[f].type]

LEMMA MatchMeaning ==
    /\ RunsMatchPayslips <=> /\ \A r \in DOMAIN runs : RunMatches(r)
                             /\ \A f \in DOMAIN filings : FilingMatches(f)
    /\ RunsMatchPayslips' <=> /\ \A r \in DOMAIN runs' : RunMatches(r)'
                              /\ \A f \in DOMAIN filings' : FilingMatches(f)'
<1>1. RunsMatchPayslips <=> /\ \A r \in DOMAIN runs : RunMatches(r)
                            /\ \A f \in DOMAIN filings : FilingMatches(f)
  BY DEF RunsMatchPayslips, RunMatches, FilingMatches, OfferedIn, P!Totals, P!SlipsOf, Sums, Slips
<1>2. RunsMatchPayslips' <=> /\ \A r \in DOMAIN runs' : RunMatches(r)'
                             /\ \A f \in DOMAIN filings' : FilingMatches(f)'
  BY DEF RunsMatchPayslips, RunMatches, FilingMatches, OfferedIn, P!Totals, P!SlipsOf, Sums, Slips
<1> QED BY <1>1, <1>2

RunInv == TotalsBounded /\ RunsMatchPayslips

\* Payslips stay, with their salaries, and those added are of a run that is added.
GrossKept ==
    /\ DOMAIN payslips \subseteq DOMAIN payslips'
    /\ \A s \in DOMAIN payslips' :
          \/ s \in DOMAIN payslips /\ payslips'[s].gross = payslips[s].gross
          \/ s[1] \notin DOMAIN runs

LEMMA SumsKept ==
    ASSUME GrossKept, NEW r \in DOMAIN runs
    PROVE  /\ Slips(payslips', r) = Slips(payslips, r)
           /\ Sums(payslips', Slips(payslips', r)) = Sums(payslips, Slips(payslips, r))
<1>1. Slips(payslips', r) = Slips(payslips, r)
  BY DEF GrossKept, Slips
<1>2. \A s \in Slips(payslips, r) : payslips'[s].gross = payslips[s].gross
  BY DEF GrossKept, Slips
<1>3. Sums(payslips', Slips(payslips, r)) = Sums(payslips, Slips(payslips, r))
  <2> SUFFICES ASSUME NEW new, new = payslips', NEW old, old = payslips
               PROVE  Sums(new, Slips(old, r)) = Sums(old, Slips(old, r))
    OBVIOUS
  <2>1. \A s \in Slips(old, r) : new[s].gross = old[s].gross
    BY <1>2
  <2> QED BY <2>1, SumsAgree
<1> QED BY <1>1, <1>3

\* A run whose totals and offer stay, and that is paid if its salaries are.
LEMMA RunMatchKept ==
    ASSUME PayrollRows, GrossKept, disbursed \subseteq disbursed', MoreOffers,
           NEW r \in DOMAIN runs, RunMatches(r),
           runs'[r].vc = runs[r].vc, runs'[r].totals = runs[r].totals,
           \/ runs'[r].status # "paid" \/ runs[r].status = "paid"
           \/ Slips(payslips, r) \subseteq disbursed
    PROVE  RunMatches(r)'
<1> DEFINE slips == Slips(payslips, r)
           sums  == Sums(payslips, slips)
<1>1. Slips(payslips', r) = slips /\ Sums(payslips', Slips(payslips', r)) = sums
  BY SumsKept
<1>2. /\ offers \in Seq(Offer) /\ runs[r].vc \in Nat /\ runs[r].vc <= Len(offers)
  BY PayrollRowTypes DEF PayrollRows, PayrollKeys, P!IsTable, P!Run
<1>3. /\ DOMAIN offers = 1..Len(offers)
      /\ \A i \in DOMAIN offers : i \in DOMAIN offers' /\ offers'[i] = offers[i]
  BY <1>2, OffersKept
<1>4. /\ runs[r].vc # 0
         /\ (\A i \in DOMAIN offers : offers[i].type = "PayslipVC" /\ offers[i].of[1] = r
                                      => offers[runs[r].vc].since < i)
         => runs[r].totals = sums
      /\ runs[r].status = "paid" => slips \subseteq disbursed
  BY DEF RunMatches
<1> HIDE DEF slips, sums
<1>5. runs'[r].status = "paid" => slips \subseteq disbursed'
  BY <1>4 DEF slips
<1>6. ASSUME runs[r].vc # 0,
             \A i \in DOMAIN offers' : offers'[i].type = "PayslipVC" /\ offers'[i].of[1] = r
                                       => offers'[runs[r].vc].since < i
      PROVE  runs[r].totals = sums
  <2>1. runs[r].vc \in DOMAIN offers
    BY <1>2, <1>3, <1>6
  <2>2. \A i \in DOMAIN offers : offers[i].type = "PayslipVC" /\ offers[i].of[1] = r
                                 => offers[runs[r].vc].since < i
    BY <1>3, <1>6, <2>1
  <2> QED BY <1>4, <1>6, <2>2
<1> QED BY <1>1, <1>5, <1>6 DEF RunMatches

LEMMA RunInvKept ==
    ASSUME PayrollRows, RunInv, GrossKept, disbursed \subseteq disbursed', MoreOffers,
           \A r \in DOMAIN runs' :
              \/ r \in DOMAIN runs /\ runs'[r] = runs[r]
              \/ /\ RunMatches(r)'
                 /\ \A t \in P!TaxTypes :
                       runs'[r].totals[t] <= Sums(payslips', Slips(payslips', r))[t],
           \A f \in DOMAIN filings' :
              \/ f \in DOMAIN filings /\ filings'[f].run = filings[f].run
                 /\ filings'[f].type = filings[f].type /\ filings'[f].amount = filings[f].amount
              \/ FilingMatches(f)'
    PROVE  RunInv'
<1>1. /\ \A r \in DOMAIN runs : RunMatches(r)
      /\ \A f \in DOMAIN filings : FilingMatches(f)
  BY MatchMeaning DEF RunInv
<1>2. ASSUME NEW r \in DOMAIN runs'
      PROVE  /\ RunMatches(r)'
             /\ \A t \in P!TaxTypes :
                   runs'[r].totals[t] <= Sums(payslips', Slips(payslips', r))[t]
  <2> SUFFICES ASSUME r \in DOMAIN runs, runs'[r] = runs[r]
               PROVE  /\ RunMatches(r)'
                      /\ \A t \in P!TaxTypes :
                            runs'[r].totals[t] <= Sums(payslips', Slips(payslips', r))[t]
    OBVIOUS
  <2>1. RunMatches(r)'
    BY <1>1, RunMatchKept
  <2>2. \A t \in P!TaxTypes : runs[r].totals[t] <= Sums(payslips, Slips(payslips, r))[t]
    BY DEF RunInv, TotalsBounded
  <2> QED BY <2>1, <2>2, SumsKept
<1>3. ASSUME NEW f \in DOMAIN filings'
      PROVE  FilingMatches(f)'
  <2> SUFFICES ASSUME f \in DOMAIN filings, filings'[f].run = filings[f].run,
                      filings'[f].type = filings[f].type, filings'[f].amount = filings[f].amount
               PROVE  FilingMatches(f)'
    OBVIOUS
  <2> SUFFICES ASSUME NEW r, r = filings[f].run
               PROVE  filings[f].amount <= Sums(payslips', Slips(payslips', r))[filings[f].type]
    BY DEF FilingMatches
  <2>1. r \in DOMAIN runs
    BY DEF PayrollRows, PayrollKeys
  <2>2. filings[f].amount <= Sums(payslips, Slips(payslips, r))[filings[f].type]
    BY <1>1 DEF FilingMatches
  <2> QED BY <2>1, <2>2, SumsKept
<1>4. TotalsBounded'
  BY <1>2 DEF TotalsBounded
<1>5. RunsMatchPayslips'
  BY <1>2, <1>3, MatchMeaning
<1> QED BY <1>4, <1>5 DEF RunInv

\* Steps that leave runs and filings as they are.
LEMMA RunsStay ==
    ASSUME PayrollRows, RunInv, GrossKept, MoreOffers, disbursed \subseteq disbursed',
           UNCHANGED <<runs, filings>>
    PROVE  RunInv'
BY RunInvKept

LEMMA PayslipsStay ==
    ASSUME UNCHANGED payslips
    PROVE  GrossKept
BY DEF GrossKept

LEMMA CalculateSums ==
    ASSUME PayrollRows, PayrollRows', RunInv, P!CalculatePayrollRun
    PROVE  RunInv'
<1>1. UNCHANGED <<filings, disbursed, offers>>
  BY CalculateAdds
<1>2. PICK r \in P!Ids, paid \in SUBSET DOMAIN employees, row \in P!Run :
         /\ r \notin DOMAIN runs /\ runs' = P!Put(runs, r, row)
         /\ \A new : DOMAIN new = DOMAIN runs \cup {r} => Upto(new, started')
         /\ row.vc = 0 /\ row.totals = P!Nothing /\ row.status = "draft"
         /\ payslips' = [s \in DOMAIN payslips \cup ({r} \X paid) |->
                            IF s \in {r} \X paid
                            THEN [gross |-> employees[s[2]].salary, status |-> "pending",
                                  vc |-> 0]
                            ELSE payslips[s]]
  BY CalculateAdds
<1>3. /\ DOMAIN runs' = DOMAIN runs \cup {r} /\ runs'[r] = row
      /\ \A k \in DOMAIN runs : runs'[k] = runs[k]
  BY <1>2 DEF P!Put
<1>4. \A s \in DOMAIN payslips : s[1] \in DOMAIN runs
  BY DEF PayrollRows, PayrollKeys
<1>5. GrossKept
  BY <1>2, <1>4 DEF GrossKept
<1>6. Sums(payslips', Slips(payslips', r)) \in [P!TaxTypes -> Nat]
  <2>1. Priced(payslips', Slips(payslips', r))
    <3>1. /\ IsFiniteSet(P!Ids \X P!Ids)
          /\ P!IsTable(payslips', P!Ids \X P!Ids, P!Payslip)
      BY FiniteTables DEF PayrollRows, P!TypeOK
    <3>2. Slips(payslips', r) \subseteq P!Ids \X P!Ids
      BY <3>1 DEF Slips, P!IsTable
    <3>3. \A s \in Slips(payslips', r) : payslips'[s].gross \in Nat
      BY <3>1 DEF Slips, P!IsTable, P!Payslip
    <3> QED BY <3>1, <3>2, <3>3, FS_Subset DEF Priced
  <2> QED BY <2>1, SumsType
<1>7. ASSUME NEW t \in P!TaxTypes
      PROVE  runs'[r].totals[t] <= Sums(payslips', Slips(payslips', r))[t]
  <2>1. runs'[r].totals[t] = 0
    BY <1>2, <1>3 DEF P!Nothing
  <2>2. Sums(payslips', Slips(payslips', r))[t] \in Nat
    BY <1>6
  <2> QED BY <2>1, <2>2
<1>8. RunMatches(r)'
  BY <1>2, <1>3 DEF RunMatches
<1>9. \A k \in DOMAIN runs' :
         \/ k \in DOMAIN runs /\ runs'[k] = runs[k]
         \/ /\ RunMatches(k)'
            /\ \A t \in P!TaxTypes : runs'[k].totals[t] <= Sums(payslips', Slips(payslips', k))[t]
  BY <1>3, <1>7, <1>8
<1>10. MoreOffers /\ disbursed \subseteq disbursed'
  BY <1>1 DEF MoreOffers
<1> QED BY <1>1, <1>5, <1>9, <1>10, RunInvKept

\* An answer that writes a row of runs.
LEMMA RunWritten ==
    ASSUME PayrollRows, RunInv, UNCHANGED <<payslips, filings, disbursed>>, MoreOffers,
           NEW r \in DOMAIN runs, NEW row, runs' = P!Put(runs, r, row),
           RunMatches(r)',
           \A t \in P!TaxTypes : row.totals[t] <= Sums(payslips, Slips(payslips, r))[t]
    PROVE  RunInv'
<1>1. /\ DOMAIN runs' = DOMAIN runs /\ runs'[r] = row
      /\ \A k \in DOMAIN runs : k # r => runs'[k] = runs[k]
  BY DEF P!Put
<1>2. GrossKept
  BY PayslipsStay
<1>3. \A k \in DOMAIN runs' :
         \/ k \in DOMAIN runs /\ runs'[k] = runs[k]
         \/ /\ RunMatches(k)'
            /\ \A t \in P!TaxTypes : runs'[k].totals[t] <= Sums(payslips', Slips(payslips', k))[t]
  BY <1>1
<1> QED BY <1>2, <1>3, RunInvKept

LEMMA RunOfferedSums ==
    ASSUME PayrollRows, RunInv, SlipInv, NEW c, P!RunOffered(c)
    PROVE  RunInv'
<1>1. PICK r \in DOMAIN runs, row \in P!Run, o \in Offer :
         /\ c \in DOMAIN payCalls /\ payCalls[c].op = "issue" /\ payCalls[c].run = r
         /\ runs' = P!Put(runs, r, row)
         /\ offers' = Append(offers, o) /\ UNCHANGED failures
         /\ o = OfferFor("PayrollRunVC", r, payCalls[c].since, FALSE)
         /\ row.vc = Len(offers) + 1 /\ row.status = "completed"
         /\ row.totals = Sums(payslips, payCalls[c].seen)
         /\ P!Return(c)
         /\ UNCHANGED <<employees, payslips, filings, disbursed, started>>
  BY RunOfferedRow
<1>2. PICK seen : seen = payCalls[c].seen
  OBVIOUS
<1>3. PICK since : since = payCalls[c].since
  OBVIOUS
<1>4. seen \subseteq Slips(payslips, r) /\ since \in Nat
  BY <1>1, <1>2, <1>3, IssueCallFacts DEF Slips
<1>5. Slips(payslips, r) \subseteq DOMAIN payslips
  BY DEF Slips
<1>6. \A t \in P!TaxTypes : row.totals[t] <= Sums(payslips, Slips(payslips, r))[t]
  BY <1>1, <1>2, <1>4, <1>5, FiniteTables, SumsGrow
<1>7. /\ offers \in Seq(Offer) /\ Len(offers) \in Nat
      /\ DOMAIN offers = 1..Len(offers) /\ DOMAIN offers' = 1..(Len(offers) + 1)
      /\ \A i \in DOMAIN offers : offers'[i] = offers[i]
      /\ offers'[Len(offers) + 1] = o
  BY <1>1, OfferAdded, PayrollRowTypes
<1>8. o.since = since
  BY <1>1, <1>3 DEF OfferFor
<1>9. ASSUME \A i \in DOMAIN offers' : offers'[i].type = "PayslipVC" /\ offers'[i].of[1] = r
                                       => since < i
      PROVE  seen = Slips(payslips, r)
  <2> SUFFICES ASSUME NEW s \in Slips(payslips, r), s \notin seen
               PROVE  FALSE
    BY <1>4
  <2>1. s \in DOMAIN payslips /\ s[1] = r
    BY DEF Slips
  <2>2. PICK i \in DOMAIN offers : OfferOf(s, i) /\ i <= since
    BY <1>1, <1>2, <1>3, <2>1 DEF SlipInv, IssueSees
  <2>3. i \in DOMAIN offers' /\ offers'[i].type = "PayslipVC" /\ offers'[i].of = s
    BY <1>7, <2>2 DEF OfferOf
  <2>4. since < i
    BY <1>9, <2>1, <2>3
  <2> QED BY <1>4, <1>7, <2>2, <2>4
<1>10. runs'[r] = row
  BY <1>1 DEF P!Put
<1>11. RunMatches(r)'
  <2>1. runs'[r].status # "paid" /\ runs'[r].vc = Len(offers) + 1
    BY <1>1, <1>10
  <2>2. offers'[runs'[r].vc].since = since
    BY <1>7, <1>8, <2>1
  <2>3. (\A i \in DOMAIN offers' : offers'[i].type = "PayslipVC" /\ offers'[i].of[1] = r
                                   => offers'[runs'[r].vc].since < i)
        => runs'[r].totals = Sums(payslips, Slips(payslips, r))
    BY <1>1, <1>2, <1>9, <1>10, <2>2
  <2> QED BY <1>1, <2>1, <2>3 DEF RunMatches
<1>12. MoreOffers
  BY <1>1 DEF MoreOffers
<1> QED BY <1>1, <1>6, <1>11, <1>12, RunWritten

\* A row of runs that keeps its totals and its offer.
LEMMA RunRewritten ==
    ASSUME PayrollRows, RunInv, UNCHANGED <<payslips, filings, disbursed>>, MoreOffers,
           NEW r \in DOMAIN runs, NEW row, runs' = P!Put(runs, r, row),
           row.vc = runs[r].vc, row.totals = runs[r].totals,
           row.status # "paid" \/ Slips(payslips, r) \subseteq disbursed
    PROVE  RunInv'
<1>1. runs'[r] = row
  BY DEF P!Put
<1>2. RunMatches(r)
  BY MatchMeaning DEF RunInv
<1>3. RunMatches(r)'
  BY <1>1, <1>2, PayslipsStay, RunMatchKept
<1>4. \A t \in P!TaxTypes : row.totals[t] <= Sums(payslips, Slips(payslips, r))[t]
  BY DEF RunInv, TotalsBounded
<1> QED BY <1>3, <1>4, RunWritten

LEMMA RunRefusedSums ==
    ASSUME PayrollRows, RunInv, NEW c, P!RunRefused(c)
    PROVE  RunInv'
<1>1. PICK r \in DOMAIN runs, row \in P!Run, o \in Offer :
         /\ c \in DOMAIN payCalls /\ payCalls[c].op = "issue" /\ payCalls[c].run = r
         /\ runs' = P!Put(runs, r, row)
         /\ offers' = offers \/ offers' = Append(offers, o)
         /\ failures < MaxFailures /\ failures' = failures + 1
         /\ o = OfferFor("PayrollRunVC", r, payCalls[c].since, TRUE)
         /\ row.vc = runs[r].vc /\ row.totals = runs[r].totals /\ row.status = "completed"
         /\ P!Return(c)
         /\ UNCHANGED <<employees, payslips, filings, disbursed, started>>
  BY RunRefusedRow
<1>2. MoreOffers
  BY <1>1 DEF MoreOffers
<1> QED BY <1>1, <1>2, RunRewritten

LEMMA PayoutEndsSums ==
    ASSUME PayrollRows, RunInv, NEW c, P!PayoutEnds(c)
    PROVE  RunInv'
<1> DEFINE r == payCalls[c].run
           row == [runs[r] EXCEPT !.status = "paid"]
<1>1. /\ c \in DOMAIN payCalls /\ payCalls[c].op = "payout" /\ payCalls[c].todo = {}
      /\ runs' = P!Put(runs, r, row)
      /\ UNCHANGED <<payslips, filings, disbursed, offers>>
  BY DEF P!PayoutEnds, P!Paying
<1>2. /\ r \in DOMAIN runs /\ runs[r] \in P!Run
      /\ \A s \in DOMAIN payslips : s[1] = r => s \in disbursed
  BY <1>1, PayCallFacts
<1>3. row.vc = runs[r].vc /\ row.totals = runs[r].totals
  <2> HIDE DEF r
  <2> QED BY <1>2 DEF P!Run
<1>4. Slips(payslips, r) \subseteq disbursed
  BY <1>2 DEF Slips
<1>5. MoreOffers
  BY <1>1 DEF MoreOffers
<1> HIDE DEF row
<1>6. PICK k : k = r
  OBVIOUS
<1> HIDE DEF r
<1> QED BY <1>1, <1>2, <1>3, <1>4, <1>5, <1>6, RunRewritten

LEMMA IssueTaxSums ==
    ASSUME PayrollRows, RunInv, NEW r \in DOMAIN runs, NEW type \in FiledTypes,
           P!IssueTaxComplianceVC(r, type)
    PROVE  RunInv'
<1> DEFINE row == [run |-> r, type |-> type, status |-> "pending",
                   amount |-> runs[r].totals[type], vc |-> 0]
<1>1. PICK f : f = P!Fresh(filings)
  OBVIOUS
<1>2. /\ filings' = P!Put(filings, f, row)
      /\ UNCHANGED <<runs, payslips, disbursed, offers>>
  BY <1>1 DEF P!IssueTaxComplianceVC, P!NoOffer
<1>3. row.run = r /\ row.type = type /\ row.amount = runs[r].totals[type]
  OBVIOUS
<1> HIDE DEF row
<1>4. \A k \in DOMAIN filings' : k # f => k \in DOMAIN filings /\ filings'[k] = filings[k]
  BY <1>2 DEF P!Put
<1>5. filings'[f] = row
  BY <1>2 DEF P!Put
<1>6. runs[r].totals[type] <= Sums(payslips, Slips(payslips, r))[type]
  BY Bounds DEF RunInv, TotalsBounded
<1>7. FilingMatches(f)'
  BY <1>2, <1>3, <1>5, <1>6 DEF FilingMatches
<1>8. GrossKept /\ MoreOffers
  BY <1>2, PayslipsStay DEF MoreOffers
<1> QED BY <1>2, <1>4, <1>7, <1>8, RunInvKept

\* A filing that keeps its run, its tax and its amount.
LEMMA FilingRewritten ==
    ASSUME PayrollRows, RunInv, NEW f \in DOMAIN filings, NEW row, MoreOffers,
           filings' = filings \/ filings' = P!Put(filings, f, row),
           row.run = filings[f].run, row.type = filings[f].type, row.amount = filings[f].amount,
           UNCHANGED <<runs, payslips, disbursed>>
    PROVE  RunInv'
<1>1. \A k \in DOMAIN filings' :
         /\ k \in DOMAIN filings /\ filings'[k].run = filings[k].run
         /\ filings'[k].type = filings[k].type /\ filings'[k].amount = filings[k].amount
  BY DEF P!Put
<1> QED BY <1>1, PayslipsStay, RunInvKept

\* An answer for a payslip adds its offer, if any.
LEMMA SlipAnswerOffers ==
    ASSUME PayrollRows, NEW c, NEW s, P!SlipOffered(c, s) \/ P!SlipRefused(c, s)
    PROVE  MoreOffers
<1> DEFINE made == OfferFor("PayslipVC", s, payCalls[c].since, FALSE)
           lost == OfferFor("PayslipVC", s, payCalls[c].since, TRUE)
<1>1. /\ c \in DOMAIN payCalls /\ payCalls[c].op = "issue" /\ s \in payCalls[c].todo
      /\ \/ offers' = offers \/ offers' = Append(offers, made) \/ offers' = Append(offers, lost)
  BY DEF P!SlipOffered, P!SlipRefused, P!Issuing, P!Offered, P!Refused, P!NewOffer, OfferFor
<1>2. s \in Nat \X Nat /\ payCalls[c].since \in Nat
  <2>1. s \in DOMAIN payslips /\ payCalls[c].since \in Nat
    BY <1>1, IssueCallFacts
  <2> QED BY <2>1, <1>1, IssueCallFacts
<1>3. made \in Offer /\ lost \in Offer
  BY <1>2 DEF Offer, OfferTypes, OfferFor
<1> HIDE DEF made, lost
<1> QED BY <1>1, <1>3 DEF MoreOffers

\* A payslip is issued: its salary stays.
LEMMA SlipOfferedGross ==
    ASSUME PayrollRows, NEW c, NEW s, P!SlipOffered(c, s)
    PROVE  GrossKept
<1> DEFINE row == [payslips[s] EXCEPT !.status = "issued", !.vc = Len(offers) + 1]
<1>1. /\ c \in DOMAIN payCalls /\ payCalls[c].op = "issue" /\ s \in payCalls[c].todo
      /\ payslips' = P!Put(payslips, s, row)
  BY DEF P!SlipOffered, P!Issuing, P!OfferId
<1>2. s \in DOMAIN payslips /\ payslips[s] \in P!Payslip
  BY <1>1, IssueCallFacts
<1>3. row.gross = payslips[s].gross
  BY <1>2 DEF P!Payslip
<1> HIDE DEF row
<1> QED BY <1>1, <1>2, <1>3 DEF GrossKept, P!Put

\* The tax authority's answer, and the offer of a filing.
LEMMA FilingSums ==
    ASSUME PayrollRows, RunInv, NEW f \in DOMAIN filings, NEW row, MoreOffers,
           \/ \E status : row = [filings[f] EXCEPT !.status = status]
           \/ row = [filings[f] EXCEPT !.vc = Len(offers) + 1],
           filings' = filings \/ filings' = P!Put(filings, f, row),
           UNCHANGED <<runs, payslips, disbursed>>
    PROVE  RunInv'
<1>1. filings[f] \in P!Filing
  BY PayrollRowTypes DEF P!IsTable
<1>2. row.run = filings[f].run /\ row.type = filings[f].type /\ row.amount = filings[f].amount
  BY <1>1 DEF P!Filing
<1> QED BY <1>2, FilingRewritten

LEMMA UpdateTaxSums ==
    ASSUME PayrollRows, RunInv, NEW f \in DOMAIN filings, NEW status,
           P!UpdateTaxComplianceStatus(f, status)
    PROVE  RunInv'
<1> DEFINE row == [filings[f] EXCEPT !.status = status]
<1>1. filings' = P!Put(filings, f, row) /\ UNCHANGED <<runs, payslips, disbursed, offers>>
  BY DEF P!UpdateTaxComplianceStatus
<1>2. MoreOffers
  BY <1>1 DEF MoreOffers
<1>3. \E st : row = [filings[f] EXCEPT !.status = st]
  OBVIOUS
<1> HIDE DEF row
<1> QED BY <1>1, <1>2, <1>3, FilingSums

LEMMA FilingAnswerSums ==
    ASSUME PayrollRows, PayrollRows', RunInv, NEW c, P!FilingOffered(c) \/ P!FilingRefused(c)
    PROVE  RunInv'
<1> DEFINE f == payCalls[c].filing
           row == [filings[f] EXCEPT !.vc = Len(offers) + 1]
<1>1. /\ c \in DOMAIN payCalls /\ payCalls[c].op = "file"
      /\ filings' = filings \/ filings' = P!Put(filings, f, row)
      /\ UNCHANGED <<runs, payslips, disbursed>>
  BY DEF P!FilingOffered, P!FilingRefused, P!Filed, P!OfferId
<1>2. f \in DOMAIN filings
  BY <1>1, FileCallFacts
<1>3. MoreOffers
  BY ReturnOffers DEF NoSlipOffer, MoreOffers
<1>4. row = [filings[f] EXCEPT !.vc = Len(offers) + 1]
  OBVIOUS
<1> HIDE DEF row, f
<1> QED BY <1>1, <1>2, <1>3, <1>4, FilingSums

LEMMA RunInvNext ==
    ASSUME PayrollRows, PayrollRows', SlipInv, RunInv, P!Requests \/ P!Answers \/ OthersStep
    PROVE  RunInv'
<1>1. CASE P!Requests
  <2>1. CASE \/ \E salary \in Salaries : P!SaveEmployee(salary)
             \/ \E r \in DOMAIN runs : P!IssuePayslips(r) \/ P!ProcessRunPayout(r)
    <3>1. UNCHANGED <<runs, payslips, filings, disbursed, offers>>
      BY <2>1 DEF P!SaveEmployee, P!IssuePayslips, P!ProcessRunPayout
    <3> QED BY <3>1, PayslipsStay, RunsStay DEF MoreOffers
  <2> QED BY <1>1, <2>1, CalculateSums, IssueTaxSums, UpdateTaxSums DEF P!Requests
<1>2. CASE P!Answers
  <2>1. PICK c : P!Answer(c)
    BY <1>2 DEF P!Answers
  <2>2. ASSUME NEW s, P!SlipOffered(c, s)
        PROVE  RunInv'
    <3>1. UNCHANGED <<runs, filings, disbursed>>
      BY <2>2 DEF P!SlipOffered
    <3>2. MoreOffers
      BY <2>2, SlipAnswerOffers
    <3> QED BY <2>2, <3>1, <3>2, SlipOfferedGross, RunsStay
  <2>3. ASSUME NEW s, P!SlipRefused(c, s)
        PROVE  RunInv'
    <3>1. UNCHANGED <<runs, filings, disbursed, payslips>>
      BY <2>3 DEF P!SlipRefused
    <3>2. MoreOffers
      BY <2>3, SlipAnswerOffers
    <3> QED BY <3>1, <3>2, PayslipsStay, RunsStay
  <2>4. ASSUME NEW s, P!Disburse(c, s)
        PROVE  RunInv'
    <3>1. UNCHANGED <<runs, filings, payslips, offers>> /\ disbursed \subseteq disbursed'
      BY <2>4 DEF P!Disburse
    <3> QED BY <3>1, PayslipsStay, RunsStay DEF MoreOffers
  <2> QED BY <2>1, <2>2, <2>3, <2>4, RunOfferedSums, RunRefusedSums, FilingAnswerSums,
             PayoutEndsSums DEF P!Answer
<1>3. CASE OthersStep
  <2>1. UNCHANGED <<runs, payslips, filings, disbursed>> /\ MoreOffers
    BY <1>3 DEF OthersStep, MoreOffers
  <2> QED BY <2>1, PayslipsStay, RunsStay
<1> QED BY <1>1, <1>2, <1>3

-----------------------------------------------------------------------------
(* Hr: types and keys                                                        *)

HrCallSet == H!ContractCall \cup H!LeaveCall \cup H!ClaimCall

\* What a call of onboarding, leave or expenses is, and what it finds in its rows.
LEMMA HrCallTypes ==
    ASSUME HrRows, NEW c \in DOMAIN hrCalls
    PROVE  /\ c \in 1..started
           /\ hrCalls[c].op \in {"contract", "leave", "expense"}
           /\ hrCalls[c].op = "contract" =>
                 /\ hrCalls[c] \in H!ContractCall
                 /\ hrCalls[c].request \in DOMAIN requests
                 /\ hrCalls[c].employee \in DOMAIN employees
                 /\ employees[hrCalls[c].employee].candidate = hrCalls[c].request
           /\ hrCalls[c].op = "leave" =>
                 hrCalls[c] \in H!LeaveCall /\ hrCalls[c].leave \in DOMAIN leaves
           /\ hrCalls[c].op = "expense" =>
                 hrCalls[c] \in H!ClaimCall /\ hrCalls[c].claim \in DOMAIN claims
<1>1. c \in 1..started /\ hrCalls[c] \in HrCallSet
  BY DEF HrRows, H!TypeOK, H!IsTable, HrCallSet
<1>2. HrCall(c)
  BY DEF HrRows
<1> QED BY <1>1, <1>2 DEF HrCall, HrCallSet, H!ContractCall, H!LeaveCall, H!ClaimCall

\* The facts that hold before every step.
LEMMA HrRowTypes ==
    ASSUME HrRows
    PROVE  /\ H!IsTable(requests, P!Ids, H!OnboardingRequest) /\ Upto(requests, started)
           /\ H!IsTable(leaves, P!Ids, H!Leave) /\ Upto(leaves, started)
           /\ H!IsTable(claims, P!Ids, H!Claim) /\ Upto(claims, started)
           /\ H!IsTable(hrCalls, 1..started, HrCallSet)
           /\ queue \in Seq(H!Entry) /\ audit \in Seq(H!Entry)
           /\ started \in Nat /\ started \in 0..MaxCalls
           /\ failures \in Nat /\ failures \in 0..MaxFailures
<1>1. P!Ids = H!Ids
  BY DEF P!Ids, H!Ids
<1> QED BY <1>1, Bounds DEF HrRows, H!TypeOK, Numbered, HrCallSet

\* A row is written under a key that is there or comes next.
Keyed(table, key, n) ==
    key \in P!Ids /\ \A new : DOMAIN new = DOMAIN table \cup {key} => Upto(new, n)

LEMMA KeyedRow ==
    ASSUME NEW table, NEW key \in DOMAIN table, DOMAIN table \subseteq P!Ids,
           NEW n \in Nat, Upto(table, n), NEW m \in {n, n + 1}
    PROVE  Keyed(table, key, m)
<1>1. DOMAIN table \cup {key} = DOMAIN table
  OBVIOUS
<1> QED BY <1>1, UptoKept DEF Keyed

LEMMA KeyedNext ==
    ASSUME HrRows, H!Request, NEW table, Upto(table, started)
    PROVE  Keyed(table, H!Fresh(table), started')
<1>1. started \in Nat /\ MaxCalls \in Nat /\ started < MaxCalls /\ started' = started + 1
  BY HrRowTypes, Bounds DEF H!Request
<1>2. P!Ids = 1..MaxCalls
  BY DEF P!Ids
<1> QED BY <1>1, <1>2, FreshFacts DEF Keyed

\* What each handler of Hr does to its tables, and the entry it leaves.
RequestWritten(q, row) ==
    /\ requests' = H!Put(requests, q, row) /\ row \in H!OnboardingRequest
    /\ Keyed(requests, q, started')
    /\ UNCHANGED <<leaves, claims, queue, audit>>
    /\ \/ row.contract = 0
       \/ /\ q \in DOMAIN requests /\ row.contract = requests[q].contract
          /\ row.employee = requests[q].employee \/ failures' # 0
       \/ /\ row.contract = Len(offers) + 1
          /\ \E o \in Offer : offers' = Append(offers, o) /\ o.of = row.employee

LeaveWritten(l, row) ==
    /\ leaves' = H!Put(leaves, l, row) /\ row \in H!Leave /\ Keyed(leaves, l, started')
    /\ queue' = Append(queue, [of |-> <<"leave", l>>, action |-> Decision(row.status)])
    /\ UNCHANGED <<requests, claims, audit>>

ClaimWritten(x, row) ==
    /\ claims' = H!Put(claims, x, row) /\ row \in H!Claim /\ Keyed(claims, x, started')
    /\ queue' = Append(queue, [of |-> <<"expense", x>>, action |-> Decision(row.status)])
    /\ UNCHANGED <<requests, leaves, audit>>

HrWrites ==
    \/ UNCHANGED <<requests, leaves, claims, queue, audit>>
    \/ H!WriteAudit
    \/ failures' # 0 /\ queue' = <<>> /\ UNCHANGED <<requests, leaves, claims, audit>>
    \/ \E q, row : RequestWritten(q, row)
    \/ \E l, row : LeaveWritten(l, row)
    \/ \E x, row : ClaimWritten(x, row)

\* What every step does to what the components share.
Shared ==
    /\ started' \in {started, started + 1} /\ started' \in 0..MaxCalls
    /\ failures' \in {failures, failures + 1} /\ failures' \in 0..MaxFailures
    /\ \A e \in DOMAIN employees : e \in DOMAIN employees' /\ employees'[e] = employees[e]
    /\ MoreOffers

\* The calls of Hr after a step.
HrCallsThen(new) ==
    /\ H!IsTable(hrCalls', 1..started', HrCallSet)
    /\ \A c \in DOMAIN hrCalls' :
          c \notin new => c \in DOMAIN hrCalls /\ hrCalls'[c] = hrCalls[c]

LEMMA HrCallBegun ==
    ASSUME HrRows, NEW call \in HrCallSet, H!Request, H!Begin(call)
    PROVE  /\ HrCallsThen({started + 1})
           /\ hrCalls'[started + 1] = call
<1>1. H!IsTable(hrCalls, 1..started, HrCallSet) /\ started \in Nat
  BY HrRowTypes
<1>2. started' = started + 1 /\ hrCalls' = H!Put(hrCalls, started + 1, call)
  BY DEF H!Request, H!Begin
<1>3. H!IsTable(hrCalls, 1..started', HrCallSet) /\ started + 1 \in 1..started'
  BY <1>1, <1>2 DEF H!IsTable
<1>4. H!IsTable(hrCalls', 1..started', HrCallSet)
  BY <1>2, <1>3, HrTables
<1>5. hrCalls'[started + 1] = call
  BY <1>2 DEF H!Put
<1>6. \A c \in DOMAIN hrCalls' :
         c # started + 1 => c \in DOMAIN hrCalls /\ hrCalls'[c] = hrCalls[c]
  BY <1>2 DEF H!Put
<1> QED BY <1>4, <1>5, <1>6 DEF HrCallsThen

LEMMA HrCallReturned ==
    ASSUME HrRows, NEW c, H!Return(c), UNCHANGED started
    PROVE  HrCallsThen({})
<1>1. hrCalls' = H!Without(hrCalls, {c})
  BY DEF H!Return
<1> QED BY <1>1, HrRowTypes DEF HrCallsThen, H!Without, H!IsTable

LEMMA HrCallsWait ==
    ASSUME HrRows, started' \in {started, started + 1},
           UNCHANGED hrCalls \/ hrCalls' = H!EmptyTable
    PROVE  HrCallsThen({})
<1>1. started \in Nat /\ H!IsTable(hrCalls, 1..started, HrCallSet)
  BY HrRowTypes
<1>2. CASE UNCHANGED hrCalls
  BY <1>1, <1>2 DEF HrCallsThen, H!IsTable
<1>3. CASE hrCalls' = H!EmptyTable
  BY <1>3 DEF HrCallsThen, H!IsTable, H!EmptyTable
<1> QED BY <1>2, <1>3

\* A table after a row is written.
LEMMA HrWritten ==
    ASSUME NEW Row, NEW table, H!IsTable(table, P!Ids, Row), NEW key \in P!Ids, NEW row \in Row
    PROVE  /\ H!IsTable(H!Put(table, key, row), P!Ids, Row)
           /\ DOMAIN H!Put(table, key, row) = DOMAIN table \cup {key}
           /\ H!Put(table, key, row)[key] = row
           /\ \A k \in DOMAIN table : k # key => H!Put(table, key, row)[k] = table[k]
<1>1. H!IsTable(H!Put(table, key, row), P!Ids, Row)
  BY HrTables
<1>2. /\ DOMAIN H!Put(table, key, row) = DOMAIN table \cup {key}
      /\ H!Put(table, key, row)[key] = row
      /\ \A k \in DOMAIN table : k # key => H!Put(table, key, row)[k] = table[k]
  BY DEF H!Put
<1> QED BY <1>1, <1>2

LEMMA DecisionNames ==
    ASSUME NEW status \in {"pending", "approved", "rejected", "paid"}
    PROVE  Decision(status) \in {"created", "approved", "rejected", "paid"}
BY DEF Decision

LEMMA EntriesLeft ==
    ASSUME NEW Row, NEW seq \in Seq(Row), seq # <<>>
    PROVE  Head(seq) \in Row /\ Tail(seq) \in Seq(Row)
OBVIOUS

\* The tables of Hr after what it writes.
LEMMA HrWritesTables ==
    ASSUME HrRows, offers \in Seq(Offer), Shared, HrWrites
    PROVE  /\ H!IsTable(requests', P!Ids, H!OnboardingRequest) /\ Upto(requests', started')
           /\ H!IsTable(leaves', P!Ids, H!Leave) /\ Upto(leaves', started')
           /\ H!IsTable(claims', P!Ids, H!Claim) /\ Upto(claims', started')
           /\ DOMAIN requests \subseteq DOMAIN requests'
           /\ DOMAIN leaves \subseteq DOMAIN leaves' /\ DOMAIN claims \subseteq DOMAIN claims'
           /\ queue' \in Seq(H!Entry) /\ audit' \in Seq(H!Entry)
           /\ \A q \in DOMAIN requests' : requests'[q].contract <= Len(offers')
<1> DEFINE Tables ==
      /\ H!IsTable(requests', P!Ids, H!OnboardingRequest) /\ Upto(requests', started')
      /\ H!IsTable(leaves', P!Ids, H!Leave) /\ Upto(leaves', started')
      /\ H!IsTable(claims', P!Ids, H!Claim) /\ Upto(claims', started')
      /\ DOMAIN requests \subseteq DOMAIN requests'
      /\ DOMAIN leaves \subseteq DOMAIN leaves' /\ DOMAIN claims \subseteq DOMAIN claims'
<1>1. /\ H!IsTable(requests, P!Ids, H!OnboardingRequest) /\ Upto(requests, started)
      /\ H!IsTable(leaves, P!Ids, H!Leave) /\ Upto(leaves, started)
      /\ H!IsTable(claims, P!Ids, H!Claim) /\ Upto(claims, started)
      /\ started \in Nat /\ queue \in Seq(H!Entry) /\ audit \in Seq(H!Entry)
  BY HrRowTypes
<1>2. /\ requests' = requests => Upto(requests', started')
      /\ leaves' = leaves => Upto(leaves', started')
      /\ claims' = claims => Upto(claims', started')
  BY <1>1, UptoKept DEF Shared
<1>3. /\ Len(offers) \in Nat /\ Len(offers') \in Nat /\ Len(offers) <= Len(offers')
  BY OffersKept DEF Shared
<1>4. \A q \in DOMAIN requests : requests[q].contract \in Nat /\ requests[q].contract <= Len(offers)
  BY <1>1 DEF HrRows, HrKeys, H!IsTable, H!OnboardingRequest
<1>5. \A q \in DOMAIN requests : requests[q].contract <= Len(offers')
  BY <1>3, <1>4
<1>6. CASE \/ UNCHANGED <<requests, leaves, claims, queue, audit>> \/ H!WriteAudit
           \/ failures' # 0 /\ queue' = <<>> /\ UNCHANGED <<requests, leaves, claims, audit>>
  <2>1. UNCHANGED <<requests, leaves, claims>>
    BY <1>6 DEF H!WriteAudit
  <2>2. queue' \in Seq(H!Entry) /\ audit' \in Seq(H!Entry)
    <3>1. CASE H!WriteAudit
      <4>1. queue # <<>> /\ queue' = Tail(queue)
            /\ (audit' = Append(audit, Head(queue)) \/ audit' = audit)
        BY <3>1 DEF H!WriteAudit
      <4>2. Head(queue) \in H!Entry /\ Tail(queue) \in Seq(H!Entry)
        BY <1>1, <4>1, EntriesLeft
      <4> QED BY <1>1, <4>1, <4>2
    <3>2. ((queue' = queue \/ queue' = <<>>) /\ audit' = audit) \/ H!WriteAudit
      BY <1>6
    <3>3. <<>> \in Seq(H!Entry)
      OBVIOUS
    <3> QED BY <1>1, <3>1, <3>2, <3>3
  <2> QED BY <1>1, <1>2, <1>5, <2>1, <2>2
<1>7. CASE \E q, row : RequestWritten(q, row)
  <2>1. PICK q, row : RequestWritten(q, row)
    BY <1>7
  <2>2. /\ H!IsTable(requests', P!Ids, H!OnboardingRequest) /\ Upto(requests', started')
        /\ DOMAIN requests' = DOMAIN requests \cup {q} /\ requests'[q] = row
        /\ \A k \in DOMAIN requests : k # q => requests'[k] = requests[k]
    <3>1. requests' = H!Put(requests, q, row) /\ row \in H!OnboardingRequest /\ Keyed(requests, q, started')
      BY <2>1 DEF RequestWritten
    <3>2. H!IsTable(requests, P!Ids, H!OnboardingRequest)
      BY <1>1
    <3>3. q \in P!Ids
      BY <3>1 DEF Keyed
    <3>4. DOMAIN requests' = DOMAIN requests \cup {q}
      BY ONLY <3>1, <3>2, <3>3, HrWritten
    <3>5. Upto(requests', started')
      BY ONLY <3>1, <3>4 DEF Keyed
    <3> QED BY ONLY <3>1, <3>2, <3>3, <3>4, <3>5, HrWritten
  <2>3. row.contract <= Len(offers')
    <3>1. CASE row.contract = 0
      BY <1>3, <3>1
    <3>2. CASE q \in DOMAIN requests /\ row.contract = requests[q].contract
      BY <1>5, <3>2
    <3>3. CASE row.contract = Len(offers) + 1 /\ \E o \in Offer : offers' = Append(offers, o)
      BY <3>3, OfferAdded, <1>3
    <3> QED BY <2>1, <3>1, <3>2, <3>3 DEF RequestWritten
  <2>4. \A k \in DOMAIN requests' : requests'[k].contract <= Len(offers')
    BY <1>5, <2>2, <2>3
  <2>5. UNCHANGED <<leaves, claims, queue, audit>>
    BY <2>1 DEF RequestWritten
  <2> QED BY <1>1, <1>2, <2>2, <2>4, <2>5
<1>8. CASE \E l, row : LeaveWritten(l, row)
  <2>1. PICK l, row : LeaveWritten(l, row)
    BY <1>8
  <2>2. H!IsTable(leaves', P!Ids, H!Leave) /\ Upto(leaves', started')
        /\ DOMAIN leaves' = DOMAIN leaves \cup {l}
    <3>1. leaves' = H!Put(leaves, l, row) /\ row \in H!Leave /\ Keyed(leaves, l, started')
      BY <2>1 DEF LeaveWritten
    <3>2. H!IsTable(leaves, P!Ids, H!Leave)
      BY <1>1
    <3>3. l \in P!Ids
      BY <3>1 DEF Keyed
    <3>4. DOMAIN leaves' = DOMAIN leaves \cup {l}
      BY ONLY <3>1, <3>2, <3>3, HrWritten
    <3>5. Upto(leaves', started')
      BY ONLY <3>1, <3>4 DEF Keyed
    <3> QED BY ONLY <3>1, <3>2, <3>3, <3>4, <3>5, HrWritten
  <2>3. queue' \in Seq(H!Entry)
    <3>1. [of |-> <<"leave", l>>, action |-> Decision(row.status)] \in H!Entry
      <4>1. row.status \in {"pending", "approved", "rejected"} /\ l \in P!Ids
        BY <2>1 DEF LeaveWritten, Keyed, H!Leave
      <4>2. Decision(row.status) \in {"created", "approved", "rejected", "paid"}
        BY <4>1, DecisionNames
      <4>3. <<"leave", l>> \in {"leave", "expense"} \X H!Ids
        BY <4>1 DEF H!Ids, P!Ids
      <4> QED BY <4>2, <4>3 DEF H!Entry
    <3> QED BY <1>1, <2>1, <3>1 DEF LeaveWritten
  <2>4. UNCHANGED <<requests, claims, audit>>
    BY <2>1 DEF LeaveWritten
  <2> QED BY <1>1, <1>2, <1>5, <2>2, <2>3, <2>4
<1>9. CASE \E x, row : ClaimWritten(x, row)
  <2>1. PICK x, row : ClaimWritten(x, row)
    BY <1>9
  <2>2. H!IsTable(claims', P!Ids, H!Claim) /\ Upto(claims', started')
        /\ DOMAIN claims' = DOMAIN claims \cup {x}
    <3>1. claims' = H!Put(claims, x, row) /\ row \in H!Claim /\ Keyed(claims, x, started')
      BY <2>1 DEF ClaimWritten
    <3>2. H!IsTable(claims, P!Ids, H!Claim)
      BY <1>1
    <3>3. x \in P!Ids
      BY <3>1 DEF Keyed
    <3>4. DOMAIN claims' = DOMAIN claims \cup {x}
      BY ONLY <3>1, <3>2, <3>3, HrWritten
    <3>5. Upto(claims', started')
      BY ONLY <3>1, <3>4 DEF Keyed
    <3> QED BY ONLY <3>1, <3>2, <3>3, <3>4, <3>5, HrWritten
  <2>3. queue' \in Seq(H!Entry)
    <3>1. [of |-> <<"expense", x>>, action |-> Decision(row.status)] \in H!Entry
      <4>1. row.status \in {"pending", "approved", "rejected", "paid"} /\ x \in P!Ids
        BY <2>1 DEF ClaimWritten, Keyed, H!Claim
      <4>2. Decision(row.status) \in {"created", "approved", "rejected", "paid"}
        BY <4>1, DecisionNames
      <4>3. <<"expense", x>> \in {"leave", "expense"} \X H!Ids
        BY <4>1 DEF H!Ids, P!Ids
      <4> QED BY <4>2, <4>3 DEF H!Entry
    <3> QED BY <1>1, <2>1, <3>1 DEF ClaimWritten
  <2>4. UNCHANGED <<requests, leaves, audit>>
    BY <2>1 DEF ClaimWritten
  <2> QED BY <1>1, <1>2, <1>5, <2>2, <2>3, <2>4
<1> QED BY <1>6, <1>7, <1>8, <1>9 DEF HrWrites

\* A step of Hr, for its own rows and for the other components.
HrOffers ==
    \/ offers' = offers
    \/ \E o \in Offer : /\ offers' = Append(offers, o)
                        /\ o.type # "PayslipVC"
                        /\ o.type = "EmploymentContractVC" => o.of \in DOMAIN employees'
HrEmployees == P!IsTable(employees', P!Ids, P!Employee) /\ Upto(employees', started')
HrCallsStep ==
    \E new : HrCallsThen(new) /\ \A c \in DOMAIN hrCalls' : c \in new => HrCall(c)'

HrEffect == Shared /\ HrOffers /\ HrEmployees /\ HrWrites /\ HrCallsStep

LEMMA HrRowsKept ==
    ASSUME HrRows, offers \in Seq(Offer), Shared, HrWrites, HrCallsStep
    PROVE  HrRows'
<1>1. /\ H!IsTable(requests', P!Ids, H!OnboardingRequest) /\ Upto(requests', started')
      /\ H!IsTable(leaves', P!Ids, H!Leave) /\ Upto(leaves', started')
      /\ H!IsTable(claims', P!Ids, H!Claim) /\ Upto(claims', started')
      /\ DOMAIN requests \subseteq DOMAIN requests'
      /\ DOMAIN leaves \subseteq DOMAIN leaves' /\ DOMAIN claims \subseteq DOMAIN claims'
      /\ queue' \in Seq(H!Entry) /\ audit' \in Seq(H!Entry)
      /\ \A q \in DOMAIN requests' : requests'[q].contract <= Len(offers')
  BY HrWritesTables
<1>2. P!Ids = H!Ids
  BY DEF P!Ids, H!Ids
<1>3. PICK new : HrCallsThen(new) /\ \A c \in DOMAIN hrCalls' : c \in new => HrCall(c)'
  BY DEF HrCallsStep
<1>4. H!TypeOK'
  BY <1>1, <1>2, <1>3 DEF H!TypeOK, HrCallsThen, HrCallSet, Shared
<1>5. HrKeys' /\ Numbered(requests)' /\ Numbered(leaves)' /\ Numbered(claims)'
  BY <1>1 DEF HrKeys, Numbered
<1>6. ASSUME NEW c \in DOMAIN hrCalls'
      PROVE  HrCall(c)'
  <2> SUFFICES ASSUME c \notin new
               PROVE  HrCall(c)'
    BY <1>3
  <2>1. c \in DOMAIN hrCalls /\ hrCalls'[c] = hrCalls[c]
    BY <1>3 DEF HrCallsThen
  <2>2. HrCall(c)
    BY <2>1 DEF HrRows
  <2> QED BY <1>1, <2>1, <2>2 DEF HrCall, Shared
<1> QED BY <1>4, <1>5, <1>6 DEF HrRows

LEMMA HrRequestShared ==
    ASSUME PayrollRows, HrRows, H!Request, UNCHANGED <<employees, offers, failures>>
    PROVE  Shared /\ HrOffers /\ HrEmployees
<1>1. /\ started < MaxCalls /\ started' = started + 1 /\ started \in Nat /\ MaxCalls \in Nat
      /\ failures \in 0..MaxFailures
  BY HrRowTypes, Bounds DEF H!Request
<1>2. Shared
  BY <1>1 DEF Shared, MoreOffers
<1>3. HrEmployees
  BY <1>1, PayrollRowTypes, UptoKept DEF HrEmployees
<1> QED BY <1>2, <1>3 DEF HrOffers

\* The answer to a call, which may fail.
LEMMA HrAnswerShared ==
    ASSUME PayrollRows, HrRows,
           NEW type \in {"EmploymentContractVC", "LeaveApprovalVC", "ExpenseApprovalVC"},
           NEW of \in Nat, NEW since \in Nat,
           type = "EmploymentContractVC" => of \in DOMAIN employees,
           H!Offered(type, of, since) \/ H!Refused(type, of, since),
           UNCHANGED <<employees, started>>
    PROVE  Shared /\ HrOffers /\ HrEmployees
<1> DEFINE made == OfferFor(type, of, since, FALSE)
           lost == OfferFor(type, of, since, TRUE)
<1>1. /\ offers' = offers \/ offers' = Append(offers, made) \/ offers' = Append(offers, lost)
      /\ UNCHANGED failures \/ (failures < MaxFailures /\ failures' = failures + 1)
  BY DEF H!Offered, H!Refused, H!NewOffer, H!Failure, OfferFor
<1>2. /\ made \in Offer /\ lost \in Offer /\ made.type = type /\ lost.type = type
      /\ made.of = of /\ lost.of = of
  BY DEF Offer, OfferTypes, OfferFor
<1> HIDE DEF made, lost
<1>3. HrOffers /\ MoreOffers
  BY <1>1, <1>2 DEF HrOffers, MoreOffers
<1>4. /\ started \in Nat /\ started \in 0..MaxCalls /\ failures \in Nat
      /\ failures \in 0..MaxFailures /\ MaxFailures \in Nat
  BY HrRowTypes, Bounds
<1>5. failures' \in {failures, failures + 1} /\ failures' \in 0..MaxFailures
  BY <1>1, <1>4
<1>6. Shared
  BY <1>3, <1>4, <1>5 DEF Shared
<1>7. HrEmployees
  BY <1>4, PayrollRowTypes, UptoKept DEF HrEmployees
<1> QED BY <1>3, <1>6, <1>7

\* The calls of a step that begins none.
LEMMA HrNoNewCall ==
    ASSUME HrRows,
           \/ UNCHANGED hrCalls /\ started' \in {started, started + 1}
           \/ UNCHANGED started /\ \E c : H!Return(c)
    PROVE  HrCallsStep
<1>1. HrCallsThen({})
  BY HrCallsWait, HrCallReturned
<1> QED BY <1>1 DEF HrCallsStep

LEMMA HrNewCall ==
    ASSUME HrRows, NEW call \in HrCallSet, H!Request, H!Begin(call),
           \A c : c = started + 1 /\ hrCalls'[c] = call => HrCall(c)'
    PROVE  HrCallsStep
<1>1. HrCallsThen({started + 1}) /\ hrCalls'[started + 1] = call
  BY HrCallBegun
<1>2. \A c \in DOMAIN hrCalls' : c \in {started + 1} => HrCall(c)'
  BY <1>1
<1> QED BY <1>1, <1>2 DEF HrCallsStep

LEMMA CreateRequestStep ==
    ASSUME PayrollRows, HrRows, NEW tenant \in Tenants, H!CreateRequest(tenant)
    PROVE  HrEffect
<1> DEFINE row == [tenant |-> tenant, status |-> "invited", employee |-> 0, contract |-> 0]
           q == H!Fresh(requests)
<1>1. /\ H!Request /\ requests' = H!Put(requests, q, row)
      /\ UNCHANGED <<employees, leaves, claims, queue, audit, hrCalls, offers, failures>>
  BY DEF H!CreateRequest, H!NoOffer
<1>2. row \in H!OnboardingRequest /\ row.contract = 0
  BY DEF H!OnboardingRequest
<1>3. Keyed(requests, q, started')
  BY <1>1, KeyedNext, HrRowTypes
<1> HIDE DEF row, q
<1>4. RequestWritten(q, row)
  BY <1>1, <1>2, <1>3 DEF RequestWritten
<1>5. started' \in {started, started + 1}
  BY <1>1 DEF H!Request
<1> QED BY <1>1, <1>4, <1>5, HrRequestShared, HrNoNewCall DEF HrEffect, HrWrites

LEMMA UpdateProgressStep ==
    ASSUME PayrollRows, HrRows, NEW q, H!UpdateProgress(q)
    PROVE  HrEffect
<1> DEFINE row == [requests[q] EXCEPT !.status = "in_progress"]
<1>1. /\ H!Request /\ q \in DOMAIN requests /\ requests' = H!Put(requests, q, row)
      /\ UNCHANGED <<employees, leaves, claims, queue, audit, hrCalls, offers, failures>>
  BY DEF H!UpdateProgress
<1>2. requests[q] \in H!OnboardingRequest
  BY <1>1, HrRowTypes DEF H!IsTable
<1>3. /\ row \in H!OnboardingRequest /\ row.contract = requests[q].contract
      /\ row.employee = requests[q].employee
  BY <1>2 DEF H!OnboardingRequest
<1>4. started' = started + 1
  BY <1>1 DEF H!Request
<1>5. Keyed(requests, q, started')
  BY <1>1, <1>4, KeyedRow, HrRowTypes DEF H!IsTable
<1> HIDE DEF row
<1>6. RequestWritten(q, row)
  BY <1>1, <1>3, <1>5 DEF RequestWritten
<1> QED BY <1>1, <1>4, <1>6, HrRequestShared, HrNoNewCall DEF HrEffect, HrWrites

\* The employee is added before the offer.
LEMMA ApproveRequestStep ==
    ASSUME PayrollRows, HrRows, NEW q, H!ApproveRequest(q)
    PROVE  HrEffect
<1> DEFINE e == H!Fresh(employees)
           row == [tenant |-> requests[q].tenant, salary |-> 0, candidate |-> q]
           call == [op |-> "contract", request |-> q, employee |-> e, since |-> Len(offers)]
<1>1. /\ H!Request /\ q \in DOMAIN requests /\ employees' = H!Put(employees, e, row)
      /\ H!Begin(call)
      /\ UNCHANGED <<requests, leaves, claims, queue, audit, offers, failures>>
  BY DEF H!ApproveRequest
<1>2. /\ started < MaxCalls /\ started' = started + 1 /\ started \in Nat /\ MaxCalls \in Nat
      /\ failures \in 0..MaxFailures
  BY <1>1, HrRowTypes, Bounds DEF H!Request
<1>3. requests[q].tenant \in Tenants /\ q \in P!Ids /\ q \in Nat
  BY <1>1, HrRowTypes DEF H!IsTable, H!OnboardingRequest, P!Ids
<1>4. row \in P!Employee /\ row.candidate = q
  BY <1>3 DEF P!Employee
<1>5. P!Ids = 1..MaxCalls /\ H!Ids = P!Ids
  BY DEF P!Ids, H!Ids
<1>6. e \in P!Ids /\ e \notin DOMAIN employees
      /\ \A new : DOMAIN new = DOMAIN employees \cup {e} => Upto(new, started')
  <2>1. Upto(employees, started)
    BY PayrollRowTypes
  <2> QED BY <1>2, <1>5, <2>1, FreshFacts
<1>7. call \in HrCallSet
  <2>1. Len(offers) \in Nat
    BY PayrollRowTypes
  <2> HIDE DEF e
  <2> QED BY <1>3, <1>5, <1>6, <2>1 DEF HrCallSet, H!ContractCall
<1>8. call.op = "contract" /\ call.request = q /\ call.employee = e
  OBVIOUS
<1> HIDE DEF e, row, call
<1>9. DOMAIN employees' = DOMAIN employees \cup {e} /\ employees'[e] = row
      /\ \A k \in DOMAIN employees : employees'[k] = employees[k]
  BY <1>1, <1>6 DEF H!Put
<1>10. HrEmployees
  <2>1. P!IsTable(employees, P!Ids, P!Employee)
    BY PayrollRowTypes
  <2>2. P!IsTable(employees', P!Ids, P!Employee)
    <3>1. employees' = P!Put(employees, e, row)
      BY <1>1 DEF H!Put, P!Put
    <3> QED BY <1>4, <1>6, <2>1, <3>1, PayrollTables
  <2> QED BY <1>6, <1>9, <2>2 DEF HrEmployees
<1>11. Shared
  BY <1>1, <1>2, <1>9 DEF Shared, MoreOffers
<1>12. HrCallsStep
  <2>1. ASSUME NEW c, hrCalls'[c] = call
        PROVE  HrCall(c)'
    BY <1>1, <1>4, <1>8, <1>9, <2>1 DEF HrCall
  <2> QED BY <1>1, <1>7, <2>1, HrNewCall
<1> QED BY <1>1, <1>10, <1>11, <1>12 DEF HrEffect, HrOffers, HrWrites

\* The answers to an approval of onboarding.
LEMMA ContractStep ==
    ASSUME PayrollRows, HrRows, NEW c, H!ContractOffered(c) \/ H!ContractRefused(c)
    PROVE  HrEffect
<1> DEFINE q == hrCalls[c].request
           e == hrCalls[c].employee
           made == [requests[q] EXCEPT !.status = "completed", !.employee = e,
                                       !.contract = Len(offers) + 1]
           kept == [requests[q] EXCEPT !.status = "completed", !.employee = e]
           since == hrCalls[c].since
<1>1. /\ c \in DOMAIN hrCalls /\ hrCalls[c].op = "contract" /\ H!Return(c)
      /\ \/ /\ H!Offered("EmploymentContractVC", e, since) /\ requests' = H!Put(requests, q, made)
         \/ /\ H!Refused("EmploymentContractVC", e, since) /\ requests' = H!Put(requests, q, kept)
      /\ UNCHANGED <<employees, leaves, claims, queue, audit, started>>
  BY DEF H!ContractOffered, H!ContractRefused, H!Awaiting, H!OfferId
<1>2. /\ hrCalls[c] \in H!ContractCall /\ q \in DOMAIN requests /\ e \in DOMAIN employees
  BY <1>1, HrCallTypes
<1>3. /\ since \in Nat /\ e \in Nat
  BY <1>2 DEF H!ContractCall, H!Ids
<1>4. requests[q] \in H!OnboardingRequest /\ Keyed(requests, q, started')
  <2>1. /\ H!IsTable(requests, P!Ids, H!OnboardingRequest) /\ Upto(requests, started)
        /\ started \in Nat
    BY HrRowTypes
  <2>2. DOMAIN requests \subseteq P!Ids
    BY <2>1 DEF H!IsTable
  <2>3. started' \in {started, started + 1}
    BY <1>1
  <2> HIDE DEF q
  <2>4. Keyed(requests, q, started')
    BY <1>2, <2>1, <2>2, <2>3, KeyedRow
  <2> QED BY <1>2, <2>1, <2>4 DEF H!IsTable
<1>5. Len(offers) + 1 \in Nat
  BY PayrollRowTypes
<1> HIDE DEF q, e, since
<1>6. /\ made \in H!OnboardingRequest /\ made.contract = Len(offers) + 1 /\ made.employee = e
      /\ kept \in H!OnboardingRequest /\ kept.contract = requests[q].contract
  BY <1>3, <1>4, <1>5 DEF H!OnboardingRequest
<1> HIDE DEF made, kept
<1>7. Shared /\ HrOffers /\ HrEmployees
  <2>1. PICK type : type = "EmploymentContractVC"
    OBVIOUS
  <2> QED BY <1>1, <1>2, <1>3, <2>1, HrAnswerShared
<1>8. \E row : RequestWritten(q, row)
  <2>1. CASE H!Offered("EmploymentContractVC", e, since) /\ requests' = H!Put(requests, q, made)
    <3> DEFINE o == OfferFor("EmploymentContractVC", e, since, FALSE)
    <3>1. offers' = Append(offers, o)
      BY <2>1 DEF H!Offered, H!NewOffer, OfferFor
    <3>2. o \in Offer /\ o.of = e
      BY <1>3 DEF Offer, OfferTypes, OfferFor
    <3> HIDE DEF o
    <3> QED BY <1>1, <1>4, <1>6, <2>1, <3>1, <3>2 DEF RequestWritten
  <2>2. CASE H!Refused("EmploymentContractVC", e, since) /\ requests' = H!Put(requests, q, kept)
    <3>1. failures' # 0
      BY <2>2, HrRowTypes DEF H!Refused, H!Failure
    <3> QED BY <1>1, <1>2, <1>4, <1>6, <2>2, <3>1 DEF RequestWritten
  <2> QED BY <1>1, <2>1, <2>2
<1>9. HrCallsStep
  BY <1>1, HrNoNewCall
<1> QED BY <1>7, <1>8, <1>9 DEF HrEffect, HrWrites

\* A row of leaves or claims that a decision writes.
LEMMA LeaveDecided ==
    ASSUME HrRows, NEW l \in DOMAIN leaves, NEW status \in {"approved", "rejected"},
           NEW vc \in Nat, H!DecideLeave(l, status, vc), started' \in {started, started + 1},
           UNCHANGED <<requests, claims, audit>>
    PROVE  HrWrites
<1> DEFINE row == [leaves[l] EXCEPT !.status = status, !.vc = vc]
<1>1. /\ leaves' = H!Put(leaves, l, row)
      /\ queue' = Append(queue, [of |-> <<"leave", l>>, action |-> status])
  BY DEF H!DecideLeave, H!Log
<1>2. /\ H!IsTable(leaves, P!Ids, H!Leave) /\ Upto(leaves, started) /\ started \in Nat
  BY HrRowTypes
<1>3. row \in H!Leave /\ row.status = status
  BY <1>2 DEF H!IsTable, H!Leave
<1>4. Keyed(leaves, l, started')
  BY <1>2, KeyedRow DEF H!IsTable
<1> HIDE DEF row
<1>5. Decision(row.status) = status
  BY <1>3 DEF Decision
<1>6. LeaveWritten(l, row)
  BY <1>1, <1>3, <1>4, <1>5 DEF LeaveWritten
<1> QED BY <1>6 DEF HrWrites

LEMMA ClaimDecided ==
    ASSUME HrRows, NEW x \in DOMAIN claims, NEW status \in {"approved", "rejected", "paid"},
           NEW vc \in Nat, H!DecideClaim(x, status, vc), started' \in {started, started + 1},
           UNCHANGED <<requests, leaves, audit>>
    PROVE  HrWrites
<1> DEFINE row == [claims[x] EXCEPT !.status = status, !.vc = vc,
                                    !.paidAt = claims[x].paidAt \/ status = "paid"]
<1>1. /\ claims' = H!Put(claims, x, row)
      /\ queue' = Append(queue, [of |-> <<"expense", x>>, action |-> status])
  BY DEF H!DecideClaim, H!Log
<1>2. /\ H!IsTable(claims, P!Ids, H!Claim) /\ Upto(claims, started) /\ started \in Nat
  BY HrRowTypes
<1>3. row \in H!Claim /\ row.status = status
  <2>1. claims[x] \in H!Claim
    BY <1>2 DEF H!IsTable
  <2>2. (claims[x].paidAt \/ status = "paid") \in BOOLEAN
    OBVIOUS
  <2> QED BY <2>1, <2>2 DEF H!Claim
<1>4. Keyed(claims, x, started')
  BY <1>2, KeyedRow DEF H!IsTable
<1> HIDE DEF row
<1>5. Decision(row.status) = status
  BY <1>3 DEF Decision
<1>6. ClaimWritten(x, row)
  BY <1>1, <1>3, <1>4, <1>5 DEF ClaimWritten
<1> QED BY <1>6 DEF HrWrites

LEMMA CreateLeaveStep ==
    ASSUME PayrollRows, HrRows, NEW e, H!CreateLeaveRequest(e)
    PROVE  HrEffect
<1> DEFINE l == H!Fresh(leaves)
           row == [employee |-> e, status |-> "pending", vc |-> 0]
<1>1. /\ H!Request /\ e \in DOMAIN employees /\ leaves' = H!Put(leaves, l, row)
      /\ queue' = Append(queue, [of |-> <<"leave", l>>, action |-> "created"])
      /\ UNCHANGED <<employees, requests, claims, audit, hrCalls, offers, failures>>
  BY DEF H!CreateLeaveRequest, H!Log, H!NoOffer
<1>2. e \in P!Ids /\ P!Ids = H!Ids
  BY <1>1, PayrollRowTypes DEF P!IsTable, P!Ids, H!Ids
<1>3. row \in H!Leave /\ row.status = "pending"
  BY <1>2 DEF H!Leave
<1>4. Keyed(leaves, l, started')
  BY <1>1, KeyedNext, HrRowTypes
<1> HIDE DEF row, l
<1>5. Decision(row.status) = "created"
  BY <1>3 DEF Decision
<1>6. LeaveWritten(l, row)
  BY <1>1, <1>3, <1>4, <1>5 DEF LeaveWritten
<1>7. started' \in {started, started + 1}
  BY <1>1 DEF H!Request
<1> QED BY <1>1, <1>6, <1>7, HrRequestShared, HrNoNewCall DEF HrEffect, HrWrites

LEMMA CreateClaimStep ==
    ASSUME PayrollRows, HrRows, NEW e, H!CreateExpenseClaim(e)
    PROVE  HrEffect
<1> DEFINE x == H!Fresh(claims)
           row == [employee |-> e, status |-> "pending", vc |-> 0, paidAt |-> FALSE]
<1>1. /\ H!Request /\ e \in DOMAIN employees /\ claims' = H!Put(claims, x, row)
      /\ queue' = Append(queue, [of |-> <<"expense", x>>, action |-> "created"])
      /\ UNCHANGED <<employees, requests, leaves, audit, hrCalls, offers, failures>>
  BY DEF H!CreateExpenseClaim, H!Log, H!NoOffer
<1>2. e \in P!Ids /\ P!Ids = H!Ids
  BY <1>1, PayrollRowTypes DEF P!IsTable, P!Ids, H!Ids
<1>3. row \in H!Claim /\ row.status = "pending"
  BY <1>2 DEF H!Claim
<1>4. Keyed(claims, x, started')
  BY <1>1, KeyedNext, HrRowTypes
<1> HIDE DEF row, x
<1>5. Decision(row.status) = "created"
  BY <1>3 DEF Decision
<1>6. ClaimWritten(x, row)
  BY <1>1, <1>3, <1>4, <1>5 DEF ClaimWritten
<1>7. started' \in {started, started + 1}
  BY <1>1 DEF H!Request
<1> QED BY <1>1, <1>6, <1>7, HrRequestShared, HrNoNewCall DEF HrEffect, HrWrites

\* The requests that decide at once.
LEMMA DecideStep ==
    ASSUME PayrollRows, HrRows,
           \/ \E l : H!RejectLeave(l)
           \/ \E x : \E status \in {"rejected", "paid"} : H!SettleClaim(x, status)
    PROVE  HrEffect
<1>1. /\ H!Request /\ UNCHANGED <<employees, hrCalls, offers, failures>>
  BY DEF H!RejectLeave, H!SettleClaim
<1>2. started' \in {started, started + 1}
  BY <1>1 DEF H!Request
<1>3. HrWrites
  <2>1. CASE \E l : H!RejectLeave(l)
    BY <1>2, <2>1, LeaveDecided DEF H!RejectLeave, H!NoOffer
  <2>2. CASE \E x : \E status \in {"rejected", "paid"} : H!SettleClaim(x, status)
    <3>1. PICK x : \E status \in {"rejected", "paid"} : H!SettleClaim(x, status)
      BY <2>2
    <3>2. PICK status \in {"rejected", "paid"} : H!SettleClaim(x, status)
      BY <3>1
    <3>3. /\ x \in DOMAIN claims /\ H!DecideClaim(x, status, claims[x].vc)
          /\ UNCHANGED <<requests, leaves, audit>>
      BY <3>2 DEF H!SettleClaim
    <3>4. claims[x].vc \in Nat
      BY <3>3, HrRowTypes DEF H!IsTable, H!Claim
    <3> QED BY <1>2, <3>3, <3>4, ClaimDecided
  <2> QED BY <2>1, <2>2
<1> QED BY <1>1, <1>2, <1>3, HrRequestShared, HrNoNewCall DEF HrEffect

\* The approvals, to their await.
LEMMA ApproveStep ==
    ASSUME PayrollRows, HrRows, \/ \E l : H!ApproveLeave(l) \/ \E x : H!ApproveClaim(x)
    PROVE  HrEffect
<1>1. /\ H!Request
      /\ UNCHANGED <<employees, requests, leaves, claims, queue, audit, offers, failures>>
  BY DEF H!ApproveLeave, H!ApproveClaim
<1>2. Len(offers) \in Nat /\ P!Ids = H!Ids
  BY PayrollRowTypes DEF P!Ids, H!Ids
<1>3. HrCallsStep
  <2>1. ASSUME NEW l, H!ApproveLeave(l)
        PROVE  HrCallsStep
    <3> DEFINE call == [op |-> "leave", leave |-> l, since |-> Len(offers)]
    <3>1. l \in DOMAIN leaves /\ H!Begin(call)
      BY <2>1 DEF H!ApproveLeave
    <3>2. l \in P!Ids
      BY <3>1, HrRowTypes DEF H!IsTable
    <3>3. call \in HrCallSet /\ call.op = "leave" /\ call.leave = l
      BY <1>2, <3>2 DEF HrCallSet, H!LeaveCall
    <3> HIDE DEF call
    <3>4. ASSUME NEW c, hrCalls'[c] = call
          PROVE  HrCall(c)'
      BY <1>1, <3>1, <3>3, <3>4 DEF HrCall
    <3> QED BY <1>1, <3>1, <3>3, <3>4, HrNewCall
  <2>2. ASSUME NEW x, H!ApproveClaim(x)
        PROVE  HrCallsStep
    <3> DEFINE call == [op |-> "expense", claim |-> x, since |-> Len(offers)]
    <3>1. x \in DOMAIN claims /\ H!Begin(call)
      BY <2>2 DEF H!ApproveClaim
    <3>2. x \in P!Ids
      BY <3>1, HrRowTypes DEF H!IsTable
    <3>3. call \in HrCallSet /\ call.op = "expense" /\ call.claim = x
      BY <1>2, <3>2 DEF HrCallSet, H!ClaimCall
    <3> HIDE DEF call
    <3>4. ASSUME NEW c, hrCalls'[c] = call
          PROVE  HrCall(c)'
      BY <1>1, <3>1, <3>3, <3>4 DEF HrCall
    <3> QED BY <1>1, <3>1, <3>3, <3>4, HrNewCall
  <2> QED BY <2>1, <2>2
<1> QED BY <1>1, <1>3, HrRequestShared DEF HrEffect, HrWrites

LEMMA LeaveAnswerStep ==
    ASSUME PayrollRows, HrRows, NEW c, H!LeaveOffered(c) \/ H!LeaveRefused(c)
    PROVE  HrEffect
<1>1. PICK l : l = hrCalls[c].leave
  OBVIOUS
<1>2. PICK since : since = hrCalls[c].since
  OBVIOUS
<1>3. PICK type : type = "LeaveApprovalVC"
  OBVIOUS
<1>4. /\ c \in DOMAIN hrCalls /\ hrCalls[c].op = "leave" /\ H!Return(c)
      /\ H!Offered(type, l, since) \/ H!Refused(type, l, since)
      /\ \E vc \in {Len(offers) + 1, 0} : H!DecideLeave(l, "approved", vc)
      /\ UNCHANGED <<employees, requests, claims, audit, started>>
  BY <1>1, <1>2, <1>3 DEF H!LeaveOffered, H!LeaveRefused, H!Awaiting, H!OfferId, H!NoOffer
<1>5. l \in DOMAIN leaves /\ since \in Nat /\ l \in Nat
  <2>1. hrCalls[c] \in H!LeaveCall /\ l \in DOMAIN leaves
    BY <1>1, <1>4, HrCallTypes
  <2> QED BY <1>1, <1>2, <2>1 DEF H!LeaveCall, H!Ids
<1>6. HrWrites
  <2>1. PICK vc \in {Len(offers) + 1, 0} : H!DecideLeave(l, "approved", vc)
    BY <1>4
  <2>2. vc \in Nat
    BY PayrollRowTypes
  <2> QED BY <1>4, <1>5, <2>1, <2>2, LeaveDecided
<1>7. Shared /\ HrOffers /\ HrEmployees
  BY <1>3, <1>4, <1>5, HrAnswerShared
<1>8. HrCallsStep
  BY <1>4, HrNoNewCall
<1> QED BY <1>6, <1>7, <1>8 DEF HrEffect

LEMMA ClaimAnswerStep ==
    ASSUME PayrollRows, HrRows, NEW c, H!ClaimOffered(c) \/ H!ClaimRefused(c)
    PROVE  HrEffect
<1>1. PICK x : x = hrCalls[c].claim
  OBVIOUS
<1>2. PICK since : since = hrCalls[c].since
  OBVIOUS
<1>3. PICK type : type = "ExpenseApprovalVC"
  OBVIOUS
<1>4. /\ c \in DOMAIN hrCalls /\ hrCalls[c].op = "expense" /\ H!Return(c)
      /\ H!Offered(type, x, since) \/ H!Refused(type, x, since)
      /\ \E vc \in {Len(offers) + 1, claims[x].vc} : H!DecideClaim(x, "approved", vc)
      /\ UNCHANGED <<employees, requests, leaves, audit, started>>
  BY <1>1, <1>2, <1>3 DEF H!ClaimOffered, H!ClaimRefused, H!Awaiting, H!OfferId
<1>5. x \in DOMAIN claims /\ since \in Nat /\ x \in Nat
  <2>1. hrCalls[c] \in H!ClaimCall /\ x \in DOMAIN claims
    BY <1>1, <1>4, HrCallTypes
  <2> QED BY <1>1, <1>2, <2>1 DEF H!ClaimCall, H!Ids
<1>6. HrWrites
  <2>1. PICK vc \in {Len(offers) + 1, claims[x].vc} : H!DecideClaim(x, "approved", vc)
    BY <1>4
  <2>2. vc \in Nat
    BY <1>5, PayrollRowTypes, HrRowTypes DEF H!IsTable, H!Claim
  <2> QED BY <1>4, <1>5, <2>1, <2>2, ClaimDecided
<1>7. Shared /\ HrOffers /\ HrEmployees
  BY <1>3, <1>4, <1>5, HrAnswerShared
<1>8. HrCallsStep
  BY <1>4, HrNoNewCall
<1> QED BY <1>6, <1>7, <1>8 DEF HrEffect

LEMMA WriteAuditStep ==
    ASSUME PayrollRows, HrRows, H!WriteAudit
    PROVE  HrEffect
<1>1. /\ UNCHANGED failures \/ (failures < MaxFailures /\ failures' = failures + 1)
      /\ UNCHANGED <<employees, requests, leaves, claims, hrCalls, offers, started>>
  BY DEF H!WriteAudit, H!Failure
<1>2. /\ started \in Nat /\ started \in 0..MaxCalls /\ failures \in Nat
      /\ failures \in 0..MaxFailures /\ MaxFailures \in Nat
  BY HrRowTypes, Bounds
<1>3. failures' \in {failures, failures + 1} /\ failures' \in 0..MaxFailures
  BY <1>1, <1>2
<1>4. Shared
  BY <1>1, <1>2, <1>3 DEF Shared, MoreOffers
<1>5. HrEmployees
  BY <1>1, <1>2, PayrollRowTypes, UptoKept DEF HrEmployees
<1>6. HrCallsStep
  BY <1>1, HrNoNewCall
<1> QED BY <1>1, <1>4, <1>5, <1>6 DEF HrEffect, HrOffers, HrWrites

\* Every step of Hr.
LEMMA HrStepEffect ==
    ASSUME PayrollRows, HrRows, H!Requests \/ H!Answers \/ H!WriteAudit
    PROVE  HrEffect
<1>1. CASE H!Requests
  BY <1>1, CreateRequestStep, UpdateProgressStep, ApproveRequestStep, CreateLeaveStep,
     CreateClaimStep, DecideStep, ApproveStep DEF H!Requests
<1>2. CASE H!Answers
  BY <1>2, ContractStep, LeaveAnswerStep, ClaimAnswerStep DEF H!Answers, H!Answer
<1> QED BY <1>1, <1>2, WriteAuditStep

-----------------------------------------------------------------------------
(* Hr: contracts and the audit trail                                         *)

LEMMA ContractKept ==
    ASSUME HrRows, offers \in Seq(Offer), Shared, HrWrites, ContractNamesEmployee
    PROVE  ContractNamesEmployee'
<1> SUFFICES ASSUME failures' = 0
             PROVE  \A q \in DOMAIN requests' :
                       requests'[q].contract # 0 =>
                           offers'[requests'[q].contract].of = requests'[q].employee
  BY DEF ContractNamesEmployee
<1>1. failures = 0
  BY HrRowTypes DEF Shared
<1>2. /\ Len(offers) \in Nat
      /\ DOMAIN offers = 1..Len(offers) /\ \A i \in DOMAIN offers : offers'[i] = offers[i]
  BY OffersKept DEF Shared
<1>3. ASSUME NEW q \in DOMAIN requests, requests[q].contract # 0
      PROVE  offers'[requests[q].contract].of = requests[q].employee
  <2>1. requests[q].contract \in Nat /\ requests[q].contract <= Len(offers)
    BY HrRowTypes DEF HrRows, HrKeys, H!IsTable, H!OnboardingRequest
  <2>2. requests[q].contract \in DOMAIN offers
    BY <1>2, <1>3, <2>1
  <2> QED BY <1>1, <1>2, <1>3, <2>2 DEF ContractNamesEmployee
<1>4. CASE UNCHANGED requests
  BY <1>3, <1>4
<1>5. CASE \E q, row : RequestWritten(q, row)
  <2>1. PICK q, row : RequestWritten(q, row)
    BY <1>5
  <2>2. /\ DOMAIN requests' = DOMAIN requests \cup {q} /\ requests'[q] = row
        /\ \A k \in DOMAIN requests : k # q => requests'[k] = requests[k]
    BY <2>1 DEF RequestWritten, H!Put
  <2>3. row.contract # 0 => offers'[row.contract].of = row.employee
    <3>1. CASE row.contract = 0
      BY <3>1
    <3>2. CASE /\ q \in DOMAIN requests /\ row.contract = requests[q].contract
               /\ row.employee = requests[q].employee
      BY <1>3, <3>2
    <3>3. CASE /\ row.contract = Len(offers) + 1
               /\ \E o \in Offer : offers' = Append(offers, o) /\ o.of = row.employee
      BY <3>3, OfferAdded
    <3> QED BY <2>1, <3>1, <3>2, <3>3 DEF RequestWritten
  <2> QED BY <1>3, <2>2, <2>3
<1> QED BY <1>4, <1>5 DEF HrWrites, H!WriteAudit, LeaveWritten, ClaimWritten

\* The last entry of a row in a log.
LastIn(log, row, action) ==
    \E i \in DOMAIN log :
       /\ log[i] = [of |-> row, action |-> action]
       /\ \A k \in DOMAIN log : log[k].of = row => k <= i

LEMMA LastAppended ==
    ASSUME NEW log \in Seq(H!Entry), NEW row, NEW action, NEW entry \in H!Entry
    PROVE  /\ entry = [of |-> row, action |-> action] => LastIn(Append(log, entry), row, action)
           /\ entry.of # row /\ LastIn(log, row, action) => LastIn(Append(log, entry), row, action)
<1> DEFINE next == Append(log, entry)
<1>1. /\ Len(log) \in Nat /\ DOMAIN log = 1..Len(log) /\ DOMAIN next = 1..(Len(log) + 1)
      /\ \A i \in DOMAIN log : next[i] = log[i]
      /\ next[Len(log) + 1] = entry
  OBVIOUS
<1> HIDE DEF next
<1>2. ASSUME entry = [of |-> row, action |-> action]
      PROVE  LastIn(next, row, action)
  BY <1>1, <1>2 DEF LastIn
<1>3. ASSUME entry.of # row, LastIn(log, row, action)
      PROVE  LastIn(next, row, action)
  <2>1. PICK i \in DOMAIN log : /\ log[i] = [of |-> row, action |-> action]
                                /\ \A k \in DOMAIN log : log[k].of = row => k <= i
    BY <1>3 DEF LastIn
  <2>2. i \in DOMAIN next /\ next[i] = [of |-> row, action |-> action]
    BY <1>1, <2>1
  <2>3. \A k \in DOMAIN next : next[k].of = row => k <= i
    BY <1>1, <1>3, <2>1
  <2> QED BY <2>2, <2>3 DEF LastIn
<1> QED BY <1>2, <1>3 DEF next

\* The log of a step: as before, or an entry more.
LEMMA LogSteps ==
    ASSUME NEW S, NEW a \in Seq(S), NEW q \in Seq(S), NEW e \in S
    PROVE  /\ a \o q \in Seq(S)
           /\ a \o Append(q, e) = Append(a \o q, e)
           /\ q # <<>> => Append(a, Head(q)) \o Tail(q) = a \o q
<1>1. a \o q \in Seq(S)
  BY ConcatProperties
<1>2. a \o Append(q, e) = Append(a \o q, e)
  <2>1. Append(q, e) = q \o <<e>> /\ Append(a \o q, e) = (a \o q) \o <<e>> /\ <<e>> \in Seq(S)
    BY <1>1, AppendIsConcat
  <2> QED BY <2>1, ConcatAssociative
<1>3. ASSUME q # <<>>
      PROVE  Append(a, Head(q)) \o Tail(q) = a \o q
  <2>1. /\ Head(q) \in S /\ Tail(q) \in Seq(S) /\ Len(Tail(q)) = Len(q) - 1
        /\ \A i \in 1..Len(Tail(q)) : Tail(q)[i] = q[i + 1]
    BY <1>3, HeadTailProperties
  <2>2. Append(a, Head(q)) = a \o <<Head(q)>> /\ <<Head(q)>> \in Seq(S)
    BY <2>1, AppendIsConcat
  <2>3. <<Head(q)>> \o Tail(q) = q
    <3> DEFINE h == <<Head(q)>>
               t == Tail(q)
    <3>1. /\ h \in Seq(S) /\ t \in Seq(S) /\ Len(h) = 1 /\ h[1] = q[1]
          /\ Len(t) = Len(q) - 1 /\ Len(q) \in Nat /\ \A i \in 1..Len(t) : t[i] = q[i + 1]
      BY <2>1
    <3> HIDE DEF h, t
    <3>2. /\ h \o t \in Seq(S) /\ Len(h \o t) = Len(h) + Len(t)
          /\ \A i \in 1..(Len(h) + Len(t)) :
                (h \o t)[i] = IF i <= Len(h) THEN h[i] ELSE t[i - Len(h)]
      <4>1. h \o t \in Seq(S) /\ Len(h \o t) = Len(h) + Len(t)
        BY ONLY <3>1, ConcatProperties
      <4>2. \A i \in 1..(Len(h) + Len(t)) :
               (h \o t)[i] = IF i <= Len(h) THEN h[i] ELSE t[i - Len(h)]
        <5> SUFFICES ASSUME NEW i \in 1..(Len(h) + Len(t))
                     PROVE  (h \o t)[i] = IF i <= Len(h) THEN h[i] ELSE t[i - Len(h)]
          OBVIOUS
        <5> QED BY ONLY <3>1, i \in 1..(Len(h) + Len(t)), ConcatProperties
      <4> QED BY <4>1, <4>2
    <3>3. Len(h \o t) = Len(q)
      BY <3>1, <3>2
    <3>4. \A i \in 1..Len(q) : (h \o t)[i] = q[i]
      BY <3>1, <3>2
    <3> QED BY <3>2, <3>3, <3>4, SeqEqual DEF h, t
  <2> QED BY <2>1, <2>2, <2>3, ConcatAssociative
<1> QED BY <1>1, <1>2, <1>3

\* What the property says, of a log.
Trail(log, leaveRows, claimRows) ==
    /\ \A l \in DOMAIN leaveRows : LastIn(log, <<"leave", l>>, Decision(leaveRows[l].status))
    /\ \A x \in DOMAIN claimRows : LastIn(log, <<"expense", x>>, Decision(claimRows[x].status))

LEMMA TrailMeaning ==
    /\ AuditTrail <=> (failures = 0 => Trail(audit \o queue, leaves, claims))
    /\ AuditTrail' <=> (failures' = 0 => Trail(audit' \o queue', leaves', claims'))
<1>1. AuditTrail <=> (failures = 0 => Trail(audit \o queue, leaves, claims))
  BY DEF AuditTrail, Trail, LastEntry, LastIn
<1>2. AuditTrail' <=> (failures' = 0 => Trail(audit' \o queue', leaves', claims'))
  BY DEF AuditTrail, Trail, LastEntry, LastIn
<1> QED BY <1>1, <1>2

\* A row and its entry are written together.
LEMMA TrailGrows ==
    ASSUME NEW log \in Seq(H!Entry), NEW L, NEW X, Trail(log, L, X),
           NEW key, NEW row, NEW entry \in H!Entry, NEW table
    PROVE  /\ /\ DOMAIN table = DOMAIN L \cup {key} /\ table[key] = row
              /\ \A k \in DOMAIN L : k # key => table[k] = L[k]
              /\ entry = [of |-> <<"leave", key>>, action |-> Decision(row.status)]
              => Trail(Append(log, entry), table, X)
           /\ /\ DOMAIN table = DOMAIN X \cup {key} /\ table[key] = row
              /\ \A k \in DOMAIN X : k # key => table[k] = X[k]
              /\ entry = [of |-> <<"expense", key>>, action |-> Decision(row.status)]
              => Trail(Append(log, entry), L, table)
<1>1. ASSUME NEW l \in DOMAIN L, entry.of # <<"leave", l>>
      PROVE  LastIn(Append(log, entry), <<"leave", l>>, Decision(L[l].status))
  <2> DEFINE action == Decision(L[l].status)
             of == <<"leave", l>>
  <2>1. LastIn(log, of, action) /\ entry.of # of
    BY <1>1 DEF Trail
  <2> HIDE DEF action, of
  <2>2. LastIn(Append(log, entry), of, action)
    BY <2>1, LastAppended
  <2> QED BY <2>2 DEF action, of
<1>2. ASSUME NEW x \in DOMAIN X, entry.of # <<"expense", x>>
      PROVE  LastIn(Append(log, entry), <<"expense", x>>, Decision(X[x].status))
  <2> DEFINE action == Decision(X[x].status)
             of == <<"expense", x>>
  <2>1. LastIn(log, of, action) /\ entry.of # of
    BY <1>2 DEF Trail
  <2> HIDE DEF action, of
  <2>2. LastIn(Append(log, entry), of, action)
    BY <2>1, LastAppended
  <2> QED BY <2>2 DEF action, of
<1>3. ASSUME DOMAIN table = DOMAIN L \cup {key}, table[key] = row,
             \A k \in DOMAIN L : k # key => table[k] = L[k],
             entry = [of |-> <<"leave", key>>, action |-> Decision(row.status)]
      PROVE  Trail(Append(log, entry), table, X)
  <2>1. entry.of = <<"leave", key>>
    BY <1>3
  <2>2. LastIn(Append(log, entry), <<"leave", key>>, Decision(row.status))
    <3> DEFINE action == Decision(row.status)
               of == <<"leave", key>>
    <3>1. entry = [of |-> of, action |-> action]
      BY <1>3
    <3> HIDE DEF action, of
    <3>2. LastIn(Append(log, entry), of, action)
      BY <3>1, LastAppended
    <3> QED BY <3>2 DEF action, of
  <2>3. \A l \in DOMAIN table : LastIn(Append(log, entry), <<"leave", l>>, Decision(table[l].status))
    BY <1>1, <1>3, <2>1, <2>2
  <2>4. \A x \in DOMAIN X : LastIn(Append(log, entry), <<"expense", x>>, Decision(X[x].status))
    <3>1. \A x : entry.of # <<"expense", x>>
      BY <2>1
    <3> QED BY ONLY <1>2, <3>1
  <2> QED BY <2>3, <2>4 DEF Trail
<1>4. ASSUME DOMAIN table = DOMAIN X \cup {key}, table[key] = row,
             \A k \in DOMAIN X : k # key => table[k] = X[k],
             entry = [of |-> <<"expense", key>>, action |-> Decision(row.status)]
      PROVE  Trail(Append(log, entry), L, table)
  <2>1. entry.of = <<"expense", key>>
    BY <1>4
  <2>2. LastIn(Append(log, entry), <<"expense", key>>, Decision(row.status))
    <3> DEFINE action == Decision(row.status)
               of == <<"expense", key>>
    <3>1. entry = [of |-> of, action |-> action]
      BY <1>4
    <3> HIDE DEF action, of
    <3>2. LastIn(Append(log, entry), of, action)
      BY <3>1, LastAppended
    <3> QED BY <3>2 DEF action, of
  <2>3. \A x \in DOMAIN table :
           LastIn(Append(log, entry), <<"expense", x>>, Decision(table[x].status))
    BY <1>2, <1>4, <2>1, <2>2
  <2>4. \A l \in DOMAIN L : LastIn(Append(log, entry), <<"leave", l>>, Decision(L[l].status))
    <3>1. \A l : entry.of # <<"leave", l>>
      BY <2>1
    <3> QED BY ONLY <1>1, <3>1
  <2> QED BY <2>3, <2>4 DEF Trail
<1> QED BY <1>3, <1>4

LEMMA AuditKept ==
    ASSUME HrRows, offers \in Seq(Offer), Shared, HrWrites, HrRows', AuditTrail
    PROVE  AuditTrail'
<1> SUFFICES ASSUME failures' = 0
             PROVE  Trail(audit' \o queue', leaves', claims')
  BY TrailMeaning
<1>1. failures = 0 /\ queue \in Seq(H!Entry) /\ audit \in Seq(H!Entry)
  BY HrRowTypes DEF Shared
<1>2. Trail(audit \o queue, leaves, claims)
  BY <1>1, TrailMeaning
<1>3. CASE UNCHANGED <<leaves, claims, queue, audit>>
  BY <1>2, <1>3
<1>4. CASE H!WriteAudit
  <2>1. queue # <<>> /\ queue' = Tail(queue) /\ audit' = Append(audit, Head(queue))
        /\ UNCHANGED <<leaves, claims>>
    BY <1>1, <1>4 DEF H!WriteAudit, H!Failure
  <2>2. Head(queue) \in H!Entry
    BY <1>1, <2>1, EntriesLeft
  <2>3. audit' \o queue' = audit \o queue
    BY <1>1, <2>1, <2>2, LogSteps
  <2> QED BY <1>2, <2>1, <2>3
<1>5. CASE \E l, row : LeaveWritten(l, row)
  <2>1. PICK l, row : LeaveWritten(l, row)
    BY <1>5
  <2>2. PICK entry : entry = [of |-> <<"leave", l>>, action |-> Decision(row.status)]
    OBVIOUS
  <2>3. /\ queue' = Append(queue, entry) /\ audit' = audit /\ claims' = claims
        /\ DOMAIN leaves' = DOMAIN leaves \cup {l} /\ leaves'[l] = row
        /\ \A k \in DOMAIN leaves : k # l => leaves'[k] = leaves[k]
    BY <2>1, <2>2 DEF LeaveWritten, H!Put
  <2>4. entry \in H!Entry
    <3>1. row.status \in {"pending", "approved", "rejected", "paid"} /\ l \in P!Ids
      BY <2>1 DEF LeaveWritten, Keyed, H!Leave
    <3>2. Decision(row.status) \in {"created", "approved", "rejected", "paid"}
      BY <3>1, DecisionNames
    <3>3. <<"leave", l>> \in {"leave", "expense"} \X H!Ids
      BY <3>1 DEF H!Ids, P!Ids
    <3> QED BY <2>2, <3>2, <3>3 DEF H!Entry
  <2>5. audit' \o queue' = Append(audit \o queue, entry) /\ audit \o queue \in Seq(H!Entry)
    BY <1>1, <2>3, <2>4, LogSteps
  <2>6. PICK log : log = audit \o queue
    OBVIOUS
  <2>7. log \in Seq(H!Entry) /\ Trail(log, leaves, claims)
    BY <1>2, <2>5, <2>6
  <2>8. Trail(Append(log, entry), leaves', claims')
    BY ONLY <2>2, <2>3, <2>4, <2>7, TrailGrows
  <2> QED BY <2>5, <2>6, <2>8
<1>6. CASE \E x, row : ClaimWritten(x, row)
  <2>1. PICK x, row : ClaimWritten(x, row)
    BY <1>6
  <2>2. PICK entry : entry = [of |-> <<"expense", x>>, action |-> Decision(row.status)]
    OBVIOUS
  <2>3. /\ queue' = Append(queue, entry) /\ audit' = audit /\ leaves' = leaves
        /\ DOMAIN claims' = DOMAIN claims \cup {x} /\ claims'[x] = row
        /\ \A k \in DOMAIN claims : k # x => claims'[k] = claims[k]
    BY <2>1, <2>2 DEF ClaimWritten, H!Put
  <2>4. entry \in H!Entry
    <3>1. row.status \in {"pending", "approved", "rejected", "paid"} /\ x \in P!Ids
      BY <2>1 DEF ClaimWritten, Keyed, H!Claim
    <3>2. Decision(row.status) \in {"created", "approved", "rejected", "paid"}
      BY <3>1, DecisionNames
    <3>3. <<"expense", x>> \in {"leave", "expense"} \X H!Ids
      BY <3>1 DEF H!Ids, P!Ids
    <3> QED BY <2>2, <3>2, <3>3 DEF H!Entry
  <2>5. audit' \o queue' = Append(audit \o queue, entry) /\ audit \o queue \in Seq(H!Entry)
    BY <1>1, <2>3, <2>4, LogSteps
  <2>6. PICK log : log = audit \o queue
    OBVIOUS
  <2>7. log \in Seq(H!Entry) /\ Trail(log, leaves, claims)
    BY <1>2, <2>5, <2>6
  <2>8. Trail(Append(log, entry), leaves', claims')
    BY ONLY <2>2, <2>3, <2>4, <2>7, TrailGrows
  <2> QED BY <2>5, <2>6, <2>8
<1> QED BY <1>3, <1>4, <1>5, <1>6 DEF HrWrites, RequestWritten

\* What Hr keeps, whoever takes the step.
LEMMA HrInvKept ==
    ASSUME HrInv, offers \in Seq(Offer), Shared, HrWrites, HrCallsStep
    PROVE  HrInv'
BY HrRowsKept, ContractKept, AuditKept DEF HrInv

-----------------------------------------------------------------------------
(* The registry of credentials                                               *)

\* What a history says of a session after n of its steps.
ToldIn(h, s, n) == {i \in DOMAIN h : i <= n /\ h[i].session = s /\ h[i].what # "lost"}
RevokedIn(h, s, n) ==
    /\ \E i \in ToldIn(h, s, n) : h[i].what = "saved"
    /\ \E i \in ToldIn(h, s, n) :
          h[i].what = "revoked" /\ \A k \in ToldIn(h, s, n) : k <= i

LEMMA RevokedMeaning ==
    /\ \A s, n : C!RevokedBy(s, n) <=> RevokedIn(history, s, n)
    /\ \A s, n : C!RevokedBy(s, n)' <=> RevokedIn(history', s, n)
<1>1. \A s, n : C!RevokedBy(s, n) <=> RevokedIn(history, s, n)
  BY DEF C!RevokedBy, RevokedIn, C!Told, ToldIn
<1>2. \A s, n : C!RevokedBy(s, n)' <=> RevokedIn(history', s, n)
  BY DEF C!RevokedBy, RevokedIn, C!Told, ToldIn
<1> QED BY <1>1, <1>2

\* A step of history leaves what was said before, and says this of its own session.
LEMMA HistoryGrows ==
    ASSUME NEW h \in Seq(C!Event), NEW e \in C!Event, NEW s
    PROVE  /\ \A n \in Nat : n <= Len(h) =>
                 (RevokedIn(Append(h, e), s, n) <=> RevokedIn(h, s, n))
           /\ RevokedIn(Append(h, e), s, Len(h) + 1) <=>
                 IF e.session # s \/ e.what = "lost" THEN RevokedIn(h, s, Len(h))
                 ELSE /\ e.what = "revoked"
                      /\ \E i \in DOMAIN h : h[i].session = s /\ h[i].what = "saved"
<1> DEFINE next == Append(h, e)
           m == Len(h) + 1
<1>1. /\ Len(h) \in Nat /\ DOMAIN h = 1..Len(h) /\ DOMAIN next = 1..m
      /\ \A i \in DOMAIN h : next[i] = h[i]
      /\ next[m] = e
  OBVIOUS
<1>2. /\ m \in Nat /\ m = Len(h) + 1
      /\ \A i : i \in DOMAIN next <=> i \in DOMAIN h \/ i = m
      /\ \A i \in DOMAIN h : i \in Nat /\ i <= Len(h) /\ i <= m /\ ~(m <= i)
  BY <1>1
<1> HIDE DEF next, m
<1>3. ASSUME NEW n \in Nat, n <= Len(h)
      PROVE  RevokedIn(next, s, n) <=> RevokedIn(h, s, n)
  <2>1. \A i : i \in ToldIn(next, s, n) <=> i \in ToldIn(h, s, n)
    BY <1>1, <1>2, <1>3 DEF ToldIn
  <2>2. \A i \in ToldIn(h, s, n) : next[i] = h[i]
    BY <1>1 DEF ToldIn
  <2> QED BY <2>1, <2>2 DEF RevokedIn
<1>4. CASE e.session # s \/ e.what = "lost"
  <2>1. \A i : i \in ToldIn(next, s, m) <=> i \in ToldIn(h, s, Len(h))
    BY <1>1, <1>2, <1>4 DEF ToldIn
  <2>2. \A i \in ToldIn(h, s, Len(h)) : next[i] = h[i]
    BY <1>1 DEF ToldIn
  <2>3. RevokedIn(next, s, m) <=> RevokedIn(h, s, Len(h))
    BY <2>1, <2>2 DEF RevokedIn
  <2> QED BY <1>3, <1>4, <2>3 DEF next, m
<1>5. CASE e.session = s /\ e.what # "lost"
  <2>1. m \in ToldIn(next, s, m)
    BY <1>1, <1>2, <1>5 DEF ToldIn
  <2>2. \A k \in ToldIn(next, s, m) : k <= m
    BY DEF ToldIn
  <2>3. (\E i \in ToldIn(next, s, m) : next[i].what = "revoked"
                                       /\ \A k \in ToldIn(next, s, m) : k <= i)
        <=> e.what = "revoked"
    <3>1. \A i \in ToldIn(next, s, m) : m <= i => i = m
      BY <1>2 DEF ToldIn
    <3> QED BY <1>1, <2>1, <2>2, <3>1
  <2>4. e.what = "revoked" =>
           ((\E i \in ToldIn(next, s, m) : next[i].what = "saved")
            <=> \E i \in DOMAIN h : h[i].session = s /\ h[i].what = "saved")
    BY <1>1, <1>2 DEF ToldIn
  <2>5. RevokedIn(next, s, m) <=>
           /\ e.what = "revoked"
           /\ \E i \in DOMAIN h : h[i].session = s /\ h[i].what = "saved"
    BY <2>3, <2>4 DEF RevokedIn
  <2> QED BY <1>3, <1>5, <2>5 DEF next, m
<1> QED BY <1>4, <1>5

\* What a step of history does to the registry.
RegistryWritten ==
    \/ UNCHANGED <<registry, history>>
    \/ \E e \in C!Event :
          /\ history' = Append(history, e)
          /\ \/ e.what = "saved" /\ registry' = C!Put(registry, e.session, FALSE)
             \/ e.what = "lost" /\ registry' = registry
             \/ /\ e.what = "revoked"
                /\ registry' = IF e.session \in DOMAIN registry
                               THEN C!Put(registry, e.session, TRUE) ELSE registry

LEMMA RegistryWrites ==
    ASSUME RegistryInv, RegistryWritten
    PROVE  /\ history' \in Seq(C!Event) /\ C!IsTable(registry', C!Session, BOOLEAN)
           /\ Len(history) \in Nat /\ Len(history') \in Nat /\ Len(history) <= Len(history')
           /\ \A s, n : n \in Nat /\ n <= Len(history) => (C!RevokedBy(s, n)' <=> C!RevokedBy(s, n))
           /\ \A s \in C!Session :
                 /\ s \in DOMAIN registry' <=>
                       \E i \in DOMAIN history' : history'[i] = [what |-> "saved", session |-> s]
                 /\ s \in DOMAIN registry' /\ registry'[s] <=> RevokedIn(history', s, Len(history'))
<1>1. /\ history \in Seq(C!Event) /\ C!IsTable(registry, C!Session, BOOLEAN)
      /\ Len(history) \in Nat
      /\ \A s \in C!Session :
            /\ s \in DOMAIN registry <=>
                  \E i \in DOMAIN history : history[i] = [what |-> "saved", session |-> s]
            /\ s \in DOMAIN registry /\ registry[s] <=> RevokedIn(history, s, Len(history))
  <2>1. history \in Seq(C!Event) /\ C!IsTable(registry, C!Session, BOOLEAN)
    BY DEF RegistryInv, C!CredentialTypeOK
  <2>2. Len(history) \in Nat
    BY <2>1
  <2>3. \A s \in C!Session :
           /\ s \in DOMAIN registry <=>
                 \E i \in DOMAIN history : history[i] = [what |-> "saved", session |-> s]
           /\ s \in DOMAIN registry /\ registry[s] <=> RevokedIn(history, s, Len(history))
    BY RevokedMeaning DEF RegistryInv, RegistryTold, C!IsRevoked
  <2> QED BY <2>1, <2>2, <2>3
<1>2. CASE UNCHANGED <<registry, history>>
  <2>1. \A s, n : C!RevokedBy(s, n)' <=> C!RevokedBy(s, n)
    BY <1>2, RevokedMeaning
  <2> QED BY <1>1, <1>2, <2>1
<1>3. CASE ~UNCHANGED <<registry, history>>
  <2>1. PICK e \in C!Event :
           /\ history' = Append(history, e)
           /\ \/ e.what = "saved" /\ registry' = C!Put(registry, e.session, FALSE)
              \/ e.what = "lost" /\ registry' = registry
              \/ /\ e.what = "revoked"
                 /\ registry' = IF e.session \in DOMAIN registry
                                THEN C!Put(registry, e.session, TRUE) ELSE registry
    BY <1>3 DEF RegistryWritten
  <2>2. /\ history' \in Seq(C!Event) /\ Len(history') = Len(history) + 1
        /\ DOMAIN history = 1..Len(history) /\ DOMAIN history' = 1..(Len(history) + 1)
        /\ \A i \in DOMAIN history : history'[i] = history[i]
        /\ history'[Len(history) + 1] = e
    BY <1>1, <2>1
  <2>3. e.session \in C!Session /\ e.what \in {"saved", "lost", "revoked"}
        /\ e = [what |-> e.what, session |-> e.session]
    BY DEF C!Event
  <2>4. C!IsTable(registry', C!Session, BOOLEAN)
    <3>1. C!IsTable(C!Put(registry, e.session, FALSE), C!Session, BOOLEAN)
      BY ONLY <1>1, <2>3, RegistryTables
    <3>2. C!IsTable(C!Put(registry, e.session, TRUE), C!Session, BOOLEAN)
      BY ONLY <1>1, <2>3, RegistryTables
    <3> QED BY <1>1, <2>1, <3>1, <3>2
  <2>5. \A s, n : n \in Nat /\ n <= Len(history) => (C!RevokedBy(s, n)' <=> C!RevokedBy(s, n))
    <3>1. \A s, n : n \in Nat /\ n <= Len(history) =>
             (RevokedIn(history', s, n) <=> RevokedIn(history, s, n))
      BY <1>1, <2>1, HistoryGrows
    <3> QED BY <3>1, RevokedMeaning
  <2>6. ASSUME NEW s \in C!Session
        PROVE  /\ s \in DOMAIN registry' <=>
                     \E i \in DOMAIN history' : history'[i] = [what |-> "saved", session |-> s]
               /\ s \in DOMAIN registry' /\ registry'[s] <=> RevokedIn(history', s, Len(history'))
    <3>1. /\ e.what # "saved" \/ e.session # s => (s \in DOMAIN registry' <=> s \in DOMAIN registry)
          /\ e.what = "saved" /\ e.session = s => s \in DOMAIN registry' /\ ~registry'[s]
          /\ e.what = "revoked" /\ e.session = s /\ s \in DOMAIN registry => registry'[s]
          /\ e.what = "lost" \/ e.session # s =>
                (s \in DOMAIN registry => registry'[s] = registry[s])
      BY <2>1 DEF C!Put
    <3>2. s \in DOMAIN registry' <=>
             \E i \in DOMAIN history' : history'[i] = [what |-> "saved", session |-> s]
      <4>1. \A i : i \in DOMAIN history' <=> i \in DOMAIN history \/ i = Len(history) + 1
        BY <1>1, <2>2
      <4>2. e = [what |-> "saved", session |-> s] <=> e.what = "saved" /\ e.session = s
        BY <2>3
      <4> HIDE DEF C!Event
      <4>3. s \in DOMAIN registry <=>
               \E i \in DOMAIN history : history[i] = [what |-> "saved", session |-> s]
        BY <1>1
      <4>4. (\E i \in DOMAIN history' : history'[i] = [what |-> "saved", session |-> s])
            <=> \/ \E i \in DOMAIN history : history[i] = [what |-> "saved", session |-> s]
                \/ e = [what |-> "saved", session |-> s]
        BY <2>2, <4>1
      <4> QED BY <3>1, <4>2, <4>3, <4>4
    <3>3. RevokedIn(history', s, Len(history) + 1) <=>
             IF e.session # s \/ e.what = "lost" THEN RevokedIn(history, s, Len(history))
             ELSE /\ e.what = "revoked"
                  /\ \E i \in DOMAIN history : history[i].session = s /\ history[i].what = "saved"
      BY <1>1, <2>1, HistoryGrows
    <3>4. (\E i \in DOMAIN history : history[i].session = s /\ history[i].what = "saved")
          <=> s \in DOMAIN registry
      <4>1. \A i \in DOMAIN history : history[i] = [what |-> "saved", session |-> s]
                                      <=> history[i].session = s /\ history[i].what = "saved"
        <5>1. \A i \in DOMAIN history : history[i] \in C!Event
          BY <1>1
        <5>2. \A a \in C!Event :
                 a = [what |-> "saved", session |-> s] <=> a.session = s /\ a.what = "saved"
          BY DEF C!Event
        <5> QED BY <5>1, <5>2
      <4> QED BY <1>1, <4>1
    <3>5. s \in DOMAIN registry /\ registry[s] <=> RevokedIn(history, s, Len(history))
      BY <1>1
    <3> HIDE DEF RevokedIn
    <3>6. s \in DOMAIN registry' /\ registry'[s] <=> RevokedIn(history', s, Len(history) + 1)
      BY <2>3, <3>1, <3>3, <3>4, <3>5
    <3> QED BY <2>2, <3>2, <3>6
  <2> QED BY <1>1, <2>2, <2>4, <2>5, <2>6
<1> QED BY <1>2, <1>3

LEMMA RegistryInvKept ==
    ASSUME RegistryInv, RegistryWritten, portal' \in Seq(OfferSizes),
           C!IsTable(checks', 1..MaxChecks, SUBSET C!Session),
           \/ verdicts' = verdicts
           \/ /\ UNCHANGED <<registry, history>>
              /\ \E of \in SUBSET C!Session :
                    verdicts' = verdicts \cup
                       {[of |-> of, revoked |-> C!RevokedIds(of), at |-> Len(history)]}
    PROVE  RegistryInv'
<1>1. /\ history' \in Seq(C!Event) /\ C!IsTable(registry', C!Session, BOOLEAN)
      /\ Len(history) \in Nat /\ Len(history') \in Nat /\ Len(history) <= Len(history')
      /\ \A s, n : n \in Nat /\ n <= Len(history) => (C!RevokedBy(s, n)' <=> C!RevokedBy(s, n))
      /\ \A s \in C!Session :
            /\ s \in DOMAIN registry' <=>
                  \E i \in DOMAIN history' : history'[i] = [what |-> "saved", session |-> s]
            /\ s \in DOMAIN registry' /\ registry'[s] <=> RevokedIn(history', s, Len(history'))
  BY RegistryWrites
<1>2. /\ \A v \in verdicts :
            /\ v \in C!Verdict /\ v.revoked \subseteq v.of /\ v.at <= Len(history) /\ v.at \in Nat
            /\ \A s \in v.of : s \in v.revoked <=> C!RevokedBy(s, v.at)
  BY DEF RegistryInv, C!CredentialTypeOK, C!Verdict, RegistryTold, RevocationsHonoured,
         C!RevocationsHonoured
<1>3. \A s \in C!Session : C!IsRevoked(s) <=> C!RevokedBy(s, Len(history))
  BY DEF RegistryInv, RegistryTold
<1>4. ASSUME NEW v \in verdicts'
      PROVE  /\ v \in C!Verdict /\ v.revoked \subseteq v.of /\ v.at <= Len(history')
             /\ \A s \in v.of : s \in v.revoked <=> C!RevokedBy(s, v.at)'
  <2>1. CASE v \in verdicts
    <3>1. v.at <= Len(history')
      BY <1>1, <1>2, <2>1
    <3>2. \A s \in v.of : s \in v.revoked <=> C!RevokedBy(s, v.at)'
      BY <1>1, <1>2, <2>1
    <3> QED BY <1>2, <2>1, <3>1, <3>2
  <2>2. CASE v \notin verdicts
    <3>1. UNCHANGED <<registry, history>>
      BY <2>2
    <3>2. PICK of \in SUBSET C!Session :
             v = [of |-> of, revoked |-> C!RevokedIds(of), at |-> Len(history)]
      BY <2>2
    <3>3. \A s : s \in C!RevokedIds(of) <=> s \in of /\ C!IsRevoked(s)
      BY DEF C!RevokedIds
    <3> HIDE DEF C!RevokedIds
    <3>4. v.of = of /\ v.revoked = C!RevokedIds(of) /\ v.at = Len(history)
      BY <3>2
    <3>5. v \in C!Verdict /\ v.revoked \subseteq v.of
      <4>1. C!RevokedIds(of) \in SUBSET of /\ C!RevokedIds(of) \in SUBSET C!Session
        BY <3>3
      <4> QED BY <1>1, <3>2, <3>4, <4>1 DEF C!Verdict
    <3>6. \A s \in of : s \in C!RevokedIds(of) <=> C!RevokedBy(s, Len(history))
      BY <1>3, <3>3
    <3>7. \A s \in v.of : s \in v.revoked <=> C!RevokedBy(s, v.at)'
      BY <1>1, <3>4, <3>6
    <3> QED BY <1>1, <3>4, <3>5, <3>7
  <2> QED BY <2>1, <2>2
<1>5. C!CredentialTypeOK'
  BY <1>1, <1>4 DEF C!CredentialTypeOK
<1>6. RegistryTold'
  <2>1. ASSUME NEW s \in C!Session
        PROVE  C!IsRevoked(s)' <=> C!RevokedBy(s, Len(history))'
    <3>1. PICK n : n = Len(history')
      OBVIOUS
    <3>2. C!RevokedBy(s, n)' <=> RevokedIn(history', s, n)
      BY RevokedMeaning
    <3>3. C!IsRevoked(s)' <=> RevokedIn(history', s, n)
      BY <1>1, <3>1 DEF C!IsRevoked
    <3>4. C!RevokedBy(s, n)' <=> C!RevokedBy(s, Len(history))'
      BY <3>1 DEF C!RevokedBy, C!Told
    <3> QED BY <3>2, <3>3, <3>4
  <2> QED BY <1>1, <1>4, <2>1 DEF RegistryTold
<1>7. RevocationsHonoured'
  BY <1>4 DEF RevocationsHonoured, C!RevocationsHonoured
<1> QED BY <1>5, <1>6, <1>7 DEF RegistryInv

\* The sessions that steps are about.
LEMMA SessionTypes ==
    ASSUME RegistryInv, offers \in Seq(Offer)
    PROVE  C!Sessions \subseteq C!Session
<1>1. DOMAIN offers \subseteq Nat /\ DOMAIN portal \subseteq Nat
  BY DEF RegistryInv, C!CredentialTypeOK
<1> QED BY <1>1 DEF C!Sessions, C!Session

\* What others leave to the registry.
LEMMA RegistryWaits ==
    ASSUME RegistryInv, UNCHANGED <<portal, registry, history, verdicts>>,
           UNCHANGED checks \/ checks' = C!EmptyTable
    PROVE  RegistryInv'
<1>1. C!IsTable(checks', 1..MaxChecks, SUBSET C!Session)
  BY DEF RegistryInv, C!CredentialTypeOK, C!IsTable, C!EmptyTable
<1>2. portal' \in Seq(OfferSizes)
  BY DEF RegistryInv, C!CredentialTypeOK
<1> QED BY <1>1, <1>2, RegistryInvKept DEF RegistryWritten

LEMMA RegistryInvNext ==
    ASSUME RegistryInv, offers \in Seq(Offer), C!CredentialNext
    PROVE  RegistryInv'
<1>1. /\ portal \in Seq(OfferSizes) /\ C!IsTable(checks, 1..MaxChecks, SUBSET C!Session)
      /\ Len(history) \in Nat
  BY DEF RegistryInv, C!CredentialTypeOK
<1>2. C!Sessions \subseteq C!Session
  BY SessionTypes
<1>3. ASSUME NEW n \in OfferSizes, C!CreateCredentialOffer(n)
      PROVE  RegistryInv'
  <2>1. portal' = Append(portal, n) /\ UNCHANGED <<registry, history, checks, verdicts>>
    BY <1>3 DEF C!CreateCredentialOffer
  <2>2. portal' \in Seq(OfferSizes)
    BY <1>1, <1>3, <2>1
  <2> QED BY <1>1, <2>1, <2>2, RegistryInvKept DEF RegistryWritten
<1>4. ASSUME NEW s \in C!Sessions, C!CredentialMapper(s) \/ C!RevokeCredential(s)
      PROVE  RegistryInv'
  <2>1. UNCHANGED <<portal, checks, verdicts>>
    BY <1>4 DEF C!CredentialMapper, C!RevokeCredential
  <2>2. RegistryWritten
    <3> DEFINE saved == [what |-> "saved", session |-> s]
               lost == [what |-> "lost", session |-> s]
               revoked == [what |-> "revoked", session |-> s]
    <3>1. \/ history' = Append(history, saved) /\ registry' = C!Put(registry, s, FALSE)
          \/ history' = Append(history, lost) /\ registry' = registry
          \/ /\ history' = Append(history, revoked)
             /\ registry' = IF s \in DOMAIN registry THEN C!Put(registry, s, TRUE) ELSE registry
      BY <1>4 DEF C!CredentialMapper, C!RevokeCredential, C!Save, C!Happened
    <3>2. /\ saved \in C!Event /\ saved.what = "saved" /\ saved.session = s
          /\ lost \in C!Event /\ lost.what = "lost" /\ lost.session = s
          /\ revoked \in C!Event /\ revoked.what = "revoked" /\ revoked.session = s
      BY <1>2 DEF C!Event
    <3> HIDE DEF saved, lost, revoked
    <3> QED BY <3>1, <3>2 DEF RegistryWritten
  <2> QED BY <1>1, <2>1, <2>2, RegistryInvKept
<1>5. ASSUME NEW c \in 1..MaxChecks, NEW presented \in SUBSET C!Sessions,
             C!VerifyPresentation(c, presented)
      PROVE  RegistryInv'
  <2>1. /\ checks' = C!Put(checks, c, presented)
        /\ UNCHANGED <<portal, registry, history, verdicts>>
    BY <1>5 DEF C!VerifyPresentation
  <2>2. presented \in SUBSET C!Session
    BY <1>2
  <2>3. C!IsTable(C!Put(checks, c, presented), 1..MaxChecks, SUBSET C!Session)
    BY ONLY <1>1, <2>2, c \in 1..MaxChecks, RegistryTables
  <2> QED BY <1>1, <2>1, <2>3, RegistryInvKept DEF RegistryWritten
<1>6. ASSUME NEW c \in DOMAIN checks, C!PresentationVerified(c) \/ C!PresentationRejected(c)
      PROVE  RegistryInv'
  <2>1. /\ checks' = C!Without(checks, {c}) /\ UNCHANGED <<portal, registry, history>>
        /\ \/ verdicts' = verdicts
           \/ verdicts' = verdicts \cup {[of |-> checks[c], revoked |-> C!RevokedIds(checks[c]),
                                          at |-> Len(history)]}
    BY <1>6 DEF C!PresentationVerified, C!PresentationRejected
  <2>2. C!IsTable(checks', 1..MaxChecks, SUBSET C!Session)
    BY <1>1, <2>1 DEF C!IsTable, C!Without
  <2>3. checks[c] \in SUBSET C!Session
    BY <1>1 DEF C!IsTable
  <2>4. PICK of : of = checks[c]
    OBVIOUS
  <2> QED BY <1>1, <2>1, <2>2, <2>3, <2>4, RegistryInvKept DEF RegistryWritten
<1> QED BY <1>3, <1>4, <1>5, <1>6 DEF C!CredentialNext

-----------------------------------------------------------------------------
(* The components together                                                   *)

\* A step of payroll, for the others.
LEMMA PayrollShared ==
    ASSUME PayrollRows, P!Requests \/ P!Answers
    PROVE  Shared
<1>1. /\ started \in Nat /\ started \in 0..MaxCalls /\ MaxCalls \in Nat
      /\ failures \in Nat /\ failures \in 0..MaxFailures /\ MaxFailures \in Nat
  BY Bounds, PayrollRowTypes DEF P!TypeOK
<1>2. CASE P!Requests
  <2>1. P!Request /\ UNCHANGED <<offers, failures>>
    BY <1>2, CalculateAdds DEF P!Requests, P!SaveEmployee, P!IssuePayslips, P!ProcessRunPayout,
       P!IssueTaxComplianceVC, P!UpdateTaxComplianceStatus
  <2>2. \/ UNCHANGED employees
        \/ \E row : employees' = P!Put(employees, P!Fresh(employees), row)
    BY <1>2, CalculateAdds DEF P!Requests, P!SaveEmployee, P!IssuePayslips, P!ProcessRunPayout,
       P!IssueTaxComplianceVC, P!UpdateTaxComplianceStatus
  <2>3. P!Fresh(employees) \notin DOMAIN employees
    BY <2>1, PayrollFresh, PayrollRowTypes
  <2>4. \A e \in DOMAIN employees : e \in DOMAIN employees' /\ employees'[e] = employees[e]
    BY <2>2, <2>3 DEF P!Put
  <2> QED BY <1>1, <2>1, <2>4 DEF Shared, MoreOffers, P!Request
<1>3. CASE P!Answers
  <2>1. PICK c : P!Answer(c)
    BY <1>3 DEF P!Answers
  <2>2. /\ UNCHANGED <<employees, started>>
        /\ UNCHANGED failures \/ (failures < MaxFailures /\ failures' = failures + 1)
    BY <2>1 DEF P!Answer, P!SlipOffered, P!SlipRefused, P!Disburse, P!RunOffered, P!RunRefused,
       P!FilingOffered, P!FilingRefused, P!PayoutEnds, P!Offered, P!Refused, P!Failure
  <2>3. MoreOffers
    <3>1. \/ \E s : P!SlipOffered(c, s) \/ P!SlipRefused(c, s)
          \/ \E s : P!Disburse(c, s)
          \/ P!RunOffered(c) \/ P!RunRefused(c) \/ P!PayoutEnds(c)
          \/ P!FilingOffered(c) \/ P!FilingRefused(c)
      BY <2>1 DEF P!Answer
    <3>2. CASE \E s : P!Disburse(c, s)
      BY <3>2 DEF P!Disburse, MoreOffers
    <3>3. NoSlipOffer => MoreOffers
      BY DEF NoSlipOffer, MoreOffers
    <3> QED BY <3>1, <3>2, <3>3, SlipAnswerOffers, ReturnOffers
  <2>4. failures' \in {failures, failures + 1} /\ failures' \in 0..MaxFailures
    BY <1>1, <2>2
  <2> QED BY <1>1, <2>2, <2>3, <2>4 DEF Shared
<1> QED BY <1>2, <1>3

\* Steps of the registry and crashes, for the others.
LEMMA QuietStep ==
    ASSUME PayrollRows, HrRows, UNCHANGED <<employees, runs, payslips, filings, disbursed, offers>>,
           UNCHANGED payCalls \/ payCalls' = P!EmptyTable,
           started' = started \/ (started < MaxCalls /\ started' = started + 1),
           UNCHANGED failures \/ (failures < MaxFailures /\ failures' = failures + 1),
           UNCHANGED <<requests, leaves, claims, audit>>,
           \/ UNCHANGED <<hrCalls, queue>>
           \/ failures' # failures /\ hrCalls' = H!EmptyTable /\ queue' = <<>>
    PROVE  OthersStep /\ Shared /\ HrWrites /\ HrCallsStep
<1>1. /\ started \in Nat /\ started \in 0..MaxCalls /\ MaxCalls \in Nat
      /\ failures \in Nat /\ failures \in 0..MaxFailures /\ MaxFailures \in Nat
  BY HrRowTypes, Bounds
<1>2. /\ started' \in {started, started + 1} /\ started' \in 0..MaxCalls
      /\ failures' \in {failures, failures + 1} /\ failures' \in 0..MaxFailures
      /\ failures' # failures => failures' # 0
  BY <1>1
<1>3. Shared
  BY <1>2 DEF Shared, MoreOffers
<1>4. P!IsTable(employees', P!Ids, P!Employee) /\ Upto(employees', started')
  BY <1>1, <1>2, PayrollRowTypes, UptoKept
<1>5. OthersStep
  BY <1>2, <1>4 DEF OthersStep
<1>6. HrWrites
  BY <1>2 DEF HrWrites
<1>7. HrCallsStep
  <2>1. HrCallsThen({})
    BY <1>2, HrCallsWait
  <2> QED BY <2>1 DEF HrCallsStep
<1> QED BY <1>3, <1>5, <1>6, <1>7

\* A step of each component is a step for all of them.
LEMMA StepOfAll ==
    ASSUME IInv, [Next]_vars
    PROVE  /\ P!Requests \/ P!Answers \/ OthersStep
           /\ Shared /\ HrWrites /\ HrCallsStep /\ RegistryInv'
<1>1. PayrollRows /\ HrRows /\ RegistryInv /\ offers \in Seq(Offer)
  BY PayrollRowTypes DEF IInv, PayrollInv, HrInv
<1>2. CASE PayrollStep
  <2>1. (P!Requests \/ P!Answers) /\ UNCHANGED hrVars /\ UNCHANGED registryVars
    BY <1>2 DEF PayrollStep, OnlyPayroll
  <2>2. Shared
    BY <1>1, <2>1, PayrollShared
  <2>3. HrWrites
    BY <2>1 DEF HrWrites, hrVars
  <2>4. HrCallsStep
    BY <1>1, <2>1, <2>2, HrNoNewCall DEF hrVars, Shared
  <2>5. RegistryInv'
    BY <1>1, <2>1, RegistryWaits DEF registryVars
  <2> QED BY <2>1, <2>2, <2>3, <2>4, <2>5
<1>3. CASE HrStep
  <2>1. (H!Requests \/ H!Answers \/ H!WriteAudit) /\ UNCHANGED payrollVars /\ UNCHANGED registryVars
    BY <1>3 DEF HrStep, OnlyHr
  <2>2. HrEffect
    BY <1>1, <2>1, HrStepEffect
  <2>3. OthersStep
    <3>1. failures' \in 0..MaxFailures /\ DOMAIN employees \subseteq DOMAIN employees'
      BY <2>2 DEF HrEffect, Shared
    <3> QED BY <2>1, <2>2, <3>1 DEF HrEffect, Shared, HrOffers, HrEmployees, OthersStep, payrollVars
  <2>4. RegistryInv'
    BY <1>1, <2>1, RegistryWaits DEF registryVars
  <2> QED BY <2>2, <2>3, <2>4 DEF HrEffect
<1>4. CASE RegistryStep
  <2>1. C!CredentialNext /\ UNCHANGED employees /\ UNCHANGED payrollVars /\ UNCHANGED hrVars
    BY <1>4 DEF RegistryStep, OnlyRegistry
  <2>2. /\ UNCHANGED offers
        /\ started' = started \/ (started < MaxCalls /\ started' = started + 1)
        /\ UNCHANGED failures \/ (failures < MaxFailures /\ failures' = failures + 1)
    BY <2>1 DEF C!CredentialNext, C!CreateCredentialOffer, C!CredentialMapper, C!RevokeCredential,
       C!VerifyPresentation, C!PresentationVerified, C!PresentationRejected, C!Request, C!Failure
  <2>3. OthersStep /\ Shared /\ HrWrites /\ HrCallsStep
    BY <1>1, <2>1, <2>2, QuietStep DEF payrollVars, hrVars
  <2>4. RegistryInv'
    BY <1>1, <2>1, RegistryInvNext
  <2> QED BY <2>3, <2>4
<1>5. CASE Crash
  <2>1. P!Crash /\ H!Crash /\ C!CredentialCrash
    BY <1>5 DEF Crash
  <2>2. /\ UNCHANGED <<employees, runs, payslips, filings, disbursed, offers>>
        /\ payCalls' = P!EmptyTable /\ started' = started
        /\ failures < MaxFailures /\ failures' = failures + 1
    BY <2>1 DEF P!Crash, P!Failure
  <2>3. /\ UNCHANGED <<requests, leaves, claims, audit>>
        /\ hrCalls' = H!EmptyTable /\ queue' = <<>>
    BY <2>1 DEF H!Crash
  <2>4. failures' # failures
    BY <1>1, <2>2, HrRowTypes
  <2>5. OthersStep /\ Shared /\ HrWrites /\ HrCallsStep
    BY <1>1, <2>2, <2>3, <2>4, QuietStep
  <2>6. RegistryInv'
    BY <1>1, <2>1, RegistryWaits DEF C!CredentialCrash
  <2> QED BY <2>5, <2>6
<1>6. CASE UNCHANGED vars
  <2>1. OthersStep /\ Shared /\ HrWrites /\ HrCallsStep
    BY <1>1, <1>6, QuietStep DEF vars, payrollVars, hrVars
  <2>2. RegistryInv'
    BY <1>1, <1>6, RegistryWaits DEF vars, registryVars
  <2> QED BY <2>1, <2>2
<1> QED BY <1>2, <1>3, <1>4, <1>5, <1>6 DEF Next

LEMMA IInvInit == Init => IInv
<1> SUFFICES ASSUME Init
             PROVE  IInv
  OBVIOUS
<1>1. /\ employees = P!EmptyTable /\ runs = P!EmptyTable /\ payslips = P!EmptyTable
      /\ filings = P!EmptyTable /\ disbursed = {} /\ payCalls = P!EmptyTable
      /\ offers = <<>> /\ failures = 0 /\ started = 0
  BY DEF Init, P!Init
<1>2. /\ requests = H!EmptyTable /\ leaves = H!EmptyTable /\ claims = H!EmptyTable
      /\ queue = <<>> /\ audit = <<>> /\ hrCalls = H!EmptyTable
  BY DEF Init, H!Init
<1>3. /\ portal = <<>> /\ registry = C!EmptyTable /\ history = <<>>
      /\ checks = C!EmptyTable /\ verdicts = {}
  BY DEF Init, C!CredentialInit
<1>4. /\ \A Keys, Row : P!IsTable(P!EmptyTable, Keys, Row) /\ H!IsTable(H!EmptyTable, Keys, Row)
                        /\ C!IsTable(C!EmptyTable, Keys, Row)
      /\ DOMAIN P!EmptyTable = {} /\ DOMAIN H!EmptyTable = {} /\ DOMAIN C!EmptyTable = {}
  BY DEF P!EmptyTable, H!EmptyTable, C!EmptyTable, P!IsTable, H!IsTable, C!IsTable
<1>5. Numbered(P!EmptyTable) /\ Numbered(H!EmptyTable)
  <2>1. 1..0 = {} /\ 0 \in 0..started
    BY <1>1
  <2> QED BY <1>4, <2>1 DEF Numbered, Upto
<1>6. started \in 0..MaxCalls /\ failures \in 0..MaxFailures
  BY <1>1, Bounds
<1>7. PayrollRows
  <2>1. P!TypeOK
    BY <1>1, <1>4, <1>6 DEF P!TypeOK
  <2>2. OffersNameRows /\ PayrollKeys
    BY <1>1, <1>4 DEF OffersNameRows, PayrollKeys
  <2> QED BY <1>1, <1>4, <1>5, <2>1, <2>2 DEF PayrollRows
<1>8. PayrollInv
  <2>1. ReofferExplained
    BY <1>1 DEF ReofferExplained
  <2>2. RunsMatchPayslips
    BY <1>1, <1>4 DEF RunsMatchPayslips
  <2>3. SlipsPending /\ (\A c \in DOMAIN payCalls : IssueSees(c)) /\ TotalsBounded
    BY <1>1, <1>4 DEF SlipsPending, TotalsBounded
  <2> QED BY <1>7, <2>1, <2>2, <2>3 DEF PayrollInv
<1>9. HrInv
  <2>1. H!TypeOK
    BY <1>2, <1>4, <1>6 DEF H!TypeOK
  <2>2. HrRows
    BY <1>2, <1>4, <1>5, <2>1 DEF HrRows, HrKeys
  <2>3. ContractNamesEmployee
    BY <1>2, <1>4 DEF ContractNamesEmployee
  <2>4. AuditTrail
    BY <1>2, <1>4 DEF AuditTrail
  <2> QED BY <2>2, <2>3, <2>4 DEF HrInv
<1>10. RegistryInv
  <2>1. C!CredentialTypeOK
    BY <1>3, <1>4 DEF C!CredentialTypeOK
  <2>2. RegistryTold
    BY <1>3, <1>4 DEF RegistryTold, C!IsRevoked, C!RevokedBy, C!Told
  <2>3. RevocationsHonoured
    BY <1>3 DEF RevocationsHonoured, C!RevocationsHonoured
  <2> QED BY <2>1, <2>2, <2>3 DEF RegistryInv
<1> QED BY <1>8, <1>9, <1>10 DEF IInv

LEMMA IInvNext == IInv /\ [Next]_vars => IInv'
<1> SUFFICES ASSUME IInv, [Next]_vars
             PROVE  IInv'
  OBVIOUS
<1>1. /\ P!Requests \/ P!Answers \/ OthersStep
      /\ Shared /\ HrWrites /\ HrCallsStep /\ RegistryInv'
  BY StepOfAll
<1>2. PayrollRows /\ SlipInv /\ RunInv /\ HrInv
  BY DEF IInv, PayrollInv, SlipInv, RunInv
<1>3. PayrollRows'
  BY <1>1, <1>2, PayrollRowsNext
<1>4. SlipInv'
  BY <1>1, <1>2, SlipInvNext
<1>5. RunInv'
  BY <1>1, <1>2, <1>3, RunInvNext
<1>6. HrInv'
  BY <1>1, <1>2, HrInvKept, PayrollRowTypes
<1>7. PayrollInv'
  BY <1>3, <1>4, <1>5 DEF PayrollInv, SlipInv, RunInv
<1> QED BY <1>1, <1>6, <1>7 DEF IInv

LEMMA IInvAlways == Spec => []IInv
BY IInvInit, IInvNext, PTL DEF Spec

\* Every reachable state is one the tables, the calls and the counters may be in.
THEOREM PeopleTypeCorrect == Spec => []TypeOK
<1>1. IInv => TypeOK
  BY DEF IInv, PayrollInv, PayrollRows, HrInv, HrRows, RegistryInv, TypeOK
<1> QED BY <1>1, IInvAlways, PTL

\* A payslip is offered twice only by overlapping issuances or after a loss, for any
\* number of issuances, refusals and crashes (issuePayslips).
THEOREM PayslipsReoffered == Spec => []ReofferExplained
<1>1. IInv => ReofferExplained
  BY DEF IInv, PayrollInv
<1> QED BY <1>1, IInvAlways, PTL

\* Totals, filings and payouts agree with the payslips of their run, whatever salaries
\* and however many employees (issuePayslips, issueTaxComplianceVC, processRunPayout).
THEOREM RunsAreConsistent == Spec => []RunsMatchPayslips
<1>1. IInv => RunsMatchPayslips
  BY DEF IInv, PayrollInv
<1> QED BY <1>1, IInvAlways, PTL

\* The contract of a request names its employee, in whatever order approvals answer
\* (approveRequest).
THEOREM ContractsNameEmployees == Spec => []ContractNamesEmployee
<1>1. IInv => ContractNamesEmployee
  BY DEF IInv, HrInv
<1> QED BY <1>1, IInvAlways, PTL

\* The last entry on a row is its decision, written or queued (logAction).
THEOREM TrailIsComplete == Spec => []AuditTrail
<1>1. IInv => AuditTrail
  BY DEF IInv, HrInv
<1> QED BY <1>1, IInvAlways, PTL

\* A verdict refuses what is revoked by then, and nothing else (revokeCredential,
\* verifyPresentation).
THEOREM RevocationsAreHonoured == Spec => []RevocationsHonoured
<1>1. IInv => RevocationsHonoured
  BY DEF IInv, RegistryInv
<1> QED BY <1>1, IInvAlways, PTL

-----------------------------------------------------------------------------
(* The rows implement the ledger of offers                                   *)

Made == [i \in DOMAIN offers |-> Holder(offers[i].type, offers[i].of)]
Held == [row \in Rows |-> Reference(row)]

LEMMA LedgerMeaning ==
    /\ Ledger!Init <=> Made = <<>> /\ Held = [h \in {} |-> 0]
    /\ Ledger!Open <=>
          /\ Made' = Made /\ DOMAIN Held \subseteq DOMAIN Held'
          /\ \A h \in DOMAIN Held' : Held'[h] = IF h \in DOMAIN Held THEN Held[h] ELSE 0
    /\ \A h : Ledger!Make(h) <=>
          /\ Made' = Append(Made, h)
          /\ \E ref \in {Held[h], Len(Made) + 1, 0} : Held' = [Held EXCEPT ![h] = ref]
    /\ \A h : Ledger!Drop(h) <=> Held' = [Held EXCEPT ![h] = 0] /\ Made' = Made
    /\ Ledger!Next <=>
          Ledger!Open \/ \E h \in DOMAIN Held : Ledger!Make(h) \/ Ledger!Drop(h)
<1>1. Ledger!Init <=> Made = <<>> /\ Held = [h \in {} |-> 0]
  BY DEF Ledger!Init, Made, Held
<1>2. Ledger!Open <=>
         /\ Made' = Made /\ DOMAIN Held \subseteq DOMAIN Held'
         /\ \A h \in DOMAIN Held' : Held'[h] = IF h \in DOMAIN Held THEN Held[h] ELSE 0
  BY DEF Ledger!Open, Made, Held
<1>3. \A h : Ledger!Make(h) <=>
         /\ Made' = Append(Made, h)
         /\ \E ref \in {Held[h], Len(Made) + 1, 0} : Held' = [Held EXCEPT ![h] = ref]
  BY DEF Ledger!Make, Made, Held
<1>4. \A h : Ledger!Drop(h) <=> Held' = [Held EXCEPT ![h] = 0] /\ Made' = Made
  BY DEF Ledger!Drop, Made, Held
<1>5. Ledger!Next <=>
         Ledger!Open \/ \E h \in DOMAIN Held : Ledger!Make(h) \/ Ledger!Drop(h)
  BY DEF Ledger!Next, Held
<1> QED BY <1>1, <1>2, <1>3, <1>4, <1>5

\* A sequence that another extends by one.
LEMMA Extended ==
    ASSUME NEW n \in Nat, NEW f, f = [i \in 1..n |-> f[i]],
           NEW g, g = [i \in 1..(n + 1) |-> g[i]], \A i \in 1..n : g[i] = f[i]
    PROVE  g = Append(f, g[n + 1]) /\ Len(f) = n
<1>0. PICK S : \A i \in 1..(n + 1) : g[i] \in S
  <2> WITNESS {g[i] : i \in 1..(n + 1)}
  <2> QED OBVIOUS
<1>1. /\ f \in Seq(S) /\ Len(f) = n /\ g \in Seq(S) /\ Len(g) = n + 1 /\ g[n + 1] \in S
      /\ \A i \in 1..n : g[i] = f[i]
  <2>1. f \in [1..n -> S] /\ g \in [1..(n + 1) -> S]
    <3>1. \A i \in 1..n : i \in 1..(n + 1)
      OBVIOUS
    <3>2. \A i \in 1..n : f[i] \in S
      BY <1>0, <3>1
    <3>3. [i \in 1..n |-> f[i]] \in [1..n -> S]
      BY <3>2
    <3>4. [i \in 1..(n + 1) |-> g[i]] \in [1..(n + 1) -> S]
      BY <1>0
    <3> QED BY <3>3, <3>4
  <2>2. f \in Seq(S) /\ g \in Seq(S)
    BY <2>1, SeqDef
  <2>3. Len(f) = n /\ Len(g) = n + 1
    BY <2>1, <2>2
  <2>4. n + 1 \in 1..(n + 1)
    OBVIOUS
  <2> QED BY <1>0, <2>2, <2>3, <2>4
<1>2. PICK e \in S : e = g[n + 1]
  BY <1>1
<1>3. /\ Append(f, e) \in Seq(S) /\ Len(Append(f, e)) = n + 1
      /\ \A i \in 1..n : Append(f, e)[i] = f[i]
      /\ Append(f, e)[n + 1] = e
  BY <1>1, AppendProperties
<1>4. \A i \in 1..(n + 1) : g[i] = Append(f, e)[i]
  BY <1>1, <1>2, <1>3
<1>5. g = Append(f, e)
  BY <1>1, <1>3, <1>4, SeqEqual
<1> QED BY <1>1, <1>2, <1>5

\* The holders of offers stay.
LEMMA MadeKept ==
    ASSUME PayrollRows, Shared
    PROVE  /\ offers' = offers => Made' = Made
           /\ \A o \in Offer : offers' = Append(offers, o) =>
                 Made' = Append(Made, Holder(o.type, o.of)')
           /\ Len(Made) = Len(offers)
<1>1. /\ offers \in Seq(Offer) /\ Len(offers) \in Nat /\ DOMAIN offers = 1..Len(offers)
      /\ \A i \in DOMAIN offers :
            offers[i].type = "EmploymentContractVC" => offers[i].of \in DOMAIN employees
  BY PayrollRowTypes DEF PayrollRows, OffersNameRows
<1>2. ASSUME NEW i \in DOMAIN offers
      PROVE  Holder(offers[i].type, offers[i].of)
             = <<offers[i].type, IF offers[i].type = "EmploymentContractVC"
                                 THEN employees'[offers[i].of].candidate ELSE offers[i].of>>
  BY <1>1 DEF Holder, Shared
<1>3. ASSUME offers' = offers
      PROVE  Made' = Made
  BY <1>2, <1>3 DEF Made, Holder
<1>4. Made = [i \in 1..Len(offers) |-> Made[i]]
  BY <1>1 DEF Made
<1>5. ASSUME NEW o \in Offer, offers' = Append(offers, o)
      PROVE  Made' = Append(Made, Holder(o.type, o.of)') /\ Len(Made) = Len(offers)
  <2>1. /\ DOMAIN offers' = 1..(Len(offers) + 1)
        /\ \A i \in DOMAIN offers : offers'[i] = offers[i]
        /\ offers'[Len(offers) + 1] = o
    BY <1>1, <1>5, OfferAdded
  <2>2. Made' = [i \in 1..(Len(offers) + 1) |-> Made'[i]]
    BY <2>1 DEF Made
  <2>3. \A i \in 1..Len(offers) : Made'[i] = Made[i]
    BY <1>1, <1>2, <2>1 DEF Made, Holder
  <2>4. Made'[Len(offers) + 1] = Holder(o.type, o.of)'
    BY <1>1, <2>1 DEF Made, Holder
  <2> HIDE DEF Made
  <2>5. PICK n \in Nat : n = Len(offers)
    BY <1>1
  <2>6. PICK f : f = Made
    OBVIOUS
  <2>7. PICK g : g = Made'
    OBVIOUS
  <2>8. /\ f = [i \in 1..n |-> f[i]] /\ g = [i \in 1..(n + 1) |-> g[i]]
        /\ \A i \in 1..n : g[i] = f[i]
    BY <1>4, <2>2, <2>3, <2>5, <2>6, <2>7
  <2>9. g = Append(f, g[n + 1]) /\ Len(f) = n
    BY ONLY <2>8, Extended
  <2> QED BY <2>4, <2>5, <2>6, <2>7, <2>9
<1>6. Len(Made) = Len(offers)
  <2> DEFINE S == {Made[i] : i \in DOMAIN offers}
  <2>1. Made \in [1..Len(offers) -> S]
    BY <1>1, <1>4
  <2> HIDE DEF Made, S
  <2>2. Made \in Seq(S)
    BY <1>1, <2>1, SeqDef
  <2> QED BY <1>1, <2>1, <2>2
<1> QED BY <1>3, <1>5, <1>6

\* The references of a table's rows stay, but that of h; rows are added without one.
KeepVc(type, old, new, h) ==
    /\ DOMAIN old \subseteq DOMAIN new
    /\ \A k \in DOMAIN new :
          \/ k \in DOMAIN old /\ (<<type, k>> = h \/ new[k].vc = old[k].vc)
          \/ k \notin DOMAIN old /\ new[k].vc = 0
KeepContract(old, new, h) ==
    /\ DOMAIN old \subseteq DOMAIN new
    /\ \A k \in DOMAIN new :
          \/ k \in DOMAIN old /\ (<<"EmploymentContractVC", k>> = h \/ new[k].contract = old[k].contract)
          \/ k \notin DOMAIN old /\ new[k].contract = 0
RefsKept(h) ==
    /\ KeepVc("PayslipVC", payslips, payslips', h) /\ KeepVc("PayrollRunVC", runs, runs', h)
    /\ KeepVc("TaxComplianceVC", filings, filings', h) /\ KeepContract(requests, requests', h)
    /\ KeepVc("LeaveApprovalVC", leaves, leaves', h) /\ KeepVc("ExpenseApprovalVC", claims, claims', h)

\* What the rows and their references are.
LEMMA RowsMeaning ==
    /\ \A row : row \in Rows <=>
          \/ \E k \in DOMAIN payslips : row = <<"PayslipVC", k>>
          \/ \E k \in DOMAIN runs : row = <<"PayrollRunVC", k>>
          \/ \E k \in DOMAIN filings : row = <<"TaxComplianceVC", k>>
          \/ \E k \in DOMAIN requests : row = <<"EmploymentContractVC", k>>
          \/ \E k \in DOMAIN leaves : row = <<"LeaveApprovalVC", k>>
          \/ \E k \in DOMAIN claims : row = <<"ExpenseApprovalVC", k>>
    /\ \A k : /\ Reference(<<"PayslipVC", k>>) = payslips[k].vc
              /\ Reference(<<"PayrollRunVC", k>>) = runs[k].vc
              /\ Reference(<<"TaxComplianceVC", k>>) = filings[k].vc
              /\ Reference(<<"EmploymentContractVC", k>>) = requests[k].contract
              /\ Reference(<<"LeaveApprovalVC", k>>) = leaves[k].vc
              /\ Reference(<<"ExpenseApprovalVC", k>>) = claims[k].vc
<1>1. \A row : row \in Rows <=>
         \/ \E k \in DOMAIN payslips : row = <<"PayslipVC", k>>
         \/ \E k \in DOMAIN runs : row = <<"PayrollRunVC", k>>
         \/ \E k \in DOMAIN filings : row = <<"TaxComplianceVC", k>>
         \/ \E k \in DOMAIN requests : row = <<"EmploymentContractVC", k>>
         \/ \E k \in DOMAIN leaves : row = <<"LeaveApprovalVC", k>>
         \/ \E k \in DOMAIN claims : row = <<"ExpenseApprovalVC", k>>
  BY DEF Rows
<1>2. \A k : /\ Reference(<<"PayslipVC", k>>) = payslips[k].vc
             /\ Reference(<<"PayrollRunVC", k>>) = runs[k].vc
             /\ Reference(<<"TaxComplianceVC", k>>) = filings[k].vc
             /\ Reference(<<"EmploymentContractVC", k>>) = requests[k].contract
             /\ Reference(<<"LeaveApprovalVC", k>>) = leaves[k].vc
             /\ Reference(<<"ExpenseApprovalVC", k>>) = claims[k].vc
  BY DEF Reference
<1> QED BY <1>1, <1>2

LEMMA RowsMeaningThen ==
    /\ \A row : row \in Rows' <=>
          \/ \E k \in DOMAIN payslips' : row = <<"PayslipVC", k>>
          \/ \E k \in DOMAIN runs' : row = <<"PayrollRunVC", k>>
          \/ \E k \in DOMAIN filings' : row = <<"TaxComplianceVC", k>>
          \/ \E k \in DOMAIN requests' : row = <<"EmploymentContractVC", k>>
          \/ \E k \in DOMAIN leaves' : row = <<"LeaveApprovalVC", k>>
          \/ \E k \in DOMAIN claims' : row = <<"ExpenseApprovalVC", k>>
    /\ \A k : /\ Reference(<<"PayslipVC", k>>)' = payslips'[k].vc
              /\ Reference(<<"PayrollRunVC", k>>)' = runs'[k].vc
              /\ Reference(<<"TaxComplianceVC", k>>)' = filings'[k].vc
              /\ Reference(<<"EmploymentContractVC", k>>)' = requests'[k].contract
              /\ Reference(<<"LeaveApprovalVC", k>>)' = leaves'[k].vc
              /\ Reference(<<"ExpenseApprovalVC", k>>)' = claims'[k].vc
<1>1. \A row : row \in Rows' <=>
         \/ \E k \in DOMAIN payslips' : row = <<"PayslipVC", k>>
         \/ \E k \in DOMAIN runs' : row = <<"PayrollRunVC", k>>
         \/ \E k \in DOMAIN filings' : row = <<"TaxComplianceVC", k>>
         \/ \E k \in DOMAIN requests' : row = <<"EmploymentContractVC", k>>
         \/ \E k \in DOMAIN leaves' : row = <<"LeaveApprovalVC", k>>
         \/ \E k \in DOMAIN claims' : row = <<"ExpenseApprovalVC", k>>
  BY DEF Rows
<1>2. \A k : /\ Reference(<<"PayslipVC", k>>)' = payslips'[k].vc
             /\ Reference(<<"PayrollRunVC", k>>)' = runs'[k].vc
             /\ Reference(<<"TaxComplianceVC", k>>)' = filings'[k].vc
             /\ Reference(<<"EmploymentContractVC", k>>)' = requests'[k].contract
             /\ Reference(<<"LeaveApprovalVC", k>>)' = leaves'[k].vc
             /\ Reference(<<"ExpenseApprovalVC", k>>)' = claims'[k].vc
  BY DEF Reference
<1> QED BY <1>1, <1>2

\* What a step that keeps the references does to the rows.
LEMMA RefsMeaning ==
    ASSUME NEW h, RefsKept(h)
    PROVE  /\ Rows \subseteq Rows'
           /\ \A row \in Rows' : row \in Rows => row = h \/ Reference(row)' = Reference(row)
           /\ \A row \in Rows' : row \notin Rows => Reference(row)' = 0
<1>1. ASSUME NEW row \in Rows
      PROVE  row \in Rows' /\ (row = h \/ Reference(row)' = Reference(row))
  <2>1. ASSUME NEW k \in DOMAIN payslips, row = <<"PayslipVC", k>>
        PROVE  row \in Rows' /\ (row = h \/ Reference(row)' = Reference(row))
    BY <2>1, RowsMeaning, RowsMeaningThen DEF RefsKept, KeepVc
  <2>2. ASSUME NEW k \in DOMAIN runs, row = <<"PayrollRunVC", k>>
        PROVE  row \in Rows' /\ (row = h \/ Reference(row)' = Reference(row))
    BY <2>2, RowsMeaning, RowsMeaningThen DEF RefsKept, KeepVc
  <2>3. ASSUME NEW k \in DOMAIN filings, row = <<"TaxComplianceVC", k>>
        PROVE  row \in Rows' /\ (row = h \/ Reference(row)' = Reference(row))
    BY <2>3, RowsMeaning, RowsMeaningThen DEF RefsKept, KeepVc
  <2>4. ASSUME NEW k \in DOMAIN requests, row = <<"EmploymentContractVC", k>>
        PROVE  row \in Rows' /\ (row = h \/ Reference(row)' = Reference(row))
    BY <2>4, RowsMeaning, RowsMeaningThen DEF RefsKept, KeepContract
  <2>5. ASSUME NEW k \in DOMAIN leaves, row = <<"LeaveApprovalVC", k>>
        PROVE  row \in Rows' /\ (row = h \/ Reference(row)' = Reference(row))
    BY <2>5, RowsMeaning, RowsMeaningThen DEF RefsKept, KeepVc
  <2>6. ASSUME NEW k \in DOMAIN claims, row = <<"ExpenseApprovalVC", k>>
        PROVE  row \in Rows' /\ (row = h \/ Reference(row)' = Reference(row))
    BY <2>6, RowsMeaning, RowsMeaningThen DEF RefsKept, KeepVc
  <2> QED BY <2>1, <2>2, <2>3, <2>4, <2>5, <2>6, RowsMeaning
<1>2. ASSUME NEW row \in Rows', row \notin Rows
      PROVE  Reference(row)' = 0
  <2>1. ASSUME NEW k \in DOMAIN payslips', row = <<"PayslipVC", k>>
        PROVE  Reference(row)' = 0
    BY <1>2, <2>1, RowsMeaning, RowsMeaningThen DEF RefsKept, KeepVc
  <2>2. ASSUME NEW k \in DOMAIN runs', row = <<"PayrollRunVC", k>>
        PROVE  Reference(row)' = 0
    BY <1>2, <2>2, RowsMeaning, RowsMeaningThen DEF RefsKept, KeepVc
  <2>3. ASSUME NEW k \in DOMAIN filings', row = <<"TaxComplianceVC", k>>
        PROVE  Reference(row)' = 0
    BY <1>2, <2>3, RowsMeaning, RowsMeaningThen DEF RefsKept, KeepVc
  <2>4. ASSUME NEW k \in DOMAIN requests', row = <<"EmploymentContractVC", k>>
        PROVE  Reference(row)' = 0
    BY <1>2, <2>4, RowsMeaning, RowsMeaningThen DEF RefsKept, KeepContract
  <2>5. ASSUME NEW k \in DOMAIN leaves', row = <<"LeaveApprovalVC", k>>
        PROVE  Reference(row)' = 0
    BY <1>2, <2>5, RowsMeaning, RowsMeaningThen DEF RefsKept, KeepVc
  <2>6. ASSUME NEW k \in DOMAIN claims', row = <<"ExpenseApprovalVC", k>>
        PROVE  Reference(row)' = 0
    BY <1>2, <2>6, RowsMeaning, RowsMeaningThen DEF RefsKept, KeepVc
  <2> QED BY <2>1, <2>2, <2>3, <2>4, <2>5, <2>6, RowsMeaningThen
<1> QED BY <1>1, <1>2

\* No row's name.
NoRow == <<"none", 0>>

LEMMA NoRowIsNone == NoRow \notin Rows
BY RowsMeaning DEF NoRow

\* A step that offers nothing and changes no reference opens a ledger, or stutters.
LEMMA OpenStep ==
    ASSUME PayrollRows, Shared, offers' = offers, RefsKept(NoRow)
    PROVE  Ledger!Next
<1>1. Made' = Made  BY MadeKept
<1>2. /\ Rows \subseteq Rows'
      /\ \A row \in Rows' : row \in Rows => Reference(row)' = Reference(row)
      /\ \A row \in Rows' : row \notin Rows => Reference(row)' = 0
  BY RefsMeaning, NoRowIsNone
<1>3. /\ DOMAIN Held = Rows /\ DOMAIN Held' = Rows'
      /\ \A row \in Rows : Held[row] = Reference(row)
      /\ \A row \in Rows' : Held'[row] = Reference(row)'
  BY DEF Held
<1>4. \A h \in DOMAIN Held' : Held'[h] = IF h \in DOMAIN Held THEN Held[h] ELSE 0
  BY <1>2, <1>3
<1> QED BY <1>1, <1>2, <1>3, <1>4, LedgerMeaning

\* A step that changes the reference of h only writes the ledger of h.
LEMMA HolderStep ==
    ASSUME PayrollRows, Shared, NEW h \in Rows, Rows' = Rows, RefsKept(h)
    PROVE  /\ offers' = offers /\ Reference(h)' = 0 => Ledger!Next
           /\ \A o \in Offer :
                 /\ offers' = Append(offers, o) /\ Holder(o.type, o.of)' = h
                 /\ Reference(h)' \in {Reference(h), Len(offers) + 1, 0}
                 => Ledger!Next
<1>1. PICK ref : ref = Reference(h)'
  OBVIOUS
<1>2. /\ DOMAIN Held = Rows /\ DOMAIN Held' = Rows
      /\ \A row \in Rows : Held[row] = Reference(row)
      /\ \A row \in Rows : Held'[row] = Reference(row)'
  BY DEF Held
<1>3. /\ Held = [row \in Rows |-> Held[row]] /\ Held' = [row \in Rows |-> Held'[row]]
  BY <1>2 DEF Held
<1>4. \A row \in Rows : row = h \/ Reference(row)' = Reference(row)
  BY RefsMeaning
<1>5. \A row \in Rows : Held'[row] = IF row = h THEN ref ELSE Held[row]
  BY <1>1, <1>2, <1>4
<1> HIDE DEF Held
<1>6. PICK old, new : old = Held /\ new = Held'
  OBVIOUS
<1>7. Held' = [Held EXCEPT ![h] = ref]
  <2>1. new = [old EXCEPT ![h] = ref]
    <3>1. /\ old = [row \in Rows |-> old[row]] /\ new = [row \in Rows |-> new[row]]
          /\ \A row \in Rows : new[row] = IF row = h THEN ref ELSE old[row]
      BY <1>3, <1>5, <1>6
    <3> QED BY ONLY <3>1
  <2> QED BY <1>6, <2>1
<1>8. ASSUME offers' = offers, ref = 0
      PROVE  Ledger!Next
  <2>1. Made' = Made  BY <1>8, MadeKept
  <2> QED BY <1>2, <1>7, <1>8, <2>1, LedgerMeaning
<1>9. ASSUME NEW o \in Offer, offers' = Append(offers, o), Holder(o.type, o.of)' = h,
             ref \in {Reference(h), Len(offers) + 1, 0}
      PROVE  Ledger!Next
  <2>1. Made' = Append(Made, h) /\ Len(Made) = Len(offers)
    BY <1>9, MadeKept
  <2>2. ref \in {Held[h], Len(Made) + 1, 0}
    BY <1>2, <1>9, <2>1
  <2> QED BY <1>2, <1>7, <2>1, <2>2, LedgerMeaning
<1> QED BY <1>1, <1>8, <1>9

\* A row that is put in keeps its reference, or is that of h; a new one has none.
LEMMA RowPut ==
    ASSUME NEW type, NEW h, NEW old, NEW key, NEW row,
           \/ key \notin DOMAIN old /\ row.vc = 0
           \/ key \in DOMAIN old /\ (h = <<type, key>> \/ row.vc = old[key].vc)
    PROVE  KeepVc(type, old, P!Put(old, key, row), h) /\ KeepVc(type, old, H!Put(old, key, row), h)
<1>1. /\ DOMAIN P!Put(old, key, row) = DOMAIN old \cup {key}
      /\ \A k \in DOMAIN old \cup {key} :
            P!Put(old, key, row)[k] = IF k = key THEN row ELSE old[k]
  BY DEF P!Put
<1>2. /\ DOMAIN H!Put(old, key, row) = DOMAIN old \cup {key}
      /\ \A k \in DOMAIN old \cup {key} :
            H!Put(old, key, row)[k] = IF k = key THEN row ELSE old[k]
  BY DEF H!Put
<1> QED BY <1>1, <1>2 DEF KeepVc

LEMMA RequestPut ==
    ASSUME NEW h, NEW old, NEW key, NEW row,
           \/ key \notin DOMAIN old /\ row.contract = 0
           \/ /\ key \in DOMAIN old
              /\ h = <<"EmploymentContractVC", key>> \/ row.contract = old[key].contract
    PROVE  KeepContract(old, H!Put(old, key, row), h)
<1>1. /\ DOMAIN H!Put(old, key, row) = DOMAIN old \cup {key}
      /\ \A k \in DOMAIN old \cup {key} :
            H!Put(old, key, row)[k] = IF k = key THEN row ELSE old[k]
  BY DEF H!Put
<1> QED BY <1>1 DEF KeepContract

LEMMA KeepSame ==
    \A type, table, h : KeepVc(type, table, table, h) /\ KeepContract(table, table, h)
BY DEF KeepVc, KeepContract

\* Rows that stay are the rows.
LEMMA SameRows ==
    ASSUME DOMAIN payslips' = DOMAIN payslips, DOMAIN runs' = DOMAIN runs,
           DOMAIN filings' = DOMAIN filings, DOMAIN requests' = DOMAIN requests,
           DOMAIN leaves' = DOMAIN leaves, DOMAIN claims' = DOMAIN claims
    PROVE  Rows' = Rows
BY DEF Rows

\* The tables of the other component.
HrTablesStay      == UNCHANGED <<requests, leaves, claims>>
PayrollTablesStay == UNCHANGED <<runs, payslips, filings>>

\* calculatePayrollRun adds payslips and a run without offers.
LEMMA CalculateOpens ==
    ASSUME PayrollRows, P!CalculatePayrollRun
    PROVE  /\ KeepVc("PayslipVC", payslips, payslips', NoRow)
           /\ KeepVc("PayrollRunVC", runs, runs', NoRow)
<1>1. PICK r \in P!Ids, paid \in SUBSET DOMAIN employees, row \in P!Run :
         /\ r \notin DOMAIN runs /\ runs' = P!Put(runs, r, row)
         /\ row.vc = 0
         /\ payslips' = [s \in DOMAIN payslips \cup ({r} \X paid) |->
                            IF s \in {r} \X paid
                            THEN [gross |-> employees[s[2]].salary, status |-> "pending",
                                  vc |-> 0]
                            ELSE payslips[s]]
  BY CalculateAdds
<1>2. KeepVc("PayrollRunVC", runs, P!Put(runs, r, row), NoRow)
  BY <1>1, RowPut
<1>3. \A s \in DOMAIN payslips : s \notin {r} \X paid
  BY <1>1 DEF PayrollRows, PayrollKeys
<1>4. DOMAIN payslips' = DOMAIN payslips \cup ({r} \X paid)
  BY <1>1
<1>5. \A s \in DOMAIN payslips : payslips'[s] = payslips[s]
  BY <1>1, <1>3
<1>6. \A s \in {r} \X paid : payslips'[s].vc = 0
  BY <1>1
<1>7. KeepVc("PayslipVC", payslips, payslips', NoRow)
  BY <1>4, <1>5, <1>6, <1>3 DEF KeepVc
<1> QED BY <1>1, <1>2, <1>7

\* issueTaxComplianceVC and updateTaxComplianceStatus.
LEMMA FilingsOpen ==
    ASSUME PayrollRows,
           \/ \E r, type : P!IssueTaxComplianceVC(r, type)
           \/ \E f \in DOMAIN filings : \E status : P!UpdateTaxComplianceStatus(f, status)
    PROVE  KeepVc("TaxComplianceVC", filings, filings', NoRow)
<1>1. ASSUME NEW r, NEW type, P!IssueTaxComplianceVC(r, type)
      PROVE  KeepVc("TaxComplianceVC", filings, filings', NoRow)
  <2> DEFINE row == [run |-> r, type |-> type, status |-> "pending",
                     amount |-> runs[r].totals[type], vc |-> 0]
  <2>1. P!Request /\ filings' = P!Put(filings, P!Fresh(filings), row) /\ row.vc = 0
    BY <1>1 DEF P!IssueTaxComplianceVC, P!NoOffer
  <2>2. P!Fresh(filings) \notin DOMAIN filings
    BY <2>1, PayrollFresh, PayrollRowTypes
  <2> HIDE DEF row
  <2>3. PICK f : f = P!Fresh(filings)
    OBVIOUS
  <2> QED BY <2>1, <2>2, <2>3, RowPut
<1>2. ASSUME NEW f \in DOMAIN filings, NEW status, P!UpdateTaxComplianceStatus(f, status)
      PROVE  KeepVc("TaxComplianceVC", filings, filings', NoRow)
  <2> DEFINE row == [filings[f] EXCEPT !.status = status]
  <2>1. filings' = P!Put(filings, f, row)
    BY <1>2 DEF P!UpdateTaxComplianceStatus
  <2>2. row.vc = filings[f].vc
    BY PayrollRowTypes DEF P!IsTable, P!Filing
  <2> HIDE DEF row
  <2> QED BY <2>1, <2>2, RowPut
<1> QED BY <1>1, <1>2

\* Requests of payroll open rows at most.
LEMMA PayrollOpens ==
    ASSUME PayrollRows, Shared, HrTablesStay, P!Requests
    PROVE  Ledger!Next
<1>1. /\ KeepVc("PayslipVC", payslips, payslips', NoRow)
      /\ KeepVc("PayrollRunVC", runs, runs', NoRow)
      /\ KeepVc("TaxComplianceVC", filings, filings', NoRow)
      /\ offers' = offers
  <2>1. CASE \E salary \in Salaries : P!SaveEmployee(salary)
    BY <2>1, KeepSame DEF P!SaveEmployee
  <2>2. CASE P!CalculatePayrollRun
    <3>1. UNCHANGED <<filings, offers>>
      BY <2>2 DEF P!CalculatePayrollRun
    <3> QED BY <2>2, <3>1, CalculateOpens, KeepSame
  <2>3. CASE \E r \in DOMAIN runs : P!IssuePayslips(r) \/ P!ProcessRunPayout(r)
    BY <2>3, KeepSame DEF P!IssuePayslips, P!ProcessRunPayout
  <2>4. CASE \E r \in DOMAIN runs, type \in FiledTypes : P!IssueTaxComplianceVC(r, type)
    <3>1. UNCHANGED <<runs, payslips, offers>>
      BY <2>4 DEF P!IssueTaxComplianceVC
    <3> QED BY <2>4, <3>1, FilingsOpen, KeepSame
  <2>5. CASE \E f \in DOMAIN filings, status \in {"filed", "confirmed", "rejected"} :
                P!UpdateTaxComplianceStatus(f, status)
    <3>1. UNCHANGED <<runs, payslips, offers>>
      BY <2>5 DEF P!UpdateTaxComplianceStatus
    <3> QED BY <2>5, <3>1, FilingsOpen, KeepSame
  <2> QED BY <2>1, <2>2, <2>3, <2>4, <2>5 DEF P!Requests
<1>2. RefsKept(NoRow)
  BY <1>1, KeepSame DEF RefsKept, HrTablesStay
<1> QED BY <1>1, <1>2, OpenStep

-----------------------------------------------------------------------------
(* Offers, kept or lost                                                      *)

LEMMA RefsKeptAlways ==
    ASSUME RefsKept(NoRow), NEW h
    PROVE  RefsKept(h)
<1>1. \A type, k : type # "none" => <<type, k>> # NoRow
  BY DEF NoRow
<1> QED BY <1>1 DEF RefsKept, KeepVc, KeepContract

\* An offer that its holder takes.
LEMMA OfferedStep ==
    ASSUME PayrollRows, Shared, NEW h \in Rows, Rows' = Rows, RefsKept(h),
           NEW o \in Offer, offers' = Append(offers, o), Holder(o.type, o.of)' = h,
           Reference(h)' = Len(offers) + 1
    PROVE  Ledger!Next
BY HolderStep

\* createOffer throws before the offer is there, or after.
LEMMA RefusedStep ==
    ASSUME PayrollRows, Shared, NEW h \in Rows, Rows' = Rows, RefsKept(NoRow),
           \/ offers' = offers
           \/ \E o \in Offer : offers' = Append(offers, o) /\ Holder(o.type, o.of)' = h
    PROVE  Ledger!Next
<1>1. CASE offers' = offers
  BY <1>1, OpenStep
<1>2. ASSUME NEW o \in Offer, offers' = Append(offers, o), Holder(o.type, o.of)' = h
      PROVE  Ledger!Next
  <2>1. RefsKept(h)
    BY RefsKeptAlways
  <2>2. Reference(h)' = Reference(h)
    BY RefsMeaning, NoRowIsNone
  <2> QED BY <1>2, <2>1, <2>2, HolderStep
<1> QED BY <1>1, <1>2

\* What createOffer does to the offers, for the three tables of payroll.
LEMMA PayrollOffer ==
    ASSUME PayrollRows, NEW type \in OfferTypes \ {"EmploymentContractVC"},
           NEW of \in Nat \cup (Nat \X Nat), NEW since \in Nat
    PROVE  /\ P!Offered(type, of, since) =>
                 \E o \in Offer : offers' = Append(offers, o) /\ Holder(o.type, o.of)' = <<type, of>>
           /\ P!Refused(type, of, since) =>
                 \/ offers' = offers
                 \/ \E o \in Offer :
                       offers' = Append(offers, o) /\ Holder(o.type, o.of)' = <<type, of>>
<1>1. \A lost \in BOOLEAN :
         /\ OfferFor(type, of, since, lost) \in Offer
         /\ OfferFor(type, of, since, lost).type = type
         /\ OfferFor(type, of, since, lost).of = of
  BY DEF OfferFor, Offer
<1>2. Holder(type, of)' = <<type, of>>
  BY DEF Holder
<1>3. \A lost \in BOOLEAN : P!NewOffer(type, of, since, lost) =>
         \E o \in Offer : offers' = Append(offers, o) /\ o.type = type /\ o.of = of
  BY <1>1 DEF P!NewOffer, OfferFor
<1>4. \A o : o.type = type /\ o.of = of => Holder(o.type, o.of)' = <<type, of>>
  BY DEF Holder
<1> QED BY <1>3, <1>4 DEF P!Offered, P!Refused

\* The three tables of payroll, of which one is written.
LEMMA PayrollAnswerOffers ==
    ASSUME PayrollRows, Shared, HrTablesStay, NEW c, P!Answer(c)
    PROVE  Ledger!Next
<1>1. ASSUME NEW s, P!SlipOffered(c, s)
      PROVE  Ledger!Next
  <2> DEFINE row == [payslips[s] EXCEPT !.status = "issued", !.vc = Len(offers) + 1]
             h == <<"PayslipVC", s>>
  <2>1. /\ c \in DOMAIN payCalls /\ payCalls[c].op = "issue" /\ s \in payCalls[c].todo
        /\ P!Offered("PayslipVC", s, payCalls[c].since)
        /\ payslips' = P!Put(payslips, s, row)
        /\ UNCHANGED <<runs, filings>>
    BY <1>1 DEF P!SlipOffered, P!Issuing, P!OfferId
  <2>2. /\ payCalls[c].since \in Nat /\ s \in DOMAIN payslips /\ s \in Nat \X Nat
        /\ payslips[s] \in P!Payslip
    BY <2>1, IssueCallFacts
  <2>3. row.vc = Len(offers) + 1
    BY <2>2 DEF P!Payslip
  <2> HIDE DEF row
  <2>4. PICK o \in Offer : offers' = Append(offers, o) /\ Holder(o.type, o.of)' = h
    BY <2>1, <2>2, PayrollOffer DEF OfferTypes
  <2>5. KeepVc("PayslipVC", payslips, payslips', h)
    BY <2>1, <2>2, RowPut
  <2>6. DOMAIN payslips' = DOMAIN payslips /\ payslips'[s] = row
    BY <2>1, <2>2 DEF P!Put
  <2>7. RefsKept(h) /\ Rows' = Rows
    BY <2>1, <2>5, <2>6, KeepSame, SameRows DEF RefsKept, HrTablesStay
  <2>8. h \in Rows /\ Reference(h)' = Len(offers) + 1
    BY <2>2, <2>3, <2>6, RowsMeaning, RowsMeaningThen
  <2> HIDE DEF h
  <2> QED BY <2>4, <2>7, <2>8, OfferedStep
<1>2. ASSUME NEW s, P!SlipRefused(c, s)
      PROVE  Ledger!Next
  <2> DEFINE h == <<"PayslipVC", s>>
  <2>1. /\ c \in DOMAIN payCalls /\ payCalls[c].op = "issue" /\ s \in payCalls[c].todo
        /\ P!Refused("PayslipVC", s, payCalls[c].since)
        /\ UNCHANGED <<payslips, runs, filings>>
    BY <1>2 DEF P!SlipRefused, P!Issuing
  <2>2. payCalls[c].since \in Nat /\ s \in DOMAIN payslips /\ s \in Nat \X Nat
    BY <2>1, IssueCallFacts
  <2>3. \/ offers' = offers
        \/ \E o \in Offer : offers' = Append(offers, o) /\ Holder(o.type, o.of)' = h
    BY <2>1, <2>2, PayrollOffer DEF OfferTypes
  <2>4. RefsKept(NoRow) /\ Rows' = Rows
    BY <2>1, KeepSame, SameRows DEF RefsKept, HrTablesStay
  <2>5. h \in Rows
    BY <2>2, RowsMeaning
  <2> HIDE DEF h
  <2> QED BY <2>3, <2>4, <2>5, RefusedStep
<1>3. ASSUME P!RunOffered(c)
      PROVE  Ledger!Next
  <2>1. PICK r \in DOMAIN runs, row \in P!Run, o \in Offer :
           /\ payCalls[c].run = r
           /\ runs' = P!Put(runs, r, row) /\ row.vc = Len(offers) + 1
           /\ offers' = Append(offers, o)
           /\ o = OfferFor("PayrollRunVC", r, payCalls[c].since, FALSE)
           /\ UNCHANGED <<payslips, filings>>
    BY <1>3, RunOfferedRow
  <2> DEFINE h == <<"PayrollRunVC", r>>
  <2>2. Holder(o.type, o.of)' = h
    BY <2>1 DEF OfferFor, Holder
  <2>3. KeepVc("PayrollRunVC", runs, runs', h)
    BY <2>1, RowPut
  <2>4. DOMAIN runs' = DOMAIN runs /\ runs'[r] = row
    BY <2>1 DEF P!Put
  <2>5. RefsKept(h) /\ Rows' = Rows
    BY <2>1, <2>3, <2>4, KeepSame, SameRows DEF RefsKept, HrTablesStay
  <2>6. h \in Rows /\ Reference(h)' = Len(offers) + 1
    BY <2>1, <2>4, RowsMeaning, RowsMeaningThen
  <2> HIDE DEF h
  <2> QED BY <2>1, <2>2, <2>5, <2>6, OfferedStep
<1>4. ASSUME P!RunRefused(c)
      PROVE  Ledger!Next
  <2> DEFINE r == payCalls[c].run
             row == [runs[r] EXCEPT !.status = "completed"]
             h == <<"PayrollRunVC", r>>
  <2>1. /\ c \in DOMAIN payCalls /\ payCalls[c].op = "issue"
        /\ P!Refused("PayrollRunVC", r, payCalls[c].since)
        /\ runs' = P!Put(runs, r, row)
        /\ UNCHANGED <<payslips, filings>>
    BY <1>4 DEF P!RunRefused, P!Summing
  <2>2. payCalls[c].since \in Nat /\ r \in DOMAIN runs /\ r \in Nat /\ runs[r] \in P!Run
    BY <2>1, IssueCallFacts DEF P!Ids
  <2>3. row.vc = runs[r].vc
    BY <2>2 DEF P!Run
  <2> HIDE DEF row
  <2>4. \/ offers' = offers
        \/ \E o \in Offer : offers' = Append(offers, o) /\ Holder(o.type, o.of)' = h
    BY <2>1, <2>2, PayrollOffer DEF OfferTypes
  <2>5. KeepVc("PayrollRunVC", runs, runs', NoRow)
    BY <2>1, <2>2, <2>3, RowPut
  <2>6. DOMAIN runs' = DOMAIN runs
    BY <2>1, <2>2 DEF P!Put
  <2>7. RefsKept(NoRow) /\ Rows' = Rows
    BY <2>1, <2>5, <2>6, KeepSame, SameRows DEF RefsKept, HrTablesStay
  <2>8. h \in Rows
    BY <2>2, RowsMeaning
  <2> HIDE DEF h
  <2> QED BY <2>4, <2>7, <2>8, RefusedStep
<1>5. ASSUME P!FilingOffered(c)
      PROVE  Ledger!Next
  <2>0. PICK f : f = payCalls[c].filing
    OBVIOUS
  <2> DEFINE row == [filings[f] EXCEPT !.vc = Len(offers) + 1]
             h == <<"TaxComplianceVC", f>>
  <2>1. /\ c \in DOMAIN payCalls /\ payCalls[c].op = "file"
        /\ P!Offered("TaxComplianceVC", f, payCalls[c].since)
        /\ filings' = P!Put(filings, f, row)
        /\ UNCHANGED <<payslips, runs>>
    BY <1>5, <2>0 DEF P!FilingOffered, P!Filed, P!OfferId
  <2>2. /\ payCalls[c].since \in Nat /\ f \in DOMAIN filings /\ f \in Nat
        /\ filings[f] \in P!Filing
    BY <2>0, <2>1, FileCallFacts DEF P!Ids
  <2>3. row.vc = Len(offers) + 1
    BY <2>2 DEF P!Filing
  <2> HIDE DEF row
  <2>4. PICK o \in Offer : offers' = Append(offers, o) /\ Holder(o.type, o.of)' = h
    BY <2>1, <2>2, PayrollOffer DEF OfferTypes
  <2>5. KeepVc("TaxComplianceVC", filings, filings', h)
    BY <2>1, <2>2, RowPut
  <2>6. DOMAIN filings' = DOMAIN filings /\ filings'[f] = row
    BY <2>1, <2>2 DEF P!Put
  <2>7. RefsKept(h) /\ Rows' = Rows
    BY <2>1, <2>5, <2>6, KeepSame, SameRows DEF RefsKept, HrTablesStay
  <2>8. h \in Rows /\ Reference(h)' = Len(offers) + 1
    BY <2>2, <2>3, <2>6, RowsMeaning, RowsMeaningThen
  <2> HIDE DEF h
  <2> QED BY <2>4, <2>7, <2>8, OfferedStep
<1>6. ASSUME P!FilingRefused(c)
      PROVE  Ledger!Next
  <2> DEFINE f == payCalls[c].filing
             h == <<"TaxComplianceVC", f>>
  <2>1. /\ c \in DOMAIN payCalls /\ payCalls[c].op = "file"
        /\ P!Refused("TaxComplianceVC", f, payCalls[c].since)
        /\ UNCHANGED <<payslips, runs, filings>>
    BY <1>6 DEF P!FilingRefused, P!Filed
  <2>2. payCalls[c].since \in Nat /\ f \in DOMAIN filings /\ f \in Nat
    BY <2>1, FileCallFacts DEF P!Ids
  <2>3. \/ offers' = offers
        \/ \E o \in Offer : offers' = Append(offers, o) /\ Holder(o.type, o.of)' = h
    BY <2>1, <2>2, PayrollOffer DEF OfferTypes
  <2>4. RefsKept(NoRow) /\ Rows' = Rows
    BY <2>1, KeepSame, SameRows DEF RefsKept, HrTablesStay
  <2>5. h \in Rows
    BY <2>2, RowsMeaning
  <2> HIDE DEF h
  <2> QED BY <2>3, <2>4, <2>5, RefusedStep
<1>7. ASSUME NEW s, P!Disburse(c, s)
      PROVE  Ledger!Next
  <2>1. UNCHANGED <<payslips, runs, filings, offers>>
    BY <1>7 DEF P!Disburse
  <2>2. RefsKept(NoRow)
    BY <2>1, KeepSame DEF RefsKept, HrTablesStay
  <2> QED BY <2>1, <2>2, OpenStep
<1>8. ASSUME P!PayoutEnds(c)
      PROVE  Ledger!Next
  <2> DEFINE r == payCalls[c].run
             row == [runs[r] EXCEPT !.status = "paid"]
  <2>1. /\ c \in DOMAIN payCalls /\ payCalls[c].op = "payout"
        /\ runs' = P!Put(runs, r, row)
        /\ UNCHANGED <<payslips, filings, offers>>
    BY <1>8 DEF P!PayoutEnds, P!Paying
  <2>2. r \in DOMAIN runs /\ runs[r] \in P!Run
    BY <2>1, PayCallFacts
  <2>3. row.vc = runs[r].vc
    BY <2>2 DEF P!Run
  <2> HIDE DEF row
  <2>4. KeepVc("PayrollRunVC", runs, runs', NoRow)
    BY <2>1, <2>2, <2>3, RowPut
  <2>5. RefsKept(NoRow)
    BY <2>1, <2>4, KeepSame DEF RefsKept, HrTablesStay
  <2> QED BY <2>1, <2>5, OpenStep
<1> QED BY <1>1, <1>2, <1>3, <1>4, <1>5, <1>6, <1>7, <1>8 DEF P!Answer

\* A row of a table of Hr that is numbered next is new.
LEMMA HrNext ==
    ASSUME HrRows, H!Request, NEW table, Upto(table, started)
    PROVE  H!Fresh(table) \notin DOMAIN table
<1>1. started \in Nat /\ MaxCalls \in Nat /\ started < MaxCalls
  BY HrRowTypes, Bounds DEF H!Request
<1> QED BY <1>1, FreshFacts

\* Writing one table of Hr.
LEMMA RequestRefs ==
    ASSUME PayrollTablesStay, UNCHANGED <<leaves, claims>>, NEW h,
           KeepContract(requests, requests', h)
    PROVE  RefsKept(h) /\ (DOMAIN requests' = DOMAIN requests => Rows' = Rows)
BY KeepSame, SameRows DEF RefsKept, PayrollTablesStay

LEMMA LeaveRefs ==
    ASSUME PayrollTablesStay, UNCHANGED <<requests, claims>>, NEW h,
           KeepVc("LeaveApprovalVC", leaves, leaves', h)
    PROVE  RefsKept(h) /\ (DOMAIN leaves' = DOMAIN leaves => Rows' = Rows)
BY KeepSame, SameRows DEF RefsKept, PayrollTablesStay

LEMMA ClaimRefs ==
    ASSUME PayrollTablesStay, UNCHANGED <<requests, leaves>>, NEW h,
           KeepVc("ExpenseApprovalVC", claims, claims', h)
    PROVE  RefsKept(h) /\ (DOMAIN claims' = DOMAIN claims => Rows' = Rows)
BY KeepSame, SameRows DEF RefsKept, PayrollTablesStay

\* Requests of onboarding, leave and expenses open rows at most, but for a rejection.
LEMMA HrOpens ==
    ASSUME PayrollRows, HrRows, Shared, PayrollTablesStay, H!Requests
    PROVE  Ledger!Next
<1>1. ASSUME NEW tenant \in Tenants, H!CreateRequest(tenant)
      PROVE  Ledger!Next
  <2> DEFINE row == [tenant |-> tenant, status |-> "invited", employee |-> 0, contract |-> 0]
  <2>1. /\ H!Request /\ requests' = H!Put(requests, H!Fresh(requests), row)
        /\ row.contract = 0 /\ UNCHANGED <<leaves, claims, offers>>
    BY <1>1 DEF H!CreateRequest, H!NoOffer
  <2>2. PICK q : q = H!Fresh(requests) /\ q \notin DOMAIN requests
    BY <2>1, HrNext, HrRowTypes
  <2> HIDE DEF row
  <2>3. KeepContract(requests, requests', NoRow)
    BY <2>1, <2>2, RequestPut
  <2> QED BY <2>1, <2>3, RequestRefs, OpenStep
<1>2. ASSUME NEW q \in DOMAIN requests, H!UpdateProgress(q)
      PROVE  Ledger!Next
  <2> DEFINE row == [requests[q] EXCEPT !.status = "in_progress"]
  <2>1. requests' = H!Put(requests, q, row) /\ UNCHANGED <<leaves, claims, offers>>
    BY <1>2 DEF H!UpdateProgress
  <2>2. row.contract = requests[q].contract
    BY HrRowTypes DEF H!IsTable, H!OnboardingRequest
  <2> HIDE DEF row
  <2>3. KeepContract(requests, requests', NoRow)
    BY <2>1, <2>2, RequestPut
  <2> QED BY <2>1, <2>3, RequestRefs, OpenStep
<1>3. ASSUME NEW q, H!ApproveRequest(q) \/ H!ApproveLeave(q) \/ H!ApproveClaim(q)
      PROVE  Ledger!Next
  <2>1. UNCHANGED <<requests, leaves, claims, offers>>
    BY <1>3 DEF H!ApproveRequest, H!ApproveLeave, H!ApproveClaim
  <2> QED BY <2>1, KeepSame, RequestRefs, OpenStep
<1>4. ASSUME NEW e \in DOMAIN employees, H!CreateLeaveRequest(e)
      PROVE  Ledger!Next
  <2> DEFINE row == [employee |-> e, status |-> "pending", vc |-> 0]
  <2>1. /\ H!Request /\ leaves' = H!Put(leaves, H!Fresh(leaves), row)
        /\ row.vc = 0 /\ UNCHANGED <<requests, claims, offers>>
    BY <1>4 DEF H!CreateLeaveRequest, H!NoOffer
  <2>2. PICK l : l = H!Fresh(leaves) /\ l \notin DOMAIN leaves
    BY <2>1, HrNext, HrRowTypes
  <2> HIDE DEF row
  <2>3. KeepVc("LeaveApprovalVC", leaves, leaves', NoRow)
    BY <2>1, <2>2, RowPut
  <2> QED BY <2>1, <2>3, LeaveRefs, OpenStep
<1>5. ASSUME NEW e \in DOMAIN employees, H!CreateExpenseClaim(e)
      PROVE  Ledger!Next
  <2> DEFINE row == [employee |-> e, status |-> "pending", vc |-> 0, paidAt |-> FALSE]
  <2>1. /\ H!Request /\ claims' = H!Put(claims, H!Fresh(claims), row)
        /\ row.vc = 0 /\ UNCHANGED <<requests, leaves, offers>>
    BY <1>5 DEF H!CreateExpenseClaim, H!NoOffer
  <2>2. PICK x : x = H!Fresh(claims) /\ x \notin DOMAIN claims
    BY <2>1, HrNext, HrRowTypes
  <2> HIDE DEF row
  <2>3. KeepVc("ExpenseApprovalVC", claims, claims', NoRow)
    BY <2>1, <2>2, RowPut
  <2> QED BY <2>1, <2>3, ClaimRefs, OpenStep
<1>6. ASSUME NEW l \in DOMAIN leaves, H!RejectLeave(l)
      PROVE  Ledger!Next
  <2> DEFINE row == [leaves[l] EXCEPT !.status = "rejected", !.vc = 0]
             h == <<"LeaveApprovalVC", l>>
  <2>1. leaves' = H!Put(leaves, l, row) /\ UNCHANGED <<requests, claims, offers>>
    BY <1>6 DEF H!RejectLeave, H!DecideLeave, H!NoOffer
  <2>2. row.vc = 0
    BY HrRowTypes DEF H!IsTable, H!Leave
  <2> HIDE DEF row
  <2>3. KeepVc("LeaveApprovalVC", leaves, leaves', h)
    BY <2>1, <2>2, RowPut
  <2>4. DOMAIN leaves' = DOMAIN leaves /\ leaves'[l] = row
    BY <2>1 DEF H!Put
  <2>5. RefsKept(h) /\ Rows' = Rows
    BY <2>1, <2>3, <2>4, LeaveRefs
  <2>6. h \in Rows /\ Reference(h)' = 0
    BY <2>2, <2>4, RowsMeaning, RowsMeaningThen
  <2> HIDE DEF h
  <2> QED BY <2>1, <2>5, <2>6, HolderStep
<1>7. ASSUME NEW x \in DOMAIN claims, NEW status, H!SettleClaim(x, status)
      PROVE  Ledger!Next
  <2> DEFINE row == [claims[x] EXCEPT !.status = status, !.vc = claims[x].vc,
                                      !.paidAt = @ \/ status = "paid"]
  <2>1. claims' = H!Put(claims, x, row) /\ UNCHANGED <<requests, leaves, offers>>
    BY <1>7 DEF H!SettleClaim, H!DecideClaim
  <2>2. row.vc = claims[x].vc
    BY HrRowTypes DEF H!IsTable, H!Claim
  <2> HIDE DEF row
  <2>3. KeepVc("ExpenseApprovalVC", claims, claims', NoRow)
    BY <2>1, <2>2, RowPut
  <2> QED BY <2>1, <2>3, ClaimRefs, OpenStep
<1> QED BY <1>1, <1>2, <1>3, <1>4, <1>5, <1>6, <1>7 DEF H!Requests

\* What createOffer does to the offers, for the tables of Hr.
LEMMA HrOffer ==
    ASSUME NEW type \in OfferTypes, NEW of \in Nat, NEW since \in Nat, NEW h,
           Holder(type, of)' = h
    PROVE  /\ H!Offered(type, of, since) =>
                 \E o \in Offer : offers' = Append(offers, o) /\ Holder(o.type, o.of)' = h
           /\ H!Refused(type, of, since) =>
                 \/ offers' = offers
                 \/ \E o \in Offer : offers' = Append(offers, o) /\ Holder(o.type, o.of)' = h
<1>1. \A lost \in BOOLEAN :
         /\ OfferFor(type, of, since, lost) \in Offer
         /\ OfferFor(type, of, since, lost).type = type
         /\ OfferFor(type, of, since, lost).of = of
  BY DEF OfferFor, Offer
<1>2. \A lost \in BOOLEAN : H!NewOffer(type, of, since, lost) =>
         \E o \in Offer : offers' = Append(offers, o) /\ o.type = type /\ o.of = of
  BY <1>1 DEF H!NewOffer, OfferFor
<1>3. \A o : o.type = type /\ o.of = of => Holder(o.type, o.of)' = h
  OBVIOUS
<1> QED BY <1>2, <1>3 DEF H!Offered, H!Refused

\* What an approval finds in its rows.
LEMMA ContractCallFacts ==
    ASSUME PayrollRows, HrRows, Shared, NEW c, H!Awaiting(c, "contract")
    PROVE  \E q \in DOMAIN requests, e \in Nat, since \in Nat :
              /\ hrCalls[c].request = q /\ hrCalls[c].employee = e /\ hrCalls[c].since = since
              /\ requests[q] \in H!OnboardingRequest
              /\ Holder("EmploymentContractVC", e)' = <<"EmploymentContractVC", q>>
<1>1. /\ c \in DOMAIN hrCalls /\ hrCalls[c] \in H!ContractCall
      /\ hrCalls[c].request \in DOMAIN requests
      /\ hrCalls[c].employee \in DOMAIN employees
      /\ employees[hrCalls[c].employee].candidate = hrCalls[c].request
  BY HrCallTypes DEF H!Awaiting
<1>2. PICK q, e : hrCalls[c].request = q /\ hrCalls[c].employee = e
  OBVIOUS
<1>3. requests[q] \in H!OnboardingRequest
  BY <1>1, <1>2, HrRowTypes DEF H!IsTable
<1>4. e \in Nat /\ hrCalls[c].since \in Nat
  BY <1>1, <1>2 DEF H!ContractCall, H!Ids
<1>5. employees'[e].candidate = q
  BY <1>1, <1>2 DEF Shared
<1>6. Holder("EmploymentContractVC", e)' = <<"EmploymentContractVC", q>>
  BY <1>5 DEF Holder
<1> QED BY <1>1, <1>2, <1>3, <1>4, <1>6

LEMMA LeaveCallFacts ==
    ASSUME HrRows, NEW c, H!Awaiting(c, "leave")
    PROVE  \E l \in DOMAIN leaves, since \in Nat :
              /\ hrCalls[c].leave = l /\ hrCalls[c].since = since
              /\ l \in Nat /\ leaves[l] \in H!Leave
              /\ Holder("LeaveApprovalVC", l)' = <<"LeaveApprovalVC", l>>
<1>1. /\ c \in DOMAIN hrCalls /\ hrCalls[c] \in H!LeaveCall
      /\ hrCalls[c].leave \in DOMAIN leaves
  BY HrCallTypes DEF H!Awaiting
<1>2. PICK l : hrCalls[c].leave = l
  OBVIOUS
<1>3. l \in Nat /\ hrCalls[c].since \in Nat /\ leaves[l] \in H!Leave
  BY <1>1, <1>2, HrRowTypes DEF H!IsTable, H!LeaveCall, H!Ids
<1>4. Holder("LeaveApprovalVC", l)' = <<"LeaveApprovalVC", l>>
  BY DEF Holder
<1> QED BY <1>1, <1>2, <1>3, <1>4

LEMMA ClaimCallFacts ==
    ASSUME HrRows, NEW c, H!Awaiting(c, "expense")
    PROVE  \E x \in DOMAIN claims, since \in Nat :
              /\ hrCalls[c].claim = x /\ hrCalls[c].since = since
              /\ x \in Nat /\ claims[x] \in H!Claim
              /\ Holder("ExpenseApprovalVC", x)' = <<"ExpenseApprovalVC", x>>
<1>1. /\ c \in DOMAIN hrCalls /\ hrCalls[c] \in H!ClaimCall
      /\ hrCalls[c].claim \in DOMAIN claims
  BY HrCallTypes DEF H!Awaiting
<1>2. PICK x : hrCalls[c].claim = x
  OBVIOUS
<1>3. x \in Nat /\ hrCalls[c].since \in Nat /\ claims[x] \in H!Claim
  BY <1>1, <1>2, HrRowTypes DEF H!IsTable, H!ClaimCall, H!Ids
<1>4. Holder("ExpenseApprovalVC", x)' = <<"ExpenseApprovalVC", x>>
  BY DEF Holder
<1> QED BY <1>1, <1>2, <1>3, <1>4

\* approveRequest: an offer for the employee, held by the request.
LEMMA ContractAnswerOffers ==
    ASSUME PayrollRows, HrRows, Shared, PayrollTablesStay, NEW c,
           H!ContractOffered(c) \/ H!ContractRefused(c)
    PROVE  Ledger!Next
<1>0. H!Awaiting(c, "contract") /\ UNCHANGED <<leaves, claims>>
  BY DEF H!ContractOffered, H!ContractRefused
<1>1. PICK q \in DOMAIN requests, e \in Nat, since \in Nat :
         /\ hrCalls[c].request = q /\ hrCalls[c].employee = e /\ hrCalls[c].since = since
         /\ requests[q] \in H!OnboardingRequest
         /\ Holder("EmploymentContractVC", e)' = <<"EmploymentContractVC", q>>
  BY <1>0, ContractCallFacts
<1> DEFINE h == <<"EmploymentContractVC", q>>
<1>2. h \in Rows
  BY RowsMeaning
<1>3. CASE H!ContractOffered(c)
  <2> DEFINE row == [requests[q] EXCEPT !.status = "completed", !.employee = e,
                                        !.contract = Len(offers) + 1]
  <2>1. /\ H!Offered("EmploymentContractVC", e, since)
        /\ requests' = H!Put(requests, q, row)
    BY <1>1, <1>3 DEF H!ContractOffered, H!OfferId
  <2>2. row.contract = Len(offers) + 1
    BY <1>1 DEF H!OnboardingRequest
  <2> HIDE DEF row
  <2>3. PICK o \in Offer : offers' = Append(offers, o) /\ Holder(o.type, o.of)' = h
    BY <1>1, <2>1, HrOffer DEF OfferTypes
  <2>4. KeepContract(requests, requests', h)
    BY <2>1, RequestPut
  <2>5. DOMAIN requests' = DOMAIN requests /\ requests'[q] = row
    BY <2>1 DEF H!Put
  <2>6. RefsKept(h) /\ Rows' = Rows
    BY <1>0, <2>4, <2>5, RequestRefs
  <2>7. Reference(h)' = Len(offers) + 1
    BY <2>2, <2>5, RowsMeaningThen
  <2> HIDE DEF h
  <2> QED BY <1>2, <2>3, <2>6, <2>7, OfferedStep
<1>4. CASE H!ContractRefused(c)
  <2> DEFINE row == [requests[q] EXCEPT !.status = "completed", !.employee = e]
  <2>1. /\ H!Refused("EmploymentContractVC", e, since)
        /\ requests' = H!Put(requests, q, row)
    BY <1>1, <1>4 DEF H!ContractRefused
  <2>2. row.contract = requests[q].contract
    BY <1>1 DEF H!OnboardingRequest
  <2> HIDE DEF row
  <2>3. \/ offers' = offers
        \/ \E o \in Offer : offers' = Append(offers, o) /\ Holder(o.type, o.of)' = h
    BY <1>1, <2>1, HrOffer DEF OfferTypes
  <2>4. KeepContract(requests, requests', NoRow)
    BY <2>1, <2>2, RequestPut
  <2>5. DOMAIN requests' = DOMAIN requests
    BY <2>1 DEF H!Put
  <2>6. RefsKept(NoRow) /\ Rows' = Rows
    BY <1>0, <2>4, <2>5, RequestRefs
  <2> HIDE DEF h
  <2> QED BY <1>2, <2>3, <2>6, RefusedStep
<1> QED BY <1>3, <1>4

\* updateLeaveStatus: a refused approval writes its row without an offer.
LEMMA LeaveAnswerOffers ==
    ASSUME PayrollRows, HrRows, Shared, PayrollTablesStay, NEW c,
           H!LeaveOffered(c) \/ H!LeaveRefused(c)
    PROVE  Ledger!Next
<1>0. H!Awaiting(c, "leave") /\ UNCHANGED <<requests, claims>>
  BY DEF H!LeaveOffered, H!LeaveRefused
<1>1. PICK l \in DOMAIN leaves, since \in Nat :
         /\ hrCalls[c].leave = l /\ hrCalls[c].since = since
         /\ l \in Nat /\ leaves[l] \in H!Leave
         /\ Holder("LeaveApprovalVC", l)' = <<"LeaveApprovalVC", l>>
  BY <1>0, LeaveCallFacts
<1> DEFINE h == <<"LeaveApprovalVC", l>>
<1>2. h \in Rows
  BY RowsMeaning
<1>3. ASSUME NEW ref, leaves' = H!Put(leaves, l, [leaves[l] EXCEPT !.status = "approved", !.vc = ref])
      PROVE  RefsKept(h) /\ Rows' = Rows /\ Reference(h)' = ref
  <2> DEFINE row == [leaves[l] EXCEPT !.status = "approved", !.vc = ref]
  <2>1. leaves' = H!Put(leaves, l, row)
    BY <1>3
  <2>2. row.vc = ref
    BY <1>1 DEF H!Leave
  <2> HIDE DEF row
  <2>3. KeepVc("LeaveApprovalVC", leaves, leaves', h)
    BY <2>1, RowPut
  <2>4. DOMAIN leaves' = DOMAIN leaves /\ leaves'[l] = row
    BY <2>1 DEF H!Put
  <2>5. RefsKept(h) /\ Rows' = Rows
    BY <1>0, <2>3, <2>4, LeaveRefs
  <2> QED BY <2>2, <2>4, <2>5, RowsMeaningThen
<1>4. CASE H!LeaveOffered(c)
  <2>1. /\ H!Offered("LeaveApprovalVC", l, since)
        /\ leaves' = H!Put(leaves, l, [leaves[l] EXCEPT !.status = "approved",
                                                        !.vc = Len(offers) + 1])
    BY <1>1, <1>4 DEF H!LeaveOffered, H!DecideLeave, H!OfferId
  <2>2. PICK o \in Offer : offers' = Append(offers, o) /\ Holder(o.type, o.of)' = h
    BY <1>1, <2>1, HrOffer DEF OfferTypes
  <2>3. RefsKept(h) /\ Rows' = Rows /\ Reference(h)' = Len(offers) + 1
    BY <1>3, <2>1
  <2> HIDE DEF h
  <2> QED BY <1>2, <2>2, <2>3, OfferedStep
<1>5. CASE H!LeaveRefused(c)
  <2>1. /\ H!Refused("LeaveApprovalVC", l, since)
        /\ leaves' = H!Put(leaves, l, [leaves[l] EXCEPT !.status = "approved", !.vc = 0])
    BY <1>1, <1>5 DEF H!LeaveRefused, H!DecideLeave, H!NoOffer
  <2>2. \/ offers' = offers
        \/ \E o \in Offer : offers' = Append(offers, o) /\ Holder(o.type, o.of)' = h
    BY <1>1, <2>1, HrOffer DEF OfferTypes
  <2>3. RefsKept(h) /\ Rows' = Rows /\ Reference(h)' = 0
    BY <1>3, <2>1
  <2> HIDE DEF h
  <2> QED BY <1>2, <2>2, <2>3, HolderStep
<1> QED BY <1>4, <1>5

\* updateExpenseStatus: a refused approval keeps the offer of its row.
LEMMA ClaimAnswerOffers ==
    ASSUME PayrollRows, HrRows, Shared, PayrollTablesStay, NEW c,
           H!ClaimOffered(c) \/ H!ClaimRefused(c)
    PROVE  Ledger!Next
<1>0. H!Awaiting(c, "expense") /\ UNCHANGED <<requests, leaves>>
  BY DEF H!ClaimOffered, H!ClaimRefused
<1>1. PICK x \in DOMAIN claims, since \in Nat :
         /\ hrCalls[c].claim = x /\ hrCalls[c].since = since
         /\ x \in Nat /\ claims[x] \in H!Claim
         /\ Holder("ExpenseApprovalVC", x)' = <<"ExpenseApprovalVC", x>>
  BY <1>0, ClaimCallFacts
<1> DEFINE h == <<"ExpenseApprovalVC", x>>
           row(ref) == [claims[x] EXCEPT !.status = "approved", !.vc = ref,
                                         !.paidAt = @ \/ "approved" = "paid"]
<1>2. h \in Rows
  BY RowsMeaning
<1>3. \A ref : row(ref).vc = ref
  BY <1>1 DEF H!Claim
<1> HIDE DEF row
<1>4. ASSUME NEW ref, claims' = H!Put(claims, x, row(ref))
      PROVE  /\ RefsKept(h) /\ Rows' = Rows /\ Reference(h)' = ref
             /\ ref = claims[x].vc => RefsKept(NoRow)
  <2>1. PICK r : r = row(ref) /\ r.vc = ref
    BY <1>3
  <2>2. claims' = H!Put(claims, x, r)
    BY <1>4, <2>1
  <2>3. /\ KeepVc("ExpenseApprovalVC", claims, claims', h)
        /\ ref = claims[x].vc => KeepVc("ExpenseApprovalVC", claims, claims', NoRow)
    BY <2>1, <2>2, RowPut
  <2>4. DOMAIN claims' = DOMAIN claims /\ claims'[x] = r
    BY <2>2 DEF H!Put
  <2>5. RefsKept(h) /\ Rows' = Rows /\ (ref = claims[x].vc => RefsKept(NoRow))
    BY <1>0, <2>3, <2>4, ClaimRefs
  <2> QED BY <2>1, <2>4, <2>5, RowsMeaningThen
<1>5. CASE H!ClaimOffered(c)
  <2>1. /\ H!Offered("ExpenseApprovalVC", x, since)
        /\ claims' = H!Put(claims, x, row(Len(offers) + 1))
    BY <1>1, <1>5 DEF H!ClaimOffered, H!DecideClaim, H!OfferId, row
  <2>2. PICK o \in Offer : offers' = Append(offers, o) /\ Holder(o.type, o.of)' = h
    BY <1>1, <2>1, HrOffer DEF OfferTypes
  <2>3. RefsKept(h) /\ Rows' = Rows /\ Reference(h)' = Len(offers) + 1
    BY <1>4, <2>1
  <2> HIDE DEF h
  <2> QED BY <1>2, <2>2, <2>3, OfferedStep
<1>6. CASE H!ClaimRefused(c)
  <2>1. /\ H!Refused("ExpenseApprovalVC", x, since)
        /\ claims' = H!Put(claims, x, row(claims[x].vc))
    BY <1>1, <1>6 DEF H!ClaimRefused, H!DecideClaim, row
  <2>2. \/ offers' = offers
        \/ \E o \in Offer : offers' = Append(offers, o) /\ Holder(o.type, o.of)' = h
    BY <1>1, <2>1, HrOffer DEF OfferTypes
  <2>3. RefsKept(NoRow) /\ Rows' = Rows
    BY <1>4, <2>1
  <2> HIDE DEF h
  <2> QED BY <1>2, <2>2, <2>3, RefusedStep
<1> QED BY <1>5, <1>6

\* Every step of the system is one of the ledger.
LEMMA LedgerStep ==
    ASSUME IInv, [Next]_vars
    PROVE  [Ledger!Next]_Ledger!vars
<1>1. PayrollRows /\ HrRows /\ Shared
  BY StepOfAll DEF IInv, PayrollInv, HrInv
<1>2. CASE PayrollStep
  <2>1. (P!Requests \/ P!Answers) /\ HrTablesStay
    BY <1>2 DEF PayrollStep, OnlyPayroll, hrVars, HrTablesStay
  <2>2. CASE P!Requests
    BY <1>1, <2>1, <2>2, PayrollOpens
  <2>3. CASE P!Answers
    <3>1. PICK c : P!Answer(c)
      BY <2>3 DEF P!Answers
    <3> QED BY <1>1, <2>1, <3>1, PayrollAnswerOffers
  <2> QED BY <2>1, <2>2, <2>3
<1>3. CASE HrStep
  <2>1. (H!Requests \/ H!Answers \/ H!WriteAudit) /\ PayrollTablesStay
    BY <1>3 DEF HrStep, OnlyHr, payrollVars, PayrollTablesStay
  <2>2. CASE H!Requests
    BY <1>1, <2>1, <2>2, HrOpens
  <2>3. CASE H!Answers
    <3>1. PICK c : H!Answer(c)
      BY <2>3 DEF H!Answers
    <3> QED BY <1>1, <2>1, <3>1, ContractAnswerOffers, LeaveAnswerOffers, ClaimAnswerOffers
            DEF H!Answer
  <2>4. CASE H!WriteAudit
    <3>1. UNCHANGED <<requests, leaves, claims, offers>>
      BY <2>4 DEF H!WriteAudit
    <3> QED BY <1>1, <2>1, <3>1, KeepSame, RequestRefs, OpenStep
  <2> QED BY <2>1, <2>2, <2>3, <2>4
<1>4. CASE RegistryStep \/ Crash \/ UNCHANGED vars
  <2>1. HrTablesStay /\ PayrollTablesStay /\ offers' = offers
    BY <1>4 DEF RegistryStep, OnlyRegistry, payrollVars, hrVars, C!CredentialNext,
       C!CreateCredentialOffer, C!CredentialMapper, C!RevokeCredential, C!VerifyPresentation,
       C!PresentationVerified, C!PresentationRejected, Crash, P!Crash, H!Crash, vars,
       HrTablesStay, PayrollTablesStay
  <2> QED BY <1>1, <2>1, KeepSame, RequestRefs, OpenStep DEF HrTablesStay
<1> QED BY <1>2, <1>3, <1>4 DEF Next

LEMMA LedgerInit == Init => Ledger!Init
<1> SUFFICES ASSUME Init
             PROVE  Ledger!Init
  OBVIOUS
<1>1. /\ DOMAIN payslips = {} /\ DOMAIN runs = {} /\ DOMAIN filings = {}
      /\ DOMAIN requests = {} /\ DOMAIN leaves = {} /\ DOMAIN claims = {} /\ offers = <<>>
  BY DEF Init, P!Init, H!Init, P!EmptyTable, H!EmptyTable
<1>2. Rows = {}
  BY <1>1 DEF Rows
<1>3. Made = <<>>
  <2>1. DOMAIN Made = 1..0 /\ DOMAIN offers = {}
    BY <1>1 DEF Made
  <2> QED BY <2>1 DEF Made
<1>4. Held = [h \in {} |-> 0]
  BY <1>2 DEF Held
<1> QED BY <1>3, <1>4, LedgerMeaning

\* The six tables and the offers implement OfferLedger, for any rows, requests and
\* failures: a credential id in a row is that of an offer made for that row, when it
\* was made (issuePayslips, issueTaxComplianceVC, approveRequest, updateLeaveStatus,
\* updateExpenseStatus).
THEOREM PeopleImplementLedger == Spec => ImplementsLedger
<1>1. Init => Ledger!Init
  BY LedgerInit
<1>2. IInv /\ [Next]_vars => [Ledger!Next]_Ledger!vars
  BY LedgerStep
<1> QED BY <1>1, <1>2, IInvAlways, PTL DEF Spec, ImplementsLedger, Ledger!Spec
=============================================================================
