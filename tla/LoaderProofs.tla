---------------------------- MODULE LoaderProofs ----------------------------
(***************************************************************************)
(* Proofs about Loader, for any cells, sizes, context and memory: a loaded *)
(* library stays whole and a caller gets the function it asked for.        *)
(***************************************************************************)
EXTENDS Loader, TLAPS, FiniteSetTheorems

\* Initially nothing is loaded and nothing was asked for.
LEMMA InitInd == Init => IndInv
BY SizesAssumption DEF Init, IndInv, TypeOK, LibraryIntact, RightSymbol, Free, Cells

\* A hit hands out what the table holds and changes nothing else.
LEMMA HitInd ==
  ASSUME NEW h \in Hashes, NEW t \in Types, IndInv, Hit(h, t)
  PROVE  IndInv'
<1> DEFINE cell == <<h, t>>
<1>1. cell \in Cells /\ LibKey(h, t) = cell
  BY DEF LibKey, Cells
<1>2. /\ cell \in DOMAIN loaded_lib
      /\ memory' = memory /\ context_used' = context_used /\ loaded_lib' = loaded_lib
      /\ Symbol(cell, loaded_lib[cell])
  BY <1>1 DEF Hit
<1>3. TypeOK'
  BY <1>2 DEF IndInv, TypeOK, Symbol, Answer
<1>4. LibraryIntact'
  BY <1>2 DEF IndInv, LibraryIntact, Holds
<1>5. RightSymbol'
  BY <1>2, <1>4 DEF RightSymbol, LibraryIntact, Holds, Symbol, Answer
<1>6. QED
  BY <1>2, <1>3, <1>4, <1>5 DEF IndInv, Symbol, Answer

\* Writing from context_used on leaves the pages of every library alone.
LEMMA WriteAbove ==
  ASSUME IndInv, NEW cell, NEW n \in Nat, Write(cell, context_used, n),
         NEW k \in DOMAIN loaded_lib
  PROVE  \A p \in Region(loaded_lib[k], Size[k]) : memory'[p] = k
<1>1. /\ k \in Cells /\ Size[k] \in Nat /\ loaded_lib[k] \in Nat /\ context_used \in Nat
      /\ loaded_lib[k] + Size[k] <= context_used
  BY SizesAssumption DEF IndInv, TypeOK
<1>2. \A p \in Region(loaded_lib[k], Size[k]) : p \in Page /\ p \notin Region(context_used, n)
  BY <1>1, SizesAssumption DEF Region, Page
<1>3. \A p \in Region(loaded_lib[k], Size[k]) : memory[p] = k
  BY DEF IndInv, LibraryIntact, Holds
<1>4. QED
  BY <1>2, <1>3 DEF Write

\* A write of a cell's pages keeps the memory's type.
LEMMA WriteType ==
  ASSUME IndInv, NEW cell \in Cells, NEW n \in Nat, Write(cell, context_used, n)
  PROVE  memory' \in [Page -> Cells \cup {Free}]
BY DEF IndInv, TypeOK, Write

\* A load puts its library behind all others.
LEMMA LoadInd ==
  ASSUME NEW h \in Hashes, NEW t \in Types, IndInv, Load(h, t)
  PROVE  IndInv'
<1> DEFINE cell == <<h, t>>
<1>1. cell \in Cells /\ LibKey(h, t) = cell
  BY DEF LibKey, Cells
<1> HIDE DEF cell
<1>2. /\ cell \notin DOMAIN loaded_lib
      /\ Write(cell, context_used, Size[cell])
      /\ context_used' = context_used + Size[cell]
      /\ loaded_lib' = [k \in DOMAIN loaded_lib \cup {cell} |->
                          IF k = cell THEN context_used ELSE loaded_lib[k]]
      /\ Symbol(cell, context_used)
  BY <1>1 DEF Load, Missing, NextOffset, cell
<1>3. Size[cell] \in Nat /\ context_used \in Nat
  BY <1>1, SizesAssumption DEF IndInv, TypeOK
<1>4. /\ DOMAIN loaded_lib' = DOMAIN loaded_lib \cup {cell}
      /\ loaded_lib'[cell] = context_used
      /\ \A k \in DOMAIN loaded_lib : loaded_lib'[k] = loaded_lib[k]
  BY <1>2
<1>5. \A p \in Region(context_used, Size[cell]) : memory'[p] = cell
  BY <1>2 DEF Write, Region
<1>6. LibraryIntact'
  <2>1. ASSUME NEW k \in DOMAIN loaded_lib
        PROVE  \A p \in Region(loaded_lib[k], Size[k]) : memory'[p] = k
    BY <1>2, <1>3, WriteAbove
  <2>2. QED
    BY <1>4, <1>5, <2>1 DEF LibraryIntact, Holds
<1>7. TypeOK'
  <2>1. memory' \in [Page -> Cells \cup {Free}]
    BY <1>1, <1>2, <1>3, WriteType
  <2>2. context_used' \in Nat
    BY <1>2, <1>3
  <2>3. /\ DOMAIN loaded_lib' \subseteq Cells
        /\ \A k \in DOMAIN loaded_lib' : loaded_lib'[k] \in Nat
    BY <1>1, <1>3, <1>4 DEF IndInv, TypeOK
  <2>4. answer'.res \in {"symbol", "LoadDLFuncError"}
    BY <1>2 DEF Symbol, Answer
  <2>5. QED
    BY <2>1, <2>2, <2>3, <2>4 DEF TypeOK
<1>8. \A k \in DOMAIN loaded_lib' : loaded_lib'[k] + Size[k] <= context_used'
  <2>1. ASSUME NEW k \in DOMAIN loaded_lib
        PROVE  loaded_lib[k] + Size[k] <= context_used + Size[cell]
    <3>1. /\ k \in Cells /\ loaded_lib[k] \in Nat
          /\ loaded_lib[k] + Size[k] <= context_used
      BY DEF IndInv, TypeOK
    <3>2. Size[k] \in Nat
      BY <3>1, SizesAssumption
    <3>3. QED
      BY <3>1, <3>2, <1>3
  <2>2. QED
    BY <1>2, <1>3, <1>4, <2>1
<1>9. answer'.asked = cell /\ answer'.at = context_used
      /\ (answer'.res = "symbol" => cell \in Exporting)
  BY <1>2 DEF Symbol, Answer
<1>10. RightSymbol'
  BY <1>5, <1>9 DEF RightSymbol, Holds
<1>11. QED
  BY <1>4, <1>6, <1>7, <1>8, <1>9, <1>10 DEF IndInv

\* A load that fails may have written, but only behind the libraries.
LEMMA LoadFailsInd ==
  ASSUME NEW h \in Hashes, NEW t \in Types, IndInv, LoadFails(h, t)
  PROVE  IndInv'
<1> DEFINE cell == <<h, t>>
<1>1. cell \in Cells
  BY DEF Cells
<1> HIDE DEF cell
<1>2. PICK n \in Nat : /\ Write(cell, context_used, n) \/ memory' = memory
                       /\ context_used' = context_used
  BY <1>1, SizesAssumption DEF LoadFails, FailedOffset, cell
<1>3. /\ loaded_lib' = loaded_lib
      /\ answer' = [res |-> "LoadDLError", asked |-> cell, at |-> 0]
  BY DEF LoadFails, Answer, cell
<1>4. TypeOK'
  <2>1. memory' \in [Page -> Cells \cup {Free}]
    BY <1>1, <1>2, WriteType DEF IndInv, TypeOK
  <2>2. QED
    BY <1>2, <1>3, <2>1 DEF IndInv, TypeOK
<1>5. LibraryIntact'
  <2>1. ASSUME NEW k \in DOMAIN loaded_lib
        PROVE  \A p \in Region(loaded_lib[k], Size[k]) : memory'[p] = k
    BY <1>2, WriteAbove DEF IndInv, LibraryIntact, Holds
  <2>2. QED
    BY <1>3, <2>1 DEF LibraryIntact, Holds
<1>6. RightSymbol'
  BY <1>3 DEF RightSymbol
<1>7. QED
  BY <1>2, <1>3, <1>4, <1>5, <1>6 DEF IndInv

\* The inductive invariant of Loader: libraries lie below context_used, whole.
THEOREM Inductive == Spec => []IndInv
<1>1. Init => IndInv
  BY InitInd
<1>2. IndInv /\ [Next]_vars => IndInv'
  <2>1. ASSUME IndInv, Next
        PROVE  IndInv'
    BY <2>1, HitInd, LoadInd, LoadFailsInd DEF Next
  <2>2. ASSUME IndInv, UNCHANGED vars
        PROVE  IndInv'
    BY <2>2 DEF vars, IndInv, TypeOK, LibraryIntact, RightSymbol, Holds
  <2>3. QED
    BY <2>1, <2>2
<1>3. QED
  BY <1>1, <1>2, PTL DEF Spec

\* The loader's types hold throughout.
THEOREM TypeCorrect == Spec => []TypeOK
<1>1. IndInv => TypeOK
  BY DEF IndInv
<1>2. QED
  BY <1>1, Inductive, PTL

\* No load, complete or not, damages a library that get_lib has handed out.
THEOREM LibrariesStayIntact == Spec => []LibraryIntact
<1>1. IndInv => LibraryIntact
  BY DEF IndInv
<1>2. QED
  BY <1>1, Inductive, PTL

\* get_validate_func's symbol is the exported function of the cell asked for.
THEOREM SymbolIsRight == Spec => []RightSymbol
<1>1. IndInv => RightSymbol
  BY DEF IndInv
<1>2. QED
  BY <1>1, Inductive, PTL

-----------------------------------------------------------------------------
\* The sum of the sizes, as the fold over a set computes it: one element after
\* the other is taken out.
Taken(s) == CHOOSE x \in s : TRUE

Step(g, s) == IF s = {} THEN 0 ELSE Size[Taken(s)] + g[s \ {Taken(s)}]

Sums(g, S) == g = [s \in SUBSET S |-> Step(g, s)]

Total(S) == (CHOOSE g : Sums(g, S))[S]

\* Among parts of a finite set there is one that has none of the others in it.
LEMMA SmallestSet ==
  ASSUME NEW All, IsFiniteSet(All), NEW Sets, Sets \subseteq SUBSET All, Sets # {}
  PROVE  \E m \in Sets : \A s \in Sets : ~(s \subseteq m /\ s # m)
<1> DEFINE R == StrictSubsetOrdering(All)
<1>1. Sets \subseteq FiniteSubsetsOf(All)
  BY FS_FiniteSubsetsOfFinite
<1>2. IsWellFoundedOn(R, FiniteSubsetsOf(All))
  BY FS_StrictSubsetOrderingWellFounded
<1>3. R = { ss \in (SUBSET All) \X (SUBSET All) : ss[1] \subseteq ss[2] /\ ss[1] # ss[2] }
  BY DEF StrictSubsetOrdering
<1> HIDE DEF R
<1>4. PICK m \in Sets : \A s \in Sets : ~(<<s, m>> \in R)
  BY <1>1, <1>2, WFMin
<1>5. ASSUME NEW s \in Sets, s \subseteq m, s # m PROVE FALSE
  <2>1. <<s, m>> \in (SUBSET All) \X (SUBSET All) /\ <<s, m>>[1] = s /\ <<s, m>>[2] = m
    OBVIOUS
  <2>2. <<s, m>> \in R
    BY <1>3, <1>5, <2>1
  <2>3. QED
    BY <1>4, <2>2
<1>6. QED
  BY <1>5

\* What is taken is in the set, and less is left.
LEMMA TakenIs ==
  ASSUME NEW s, s # {}
  PROVE  /\ Taken(s) \in s
         /\ s \ {Taken(s)} \subseteq s /\ s \ {Taken(s)} # s
<1>1. Taken(s) \in s
  BY DEF Taken
<1>2. QED
  BY <1>1

\* The sum of a set does not depend on the set it is a part of.
LEMMA SumsAgree ==
  ASSUME NEW S, NEW T, NEW g, NEW h, Sums(g, S), Sums(h, T),
         NEW s, s \subseteq S, s \subseteq T, IsFiniteSet(s)
  PROVE  g[s] = h[s]
<1> SUFFICES ASSUME g[s] # h[s] PROVE FALSE
  OBVIOUS
<1> DEFINE F == { u \in SUBSET s : g[u] # h[u] }
<1>1. F \subseteq SUBSET s
  OBVIOUS
<1>3. PICK m \in F : \A u \in F : ~(u \subseteq m /\ u # m)
  <2>1. F # {}
    OBVIOUS
  <2> HIDE DEF F
  <2>2. QED
    BY <1>1, <2>1, SmallestSet
<1>4. m \in SUBSET S /\ m \in SUBSET T /\ m \subseteq s
  BY <1>3
<1>5. g[m] = Step(g, m) /\ h[m] = Step(h, m)
  BY <1>4 DEF Sums
<1>6. m # {}
  <2>1. SUFFICES ASSUME m = {} PROVE FALSE
    OBVIOUS
  <2>2. Step(g, m) = 0 /\ Step(h, m) = 0
    BY <2>1 DEF Step
  <2>3. QED
    BY <1>3, <1>5, <2>2
<1> DEFINE u == m \ {Taken(m)}
<1>7. u \subseteq m /\ u # m
  BY <1>6, TakenIs
<1> HIDE DEF u
<1>8. g[u] = h[u]
  BY <1>3, <1>4, <1>7
<1>9. Step(g, m) = Step(h, m)
  BY <1>6, <1>8 DEF Step, u
<1>10. QED
  BY <1>3, <1>5, <1>9

\* Every finite set has its sums.
LEMMA SumsExist ==
  ASSUME NEW S, IsFiniteSet(S)
  PROVE  \E g : Sums(g, S)
<1> DEFINE None(u) == ~ \E g : Sums(g, u)
<1> SUFFICES ASSUME None(S) PROVE FALSE
  OBVIOUS
<1> DEFINE F == { u \in SUBSET S : None(u) }
<1>1. F \subseteq SUBSET S
  OBVIOUS
<1>3. PICK m \in F : \A u \in F : ~(u \subseteq m /\ u # m)
  <2>1. F # {}
    OBVIOUS
  <2> HIDE DEF F, None
  <2>2. QED
    BY <1>1, <2>1, SmallestSet
<1> DEFINE Of(u) == CHOOSE g : Sums(g, u)
<1>4. m \subseteq S /\ IsFiniteSet(m) /\ ~ \E g : Sums(g, m)
  BY <1>3, FS_Subset
<1>5. ASSUME NEW u \in SUBSET m, u # m PROVE Sums(Of(u), u) /\ IsFiniteSet(u)
  <2>1. \E g : Sums(g, u)
    <3>1. u \notin F /\ u \in SUBSET S
      <4>1. u \subseteq m /\ u # m /\ u \subseteq S
        BY <1>4, <1>5
      <4> HIDE DEF F
      <4>2. QED
        BY <1>3, <4>1
    <3>2. QED
      BY <3>1
  <2>2. QED
    BY <1>4, <2>1, FS_Subset
<1> DEFINE rest == m \ {Taken(m)}
           g == [u \in SUBSET m |-> IF u # m THEN Of(u)[u]
                                    ELSE IF m = {} THEN 0 ELSE Size[Taken(m)] + Of(rest)[rest]]
<1>6. ASSUME NEW u \in SUBSET m PROVE g[u] = Step(g, u)
  <2>1. CASE u = {}
    <3>1. u # m => Of(u)[u] = 0
      <4> SUFFICES ASSUME u # m PROVE Of(u)[u] = 0
        OBVIOUS
      <4>1. Sums(Of(u), u)
        BY <1>5
      <4> HIDE DEF Of
      <4>2. Of(u)[u] = Step(Of(u), u)
        BY <4>1 DEF Sums
      <4>3. QED
        BY <2>1, <4>2 DEF Step
    <3> HIDE DEF Of
    <3>2. QED
      BY <2>1, <3>1 DEF Step
  <2>2. CASE u # {} /\ u # m
    <3> DEFINE less == u \ {Taken(u)}
    <3>1. less \subseteq u /\ less \subseteq m /\ less # m
      BY <2>2, TakenIs
    <3> HIDE DEF less
    <3>2. Sums(Of(u), u) /\ Sums(Of(less), less) /\ IsFiniteSet(less)
      BY <1>5, <2>2, <3>1
    <3> HIDE DEF Of
    <3>3. Of(u)[u] = Step(Of(u), u)
      BY <3>2 DEF Sums
    <3>4. Of(u)[less] = Of(less)[less]
      BY <3>1, <3>2, SumsAgree
    <3>5. g[u] = Of(u)[u] /\ g[less] = Of(less)[less]
      BY <2>2, <3>1
    <3> HIDE DEF g
    <3>6. Step(Of(u), u) = Step(g, u)
      BY <2>2, <3>4, <3>5 DEF Step, less
    <3>7. QED
      BY <3>3, <3>5, <3>6
  <2>3. CASE u # {} /\ u = m
    <3>1. rest \subseteq m /\ rest # m
      BY <2>3, TakenIs
    <3> HIDE DEF Of, rest
    <3>2. g[m] = Size[Taken(m)] + Of(rest)[rest] /\ g[rest] = Of(rest)[rest]
      BY <2>3, <3>1
    <3> HIDE DEF g
    <3>3. QED
      BY <2>3, <3>2 DEF Step, rest
  <2>4. QED
    BY <2>1, <2>2, <2>3
<1>7. g = [u \in SUBSET m |-> g[u]]
  OBVIOUS
<1> HIDE DEF g
<1>8. Sums(g, m)
  BY <1>6, <1>7 DEF Sums
<1>9. QED
  BY <1>4, <1>8

\* One cell more adds its size, whichever is taken first.
LEMMA SumsAdd ==
  ASSUME NEW S, S \subseteq Cells, NEW g, Sums(g, S),
         NEW s, IsFiniteSet(s), NEW c, c \notin s, s \cup {c} \subseteq S
  PROVE  g[s] \in Nat /\ g[s \cup {c}] = Size[c] + g[s]
<1> DEFINE Good(u, x) == g[u] \in Nat /\ g[u \cup {x}] = Size[x] + g[u]
           F == { u \in SUBSET s : \E x \in S : x \notin u /\ ~Good(u, x) }
<1>1. c \in S /\ s \in SUBSET S
  OBVIOUS
<1> SUFFICES ASSUME ~Good(s, c) PROVE FALSE
  OBVIOUS
<1>2. F \subseteq SUBSET s /\ F # {}
  BY <1>1
<1>4. PICK m \in F : \A u \in F : ~(u \subseteq m /\ u # m)
  <2> HIDE DEF F
  <2>1. QED
    BY <1>2, SmallestSet
<1>5. PICK x \in S : x \notin m /\ ~Good(m, x)
  BY <1>4
<1>6. m \subseteq S /\ m \subseteq s /\ m \cup {x} \in SUBSET S /\ m \in SUBSET S /\ m \cup {x} # {}
  BY <1>1, <1>4, <1>5
<1>7. ASSUME NEW u, u \subseteq m, u # m, NEW y \in S, y \notin u
      PROVE  Good(u, y)
  <2> HIDE DEF Good
  <2>1. u \in SUBSET s
    BY <1>6, <1>7
  <2>2. QED
    BY <1>4, <1>7, <2>1
<1>8. \A k \in S : Size[k] \in Nat
  BY SizesAssumption
<1>9. g[m] \in Nat
  <2>1. CASE m = {}
    <3>1. g[m] = Step(g, m)
      BY <1>6 DEF Sums
    <3>2. QED
      BY <2>1, <3>1 DEF Step
  <2>2. CASE m # {}
    <3> DEFINE y == Taken(m)
               u == m \ {y}
    <3>1. y \in S /\ u \subseteq m /\ u # m /\ y \notin u
      BY <1>6, <2>2, TakenIs
    <3>2. g[m] = Size[y] + g[u]
      <4>1. g[m] = Step(g, m)
        BY <1>6 DEF Sums
      <4>2. QED
        BY <2>2, <4>1 DEF Step
    <3> HIDE DEF y, u
    <3>3. g[u] \in Nat /\ Size[y] \in Nat
      BY <1>7, <1>8, <3>1
    <3>4. QED
      BY <3>2, <3>3
  <2>3. QED
    BY <2>1, <2>2
<1> DEFINE v == m \cup {x}
           y == Taken(v)
<1>10. y \in v /\ y \in S
  BY <1>6, TakenIs
<1>11. g[v] = Size[y] + g[v \ {y}]
  <2>1. g[v] = Step(g, v)
    BY <1>6 DEF Sums
  <2>2. QED
    BY <1>6, <2>1 DEF Step
<1>12. CASE y = x
  <2>1. v \ {y} = m
    BY <1>5, <1>12
  <2>2. QED
    BY <1>5, <1>9, <1>11, <1>12, <2>1
<1>13. CASE y # x
  <2> DEFINE u == m \ {y}
  <2>1. y \in m /\ u \subseteq m /\ u # m /\ y \notin u /\ x \notin u /\ v \ {y} = u \cup {x} /\ m = u \cup {y}
    BY <1>5, <1>10, <1>13
  <2> HIDE DEF u, y, v
  <2>2. g[u \cup {x}] = Size[x] + g[u] /\ g[u \cup {y}] = Size[y] + g[u] /\ g[u] \in Nat
    BY <1>5, <1>7, <1>10, <2>1
  <2>3. Size[x] \in Nat /\ Size[y] \in Nat
    BY <1>5, <1>8, <1>10
  <2>4. g[v] = Size[y] + (Size[x] + g[u]) /\ g[m] = Size[y] + g[u]
    BY <1>11, <2>1, <2>2
  <2>5. g[v] = Size[x] + g[m]
    BY <2>2, <2>3, <2>4
  <2>6. QED
    BY <1>5, <1>9, <2>5 DEF v
<1>14. QED
  BY <1>12, <1>13

\* So the total of a set and one cell more.
LEMMA TotalAdds ==
  ASSUME NEW s, IsFiniteSet(s), NEW c \in Cells, c \notin s, s \subseteq Cells
  PROVE  Total(s \cup {c}) = Size[c] + Total(s)
<1> DEFINE S == s \cup {c}
           g == CHOOSE f : Sums(f, S)
           h == CHOOSE f : Sums(f, s)
<1>1. IsFiniteSet(S) /\ S \subseteq Cells
  BY FS_AddElement
<1>2. Sums(g, S) /\ Sums(h, s)
  BY <1>1, SumsExist
<1>3. Total(S) = g[S] /\ Total(s) = h[s]
  BY DEF Total
<1> HIDE DEF g, h
<1>4. g[s] = h[s]
  BY <1>2, SumsAgree
<1>5. g[s \cup {c}] = Size[c] + g[s]
  BY <1>1, <1>2, SumsAdd
<1>6. QED
  BY <1>3, <1>4, <1>5

\* Only finitely many libraries are ever in the table.
Summed == IsFiniteSet(DOMAIN loaded_lib) /\ OffsetIsSum

\* The offset is the sum when it is that total, before and after a step.
LEMMA OffsetTotal ==
  /\ OffsetIsSum <=> context_used = Total(DOMAIN loaded_lib)
  /\ OffsetIsSum' <=> context_used' = Total(DOMAIN loaded_lib')
BY DEF OffsetIsSum, MapThenSumSet, MapThenFoldSet, Total, Sums, Step, Taken

\* Every step of get_lib keeps the offset the sum.
LEMMA SummedInd == IndInv /\ Summed /\ [Next]_vars => Summed'
<1> SUFFICES ASSUME IndInv, Summed, [Next]_vars PROVE Summed'
  OBVIOUS
<1>1. CASE context_used' = context_used /\ loaded_lib' = loaded_lib
  BY <1>1, OffsetTotal DEF Summed
<1>2. ASSUME NEW h \in Hashes, NEW t \in Types, Load(h, t) PROVE Summed'
  <2> DEFINE cell == <<h, t>>
             D == DOMAIN loaded_lib
  <2>1. cell \in Cells /\ LibKey(h, t) = cell
    BY DEF LibKey, Cells
  <2> HIDE DEF cell
  <2>2. /\ cell \notin D /\ context_used' = context_used + Size[cell]
        /\ DOMAIN loaded_lib' = D \cup {cell}
    BY <1>2, <2>1 DEF Load, Missing, NextOffset, cell
  <2>3. /\ IsFiniteSet(D) /\ D \subseteq Cells /\ context_used = Total(D)
        /\ Size[cell] \in Nat /\ context_used \in Nat
    BY <2>1, OffsetTotal, SizesAssumption DEF Summed, IndInv, TypeOK
  <2> HIDE DEF D
  <2>4. Total(D \cup {cell}) = Size[cell] + Total(D) /\ IsFiniteSet(D \cup {cell})
    BY <2>1, <2>2, <2>3, TotalAdds, FS_AddElement
  <2>5. context_used' = Total(DOMAIN loaded_lib')
    BY <2>2, <2>3, <2>4
  <2>6. QED
    BY <2>2, <2>4, <2>5, OffsetTotal DEF Summed
<1>3. ASSUME NEW h \in Hashes, NEW t \in Types, Hit(h, t) \/ LoadFails(h, t)
      PROVE  context_used' = context_used /\ loaded_lib' = loaded_lib
  BY <1>3 DEF Hit, LoadFails, FailedOffset
<1>4. QED
  BY <1>1, <1>2, <1>3 DEF Next, vars

\* The offset is the sum of the sizes of the libraries in the table: a failed
\* load takes nothing and no library is loaded twice.
THEOREM OffsetSummed == Spec => []OffsetIsSum
<1>1. Init => Summed
  <2> SUFFICES ASSUME Init PROVE Summed
    OBVIOUS
  <2>1. DOMAIN loaded_lib = {} /\ context_used = 0
    BY DEF Init
  <2>2. IsFiniteSet({}) /\ Total({}) = 0
    <3>1. IsFiniteSet({})
      BY FS_EmptySet
    <3> DEFINE e == CHOOSE f : Sums(f, {})
    <3>2. Sums(e, {})
      BY <3>1, SumsExist
    <3>3. Total({}) = e[{}]
      BY DEF Total
    <3> HIDE DEF e
    <3>4. QED
      BY <3>1, <3>2, <3>3 DEF Sums, Step
  <2>3. QED
    BY <2>1, <2>2, OffsetTotal DEF Summed
<1>2. Summed => OffsetIsSum
  BY DEF Summed
<1>3. QED
  BY <1>1, <1>2, SummedInd, Inductive, PTL DEF Spec
=============================================================================
