--------------------------- MODULE LossGuardProofs ---------------------------
(***************************************************************************)
(* Proofs about LossGuard: whatever the limits, the results, the journal   *)
(* and its repairs, a BLOCK stops every entry until the operator           *)
(* acknowledges it; the verdict does not depend on the order of the lines; *)
(* and no entry goes out on a day whose closures reached the daily limit.  *)
(* A net result is what was won less what was lost, each the cardinality   *)
(* of a set of units, so that nothing is summed by recursion.              *)
(***************************************************************************)
EXTENDS LossGuard, FiniteSetTheorems, FunctionTheorems, TLAPS

\* A guard that allows has found no latch and leaves none; any other verdict stops the turn.
LEMMA GuardLatches ==
  ASSUME BlockIsLatched, NEW verdict \in {"ALLOW", "WAIT", "BLOCK"}, Guard(verdict)
  PROVE  /\ blocked' => latch' # "absent"
         /\ verdict = "ALLOW" => ~blocked'
  <1> DEFINE found == Evaluate(journal)
  <1> HIDE DEF found
  <1>1. \/ latch = "valid" /\ verdict = "BLOCK" /\ UNCHANGED <<latch, blocked>>
        \/ latch = "invalid" /\ verdict = "WAIT" /\ UNCHANGED <<latch, blocked>>
        \/ latch = "absent" /\ UNCHANGED <<latch, blocked>>
        \/ verdict = "BLOCK" /\ latch' = "valid"
    BY DEF Guard
  <1> QED BY <1>1 DEF BlockIsLatched

\* Every step keeps it: only the operator takes the latch away, and with it the block.
LEMMA BlockIsLatchedKept ==
  ASSUME BlockIsLatched, [Next]_vars
  PROVE  BlockIsLatched'
  <1>1. CASE BeginPass
    BY <1>1 DEF BeginPass, BlockIsLatched
  <1>2. ASSUME NEW t \in Tickets, Account(t) PROVE BlockIsLatched'
    BY <1>2 DEF Account, BlockIsLatched
  <1>3. CASE FirstGuard
    <2>1. PICK verdict \in {"ALLOW", "WAIT", "BLOCK"} :
             Guard(verdict) /\ pc' = IF verdict = "ALLOW" THEN "entries" ELSE "observe"
      BY <1>3 DEF FirstGuard
    <2> QED BY <2>1, GuardLatches DEF BlockIsLatched
  <1>4. CASE FinalGuard
    <2>1. PICK verdict \in {"ALLOW", "WAIT", "BLOCK"} :
             Guard(verdict) /\ pc' = IF verdict = "ALLOW" THEN "send" ELSE "idle"
      BY <1>4 DEF FinalGuard
    <2> QED BY <2>1, GuardLatches DEF BlockIsLatched
  <1>5. ASSUME NEW t \in Tickets, Enter(t) PROVE BlockIsLatched'
    BY <1>5 DEF Enter, BlockIsLatched
  <1>6. CASE NoEntry
    BY <1>6 DEF NoEntry, BlockIsLatched
  <1>7. CASE EndTurn
    BY <1>7 DEF EndTurn, BlockIsLatched
  <1>8. CASE Gap
    BY <1>8 DEF Gap, BlockIsLatched
  <1>9. CASE Crash
    BY <1>9 DEF Crash, BlockIsLatched
  <1>10. ASSUME NEW t \in Tickets, Close(t) PROVE BlockIsLatched'
    BY <1>10 DEF Close, turn, BlockIsLatched
  <1>11. CASE NextDay
    BY <1>11 DEF NextDay, turn, BlockIsLatched
  <1>12. CASE Acknowledge
    BY <1>12 DEF Acknowledge, BlockIsLatched
  <1>13. CASE Damage
    BY <1>13 DEF Damage, turn, BlockIsLatched
  <1>14. CASE Repair
    BY <1>14 DEF Repair, turn, BlockIsLatched
  <1>15. ASSUME NEW t \in Tickets, Tear(t) PROVE BlockIsLatched'
    BY <1>15 DEF Tear, BlockIsLatched
  <1>16. CASE UNCHANGED vars
    BY <1>16 DEF vars, turn, BlockIsLatched
  <1> QED BY <1>1, <1>2, <1>3, <1>4, <1>5, <1>6, <1>7, <1>8, <1>9, <1>10, <1>11, <1>12,
     <1>13, <1>14, <1>15, <1>16 DEF Next, Turn

\* A position is entered by a turn past the final guard, and by no other step.
LEMMA EntersFromSend ==
  ASSUME Next, NEW t \in Tickets, life[t] = "none", life'[t] = "open"
  PROVE  pc = "send"
  <1>1. ASSUME NEW u \in Tickets, Enter(u) PROVE pc = "send"
    BY <1>1 DEF Enter
  <1>2. ASSUME NEW u \in Tickets, Account(u) PROVE FALSE
    BY <1>2 DEF Account
  <1>3. ASSUME NEW u \in Tickets, Close(u) PROVE FALSE
    BY <1>3 DEF Close
  <1>4. ASSUME UNCHANGED life PROVE FALSE
    BY <1>4
  <1> QED BY <1>1, <1>2, <1>3, <1>4
     DEF Next, Turn, BeginPass, FirstGuard, FinalGuard, NoEntry, EndTurn, Gap, Crash, Tear,
         NextDay, Acknowledge, Damage, Repair, books

-----------------------------------------------------------------------------
(***************************************************************************)
(* Types.                                                                  *)
(***************************************************************************)

\* Time passes up to the oldest age.
LEMMA AgesGrow == \A n \in Ages : Older(n) \in Ages
  BY GuardAssumption DEF Ages, Older, Old

\* What a pass writes is a line.
LEMMA LinesTyped ==
  ASSUME TypeOK
  PROVE  \A t \in Tickets, kind \in Kinds : LineOf(t, kind) \in Line
  BY DEF TypeOK, LineOf, Line

\* A guard writes its latch, or cannot.
LEMMA GuardTypes ==
  ASSUME TypeOK, NEW verdict \in {"ALLOW", "WAIT", "BLOCK"}, Guard(verdict)
  PROVE  /\ latch' \in {"absent", "valid", "invalid"}
         /\ blocked' \in BOOLEAN
         /\ mishaps' \in 0..MaxMishaps
  <1> DEFINE found == Evaluate(journal)
  <1> HIDE DEF found
  <1>1. mishaps' \in 0..MaxMishaps
    BY GuardAssumption DEF Guard, Mishap, Smooth, TypeOK
  <1> QED BY <1>1 DEF Guard, TypeOK

\* The lines of a journal in another order are a journal as long, its lines those of the other.
LEMMA Reordered ==
  ASSUME NEW j \in Seq(Line), NEW k \in Orders(j)
  PROVE  /\ k \in Seq(Line) /\ Len(k) = Len(j) /\ DOMAIN k = DOMAIN j
         /\ \E order \in Bijection(DOMAIN j, DOMAIN j) : \A i \in DOMAIN j : k[i] = j[order[i]]
  <1>1. PICK order \in Surjection(DOMAIN j, DOMAIN j) : k = [i \in DOMAIN j |-> j[order[i]]]
    BY DEF Orders
  <1>2. order \in Surjection(DOMAIN j, DOMAIN j)
    BY <1>1
  <1>3. DOMAIN j = 1..Len(j) /\ Len(j) \in Nat
    OBVIOUS
  <1>4. IsFiniteSet(DOMAIN j)
    BY <1>3, FS_Interval
  <1>5. order \in Bijection(DOMAIN j, DOMAIN j)
    BY <1>2, <1>4, FS_Surjection DEF Bijection
  <1>6. \A i \in DOMAIN j : order[i] \in DOMAIN j /\ j[order[i]] \in Line
    BY <1>2, <1>3 DEF Surjection
  <1>7. k \in [1..Len(j) -> Line]
    BY <1>1, <1>3, <1>6
  <1>8. k \in Seq(Line) /\ Len(k) = Len(j)
    BY <1>3, <1>7
  <1> QED BY <1>1, <1>3, <1>5, <1>7, <1>8

\* Every step keeps the types.
LEMMA TypesKept ==
  ASSUME TypeOK, [Next]_vars
  PROVE  TypeOK'
  <1>1. CASE BeginPass
    BY <1>1 DEF BeginPass, TypeOK, books
  <1>2. ASSUME NEW t \in Tickets, Account(t) PROVE TypeOK'
    <2>1. journal' \in Seq(Line)
      <3>1. CASE journal' = journal
        BY <3>1 DEF TypeOK
      <3>2. ASSUME NEW kind \in {"exact", "inexact"},
                   journal' = Append(journal, LineOf(t, Appended(kind)))
            PROVE  journal' \in Seq(Line)
        <4>1. Appended(kind) \in Kinds
          BY DEF Appended, Kinds
        <4>2. LineOf(t, Appended(kind)) \in Line
          BY <4>1, LinesTyped
        <4> QED BY <3>2, <4>2 DEF TypeOK
      <3> QED BY <1>2, <3>1, <3>2 DEF Account
    <2>2. life' \in [Tickets -> {"none", "open", "closed", "accounted"}]
      BY <1>2 DEF Account, TypeOK
    <2> QED BY <1>2, <2>1, <2>2 DEF Account, TypeOK
  <1>3. CASE FirstGuard
    <2>1. PICK verdict \in {"ALLOW", "WAIT", "BLOCK"} :
             Guard(verdict) /\ pc' = IF verdict = "ALLOW" THEN "entries" ELSE "observe"
      BY <1>3 DEF FirstGuard
    <2> QED BY <1>3, <2>1, GuardTypes DEF FirstGuard, TypeOK, books
  <1>4. CASE FinalGuard
    <2>1. PICK verdict \in {"ALLOW", "WAIT", "BLOCK"} :
             Guard(verdict) /\ pc' = IF verdict = "ALLOW" THEN "send" ELSE "idle"
      BY <1>4 DEF FinalGuard
    <2> QED BY <1>4, <2>1, GuardTypes DEF FinalGuard, TypeOK, books
  <1>5. ASSUME NEW t \in Tickets, Enter(t) PROVE TypeOK'
    BY <1>5 DEF Enter, TypeOK
  <1>6. CASE NoEntry \/ EndTurn
    BY <1>6 DEF NoEntry, EndTurn, TypeOK, books
  <1>7. CASE Gap \/ Crash
    <2>1. mishaps' \in 0..MaxMishaps
      BY <1>7, GuardAssumption DEF Gap, Crash, Mishap, TypeOK
    <2> QED BY <1>7, <2>1 DEF Gap, Crash, TypeOK, books
  <1>8. ASSUME NEW t \in Tickets, Close(t) PROVE TypeOK'
    <2>1. PICK r \in Outcomes : pnl' = [pnl EXCEPT ![t] = r]
      BY <1>8 DEF Close
    <2>2. pnl' \in [Tickets -> Int]
      BY <2>1, GuardAssumption DEF TypeOK
    <2>3. life' \in [Tickets -> {"none", "open", "closed", "accounted"}]
      BY <1>8 DEF Close, TypeOK
    <2> QED BY <1>8, <2>2, <2>3 DEF Close, TypeOK, turn
  <1>9. CASE NextDay
    <2>1. since' \in [Tickets -> Ages]
      BY <1>9, AgesGrow DEF NextDay, TypeOK
    <2>2. journal \in [1..Len(journal) -> Line] /\ Len(journal) \in Nat
      BY DEF TypeOK
    <2>3. \A i \in DOMAIN journal : [journal[i] EXCEPT !.age = Older(journal[i].age)] \in Line
      BY <2>2, AgesGrow DEF Line
    <2>4. journal' \in [1..Len(journal) -> Line]
      BY <1>9, <2>2, <2>3 DEF NextDay
    <2>5. journal' \in Seq(Line)
      BY <2>2, <2>4
    <2> QED BY <1>9, <2>1, <2>5 DEF NextDay, TypeOK, turn
  <1>10. CASE Acknowledge
    BY <1>10 DEF Acknowledge, TypeOK, books, turn
  <1>11. CASE Damage
    <2>1. mishaps' \in 0..MaxMishaps
      BY <1>11, GuardAssumption DEF Damage, Mishap, TypeOK
    <2> QED BY <1>11, <2>1 DEF Damage, TypeOK, books, turn
  <1>12. CASE Repair
    <2>1. CASE journal' \in Orders(journal)
      <3>1. journal' \in Seq(Line)
        BY <2>1, Reordered DEF TypeOK
      <3> QED BY <1>12, <3>1 DEF Repair, TypeOK, turn
    <2>2. CASE \E i \in DOMAIN journal, r \in Outcomes, age \in Ages :
                  journal' = Append(journal, [journal[i] EXCEPT !.r = r, !.age = age,
                                                                !.kind = "exact"])
      <3>1. PICK i \in DOMAIN journal, r \in Outcomes, age \in Ages :
                  journal' = Append(journal, [journal[i] EXCEPT !.r = r, !.age = age,
                                                                !.kind = "exact"])
        BY <2>2
      <3>2. journal[i] \in Line /\ r \in Int
        BY GuardAssumption DEF TypeOK
      <3>3. [journal[i] EXCEPT !.r = r, !.age = age, !.kind = "exact"] \in Line
        BY <3>2 DEF Line, Kinds
      <3>4. journal' \in Seq(Line)
        BY <3>1, <3>3 DEF TypeOK
      <3> QED BY <1>12, <3>4 DEF Repair, TypeOK, turn
    <2>3. CASE journal' = [i \in DOMAIN journal |->
                             IF journal[i].kind \in {"torn", "unreadable"}
                             THEN [journal[i] EXCEPT !.kind = "exact"] ELSE journal[i]]
      <3>1. journal \in [1..Len(journal) -> Line] /\ Len(journal) \in Nat
        BY DEF TypeOK
      <3>2. \A i \in DOMAIN journal : [journal[i] EXCEPT !.kind = "exact"] \in Line
        BY <3>1 DEF Line, Kinds
      <3>3. journal' \in [1..Len(journal) -> Line]
        BY <2>3, <3>1, <3>2
      <3>4. journal' \in Seq(Line)
        BY <3>1, <3>3
      <3> QED BY <1>12, <3>4 DEF Repair, TypeOK, turn
    <2> QED BY <1>12, <2>1, <2>2, <2>3 DEF Repair
  <1>13. CASE UNCHANGED vars
    BY <1>13 DEF vars, TypeOK, books, turn
  <1>14. ASSUME NEW t \in Tickets, Tear(t) PROVE TypeOK'
    <2>1. mishaps' \in 0..MaxMishaps
      BY <1>14, GuardAssumption DEF Tear, Mishap, TypeOK
    <2>2. LineOf(t, "torn") \in Line
      BY LinesTyped DEF Kinds
    <2>3. journal' \in Seq(Line)
      BY <1>14, <2>2 DEF Tear, TypeOK
    <2> QED BY <1>14, <2>1, <2>3 DEF Tear, TypeOK
  <1> QED BY <1>1, <1>2, <1>3, <1>4, <1>5, <1>6, <1>7, <1>8, <1>9, <1>10, <1>11, <1>12, <1>13,
     <1>14 DEF Next, Turn

\* The books start typed: a line of an earlier time, or none.
LEMMA InitTyped == Init => TypeOK
  <1> SUFFICES ASSUME Init PROVE TypeOK
    OBVIOUS
  <1>1. Past \in Line /\ 0 \in Ages
    BY GuardAssumption DEF Past, Line, Kinds, Ages, Old
  <1>2. journal \in Seq(Line)
    <2>1. <<Past>> \in [1..1 -> Line]
      BY <1>1
    <2>2. <<>> \in Seq(Line) /\ <<Past>> \in Seq(Line)
      BY <2>1
    <2> QED BY <2>2 DEF Init
  <1>3. mishaps \in 0..MaxMishaps
    BY GuardAssumption DEF Init
  <1>4. /\ life \in [Tickets -> {"none", "open", "closed", "accounted"}]
        /\ since \in [Tickets -> Ages] /\ pnl \in [Tickets -> Int]
    BY <1>1 DEF Init
  <1> QED BY <1>2, <1>3, <1>4 DEF Init, TypeOK

-----------------------------------------------------------------------------
(***************************************************************************)
(* The net of some lines.                                                  *)
(***************************************************************************)

\* Finitely many lines win and lose finitely many units.
LEMMA UnitsFinite ==
  ASSUME NEW j \in Seq(Line), NEW S \in SUBSET (DOMAIN j), NEW sign \in {1, -1}
  PROVE  IsFiniteSet(Units(j, S, sign))
  <1> DEFINE n == [i \in S |-> sign * j[i].r]
             U(i) == {i} \X (1..n[i])
             F == [i \in S |-> U(i)]
             T == {F[i] : i \in S}
  <1>1. \A i \in S : n[i] \in Int
    <2>1. \A i \in S : j[i] \in Line
      OBVIOUS
    <2>2. \A i \in S : j[i].r \in Int
      BY <2>1 DEF Line
    <2> QED BY <2>2
  <1>2. IsFiniteSet(S)
    <2>1. DOMAIN j = 1..Len(j) /\ Len(j) \in Nat
      OBVIOUS
    <2>2. IsFiniteSet(DOMAIN j)
      BY <2>1, FS_Interval
    <2> QED BY <2>2, FS_Subset
  <1>3. Units(j, S, sign) = UNION T
    BY DEF Units
  <1> HIDE DEF n
  <1>4. \A i \in S : IsFiniteSet(U(i))
    <2> SUFFICES ASSUME NEW i \in S PROVE IsFiniteSet(U(i))
      OBVIOUS
    <2>1. IsFiniteSet({i})
      BY FS_Singleton
    <2>2. IsFiniteSet(1..n[i])
      BY <1>1, FS_Interval
    <2> QED BY <2>1, <2>2, FS_Product
  <1>5. IsFiniteSet(T)
    <2>1. F \in Surjection(S, T)
      BY DEF Surjection
    <2> HIDE DEF F, T
    <2> QED BY <1>2, <2>1, FS_Surjection
  <1>6. \A V \in T : IsFiniteSet(V)
    BY <1>4
  <1> HIDE DEF T
  <1> QED BY <1>3, <1>5, <1>6, FS_UNION

\* A net result is a number.
LEMMA NetType ==
  ASSUME NEW j \in Seq(Line), NEW S \in SUBSET (DOMAIN j)
  PROVE  Net(j, S) \in Int
  <1>1. IsFiniteSet(Units(j, S, 1)) /\ IsFiniteSet(Units(j, S, -1))
    BY UnitsFinite
  <1>2. Cardinality(Units(j, S, 1)) \in Nat /\ Cardinality(Units(j, S, -1)) \in Nat
    BY <1>1, FS_CardinalityType
  <1> QED BY <1>2 DEF Net

\* Lines moved elsewhere win and lose the same units.
LEMMA UnitsMoved ==
  ASSUME NEW j \in Seq(Line), NEW k, NEW order \in Bijection(DOMAIN j, DOMAIN j),
         \A i \in DOMAIN j : k[i] = j[order[i]],
         NEW S \in SUBSET (DOMAIN j), NEW sign \in {1, -1}
  PROVE  Cardinality(Units(k, {i \in DOMAIN j : order[i] \in S}, sign))
           = Cardinality(Units(j, S, sign))
  <1> DEFINE D == DOMAIN j
             M == {i \in D : order[i] \in S}
             A == Units(k, M, sign)
             B == Units(j, S, sign)
             f == [u \in A |-> <<order[u[1]], u[2]>>]
  <1>1. /\ order \in [D -> D]
        /\ \A i, m \in D : order[i] = order[m] => i = m
        /\ \A m \in D : \E i \in D : order[i] = m
    BY DEF Bijection, Injection, Surjection, IsInjective
  <1>2. \A u : u \in A <=> \E i \in M : u \in {i} \X (1..sign * k[i].r)
    BY DEF Units
  <1>3. \A u : u \in B <=> \E i \in S : u \in {i} \X (1..sign * j[i].r)
    BY DEF Units
  <1>4. \A u \in A : u = <<u[1], u[2]>> /\ u[1] \in M /\ u[2] \in 1..sign * j[order[u[1]]].r
    BY <1>2
  <1>5. \A u \in A : <<order[u[1]], u[2]>> \in B
    BY <1>3, <1>4
  <1>6. \A u, v \in A : <<order[u[1]], u[2]>> = <<order[v[1]], v[2]>> => u = v
    <2> SUFFICES ASSUME NEW u \in A, NEW v \in A,
                        <<order[u[1]], u[2]>> = <<order[v[1]], v[2]>>
                 PROVE  u = v
      OBVIOUS
    <2>1. order[u[1]] = order[v[1]] /\ u[2] = v[2]
      OBVIOUS
    <2>2. u = <<u[1], u[2]>> /\ v = <<v[1], v[2]>> /\ u[1] \in D /\ v[1] \in D
      BY <1>4
    <2> HIDE DEF A
    <2>3. u[1] = v[1]
      BY <1>1, <2>1, <2>2
    <2> QED BY <2>1, <2>2, <2>3
  <1>7. \A w \in B : \E u \in A : <<order[u[1]], u[2]>> = w
    <2> SUFFICES ASSUME NEW w \in B PROVE \E u \in A : <<order[u[1]], u[2]>> = w
      OBVIOUS
    <2>1. PICK m \in S : w \in {m} \X (1..sign * j[m].r)
      BY <1>3
    <2>2. PICK i \in D : order[i] = m
      BY <1>1, <2>1
    <2>3. i \in M /\ k[i] = j[m]
      BY <2>2
    <2>4. <<i, w[2]>> \in A
      BY <1>2, <2>1, <2>3
    <2>5. w = <<m, w[2]>>
      BY <2>1
    <2> HIDE DEF A, B
    <2> QED BY <2>2, <2>4, <2>5
  <1> HIDE DEF A, B
  <1>8. f \in Bijection(A, B)
    <2>1. f \in [A -> B] /\ \A u \in A : f[u] = <<order[u[1]], u[2]>>
      BY <1>5
    <2> HIDE DEF f
    <2>2. f \in Injection(A, B)
      BY <1>6, <2>1 DEF Injection, IsInjective
    <2>3. f \in Surjection(A, B)
      BY <1>7, <2>1 DEF Surjection
    <2> QED BY <2>2, <2>3 DEF Bijection
  <1>9. IsFiniteSet(B)
    BY UnitsFinite DEF B
  <1>10. ExistsBijection(A, B)
    BY <1>8 DEF ExistsBijection
  <1>11. ExistsBijection(B, A)
    BY <1>10, Fun_ExistsBijSymmetric
  <1>12. Cardinality(A) = Cardinality(B)
    BY <1>9, <1>11, FS_Bijection
  <1> QED BY <1>12 DEF A, B

\* Without ties the line of a ticket that counts is the one that closed last.
LEMMA CountedUntied ==
  ASSUME NEW j \in Seq(Line), ~Ties(j)
  PROVE  Counted(j) = {i \in Recent(j) : \A k \in Recent(j) :
                          j[k].ticket = j[i].ticket /\ k # i => j[k].age > j[i].age}
  <1>1. \A i, k \in Recent(j) : i \in Nat /\ i \in DOMAIN j /\ k \in DOMAIN j
    BY DEF Recent
  <1>2. \A i, k \in Recent(j) : j[i].ticket = j[k].ticket /\ i # k => j[i].age # j[k].age
    BY <1>1 DEF Ties
  <1> QED BY <1>1, <1>2 DEF Counted

\* The lines that count are those that counted, wherever they are now.
LEMMA CountedMoved ==
  ASSUME NEW j \in Seq(Line), ~Ties(j), NEW k \in Seq(Line), DOMAIN k = DOMAIN j,
         NEW order \in Bijection(DOMAIN j, DOMAIN j), \A i \in DOMAIN j : k[i] = j[order[i]]
  PROVE  \A i \in DOMAIN j : /\ i \in Recent(k) <=> order[i] \in Recent(j)
                             /\ i \in Counted(k) <=> order[i] \in Counted(j)
  <1> DEFINE D == DOMAIN j
  <1>1. /\ order \in [D -> D]
        /\ \A i, m \in D : order[i] = order[m] => i = m
        /\ \A m \in D : \E i \in D : order[i] = m
    BY DEF Bijection, Injection, Surjection, IsInjective
  <1>2. ~Ties(k)
    <2> SUFFICES ASSUME NEW i \in D, NEW m \in D, i # m,
                        k[i].ticket = k[m].ticket, k[i].age = k[m].age
                 PROVE  FALSE
      BY DEF Ties
    <2>1. order[i] \in D /\ order[m] \in D /\ order[i] # order[m]
      BY <1>1
    <2> QED BY <2>1 DEF Ties
  <1>3. \A i \in D : i \in Recent(k) <=> order[i] \in Recent(j)
    BY <1>1 DEF Recent
  <1>4. Recent(k) \subseteq D /\ Counted(k) \subseteq D /\ Counted(k) \subseteq Recent(k)
    BY DEF Recent, Counted
  <1>5. Counted(k) = {i \in Recent(k) : \A m \in Recent(k) :
                          k[m].ticket = k[i].ticket /\ m # i => k[m].age > k[i].age}
    BY <1>2, CountedUntied
  <1>6. Counted(j) = {i \in Recent(j) : \A m \in Recent(j) :
                          j[m].ticket = j[i].ticket /\ m # i => j[m].age > j[i].age}
    BY CountedUntied
  <1>7. ASSUME NEW i \in D, order[i] \in Counted(j) PROVE i \in Counted(k)
    <2>1. order[i] \in Recent(j) /\ i \in Recent(k)
      BY <1>3, <1>6, <1>7
    <2>2. ASSUME NEW m \in Recent(k), k[m].ticket = k[i].ticket, m # i
          PROVE  k[m].age > k[i].age
      <3>1. m \in D /\ order[m] \in Recent(j) /\ order[m] # order[i]
        BY <1>1, <1>3, <1>4, <2>2
      <3> QED BY <1>6, <1>7, <2>2, <3>1
    <2> QED BY <1>5, <2>1, <2>2
  <1>8. ASSUME NEW i \in Counted(k) PROVE order[i] \in Counted(j)
    <2>1. i \in D /\ order[i] \in Recent(j)
      BY <1>3, <1>4
    <2>2. ASSUME NEW n \in Recent(j), j[n].ticket = j[order[i]].ticket, n # order[i]
          PROVE  j[n].age > j[order[i]].age
      <3>1. n \in D
        BY DEF Recent
      <3>2. PICK m \in D : order[m] = n
        BY <1>1, <3>1
      <3>3. m \in Recent(k) /\ m # i
        BY <1>3, <2>2, <3>2
      <3> QED BY <1>5, <2>1, <2>2, <3>2, <3>3
    <2> QED BY <1>6, <2>1, <2>2
  <1> QED BY <1>3, <1>4, <1>7, <1>8

\* Without ties, any order of the lines gives the same verdict: a property of the rule alone.
LEMMA VerdictIgnoresOrder ==
  ASSUME NEW j \in Seq(Line), ~Ties(j), NEW k \in Orders(j)
  PROVE  Evaluate(k) = Evaluate(j)
  <1>1. k \in Seq(Line) /\ Len(k) = Len(j) /\ DOMAIN k = DOMAIN j
    BY Reordered
  <1>2. PICK order \in Bijection(DOMAIN j, DOMAIN j) : \A i \in DOMAIN j : k[i] = j[order[i]]
    BY Reordered
  <1>3. \A i \in DOMAIN j : /\ i \in Recent(k) <=> order[i] \in Recent(j)
                            /\ i \in Counted(k) <=> order[i] \in Counted(j)
    BY <1>1, <1>2, CountedMoved
  <1> DEFINE D == DOMAIN j
             DailyOf(s) == {i \in Counted(s) : s[i].age = 0}
  <1>4. /\ order \in [D -> D]
        /\ \A m \in D : \E i \in D : order[i] = m
    BY DEF Bijection, Injection, Surjection
  <1>5. /\ Recent(k) = {i \in D : order[i] \in Recent(j)}
        /\ Counted(k) = {i \in D : order[i] \in Counted(j)}
    BY <1>1, <1>3 DEF Recent, Counted
  <1>6. Counted(j) \subseteq D /\ Recent(j) \subseteq D
    BY DEF Counted, Recent
  <1>7. DailyOf(k) = {i \in D : order[i] \in DailyOf(j)}
    BY <1>2, <1>5
  <1>8. k = <<>> <=> j = <<>>
    BY <1>1
  <1>9. (\E i \in Recent(k) : k[i].kind # "exact") <=> (\E i \in Recent(j) : j[i].kind # "exact")
    <2>1. ASSUME NEW i \in Recent(k), k[i].kind # "exact"
          PROVE  \E m \in Recent(j) : j[m].kind # "exact"
      BY <1>2, <1>5, <2>1
    <2>2. ASSUME NEW m \in Recent(j), j[m].kind # "exact"
          PROVE  \E i \in Recent(k) : k[i].kind # "exact"
      <3>1. PICK i \in D : order[i] = m
        BY <1>4, <1>6
      <3> QED BY <1>2, <1>5, <2>2, <3>1
    <2> QED BY <2>1, <2>2
  <1>10. Readable(k) <=> Readable(j)
    <2>1. ASSUME NEW i \in D PROVE \E m \in D : j[i].kind = k[m].kind
      <3>1. PICK m \in D : order[m] = i
        BY <1>4
      <3> QED BY <1>2, <3>1
    <2>2. ASSUME NEW i \in D PROVE \E m \in D : k[i].kind = j[m].kind
      BY <1>2, <1>4
    <2> QED BY <1>1, <2>1, <2>2 DEF Readable
  <1>11. ASSUME NEW S \in SUBSET D
        PROVE  Net(k, {i \in D : order[i] \in S}) = Net(j, S)
    BY <1>2, UnitsMoved DEF Net
  <1>12. Net(k, Counted(k)) = Net(j, Counted(j))
    BY <1>5, <1>6, <1>11
  <1>13. Net(k, DailyOf(k)) = Net(j, DailyOf(j))
    <2>1. DailyOf(j) \in SUBSET D
      BY <1>6
    <2> HIDE DEF DailyOf
    <2> QED BY <1>7, <1>11, <2>1
  <1> QED BY <1>8, <1>9, <1>10, <1>12, <1>13 DEF Evaluate

-----------------------------------------------------------------------------
(***************************************************************************)
(* The day's limit.                                                        *)
(***************************************************************************)

\* The lines of the day that count.
Today == {i \in Counted(journal) : journal[i].age = 0}

\* A turn about to send is within the limit.
WithinLimit == pc = "send" => Net(journal, Today) > -DailyLimit

\* A guard that allows has measured the day.
LEMMA AllowedIsWithin ==
  ASSUME TypeOK, Guard("ALLOW")
  PROVE  Net(journal, Today) > -DailyLimit
  <1>1. Evaluate(journal) = "ALLOW"
    BY DEF Guard
  <1>2. ~(Net(journal, Today) <= -DailyLimit)
    BY <1>1 DEF Evaluate, Today
  <1>3. Today \in SUBSET (DOMAIN journal)
    BY DEF Today, Counted, Recent
  <1>4. Net(journal, Today) \in Int /\ DailyLimit \in Nat
    BY <1>3, NetType, GuardAssumption DEF TypeOK
  <1> QED BY <1>2, <1>4

\* At midnight the day starts again with nothing won or lost.
LEMMA MidnightForgets ==
  ASSUME TypeOK, NextDay
  PROVE  Net(journal, Today)' = 0
  <1>1. \A i \in DOMAIN journal' : journal'[i].age # 0
    <2> SUFFICES ASSUME NEW i \in DOMAIN journal PROVE journal'[i].age # 0
      BY DEF NextDay
    <2>1. journal[i] \in Line
      BY DEF TypeOK
    <2>2. journal'[i].age = Older(journal[i].age)
      BY <2>1 DEF NextDay, Line
    <2>3. journal[i].age \in Ages
      BY <2>1 DEF Line
    <2> QED BY <2>2, <2>3, GuardAssumption DEF Older, Ages, Old
  <1>2. Today' = {}
    BY <1>1 DEF Today, Counted, Recent
  <1>3. Units(journal', {}, 1) = {} /\ Units(journal', {}, -1) = {}
    BY DEF Units
  <1>4. Net(journal', {}) = 0
    BY <1>3, FS_EmptySet DEF Net
  <1>5. Net(journal, Today)' = Net(journal', Today')
    OBVIOUS
  <1> QED BY <1>2, <1>4, <1>5

\* Between the final guard and the send nothing but midnight touches the journal.
LEMMA WithinLimitKept ==
  ASSUME TypeOK, WithinLimit, [Next]_vars
  PROVE  WithinLimit'
  <1>1. CASE FinalGuard
    <2>1. PICK verdict \in {"ALLOW", "WAIT", "BLOCK"} :
             Guard(verdict) /\ pc' = IF verdict = "ALLOW" THEN "send" ELSE "idle"
      BY <1>1 DEF FinalGuard
    <2>2. journal' = journal
      BY <1>1 DEF FinalGuard, books
    <2>3. Net(journal, Today)' = Net(journal, Today)
      BY <2>2 DEF Net, Units, Today, Counted, Recent
    <2> QED BY <2>1, <2>3, AllowedIsWithin DEF WithinLimit
  <1>2. CASE NextDay
    <2>1. -DailyLimit < 0
      BY GuardAssumption
    <2> QED BY <1>2, <2>1, MidnightForgets DEF WithinLimit
  <1>3. CASE UNCHANGED <<pc, journal>>
    <2>1. Net(journal, Today)' = Net(journal, Today)
      BY <1>3 DEF Net, Units, Today, Counted, Recent
    <2> QED BY <1>3, <2>1 DEF WithinLimit
  <1>4. ASSUME pc' # "send" PROVE WithinLimit'
    BY <1>4 DEF WithinLimit
  <1>5. FirstGuard => pc' # "send"
    BY DEF FirstGuard
  <1> QED BY <1>1, <1>2, <1>3, <1>4, <1>5
     DEF Next, Turn, BeginPass, Account, Enter, NoEntry, EndTurn, Gap, Crash, Tear, Close,
         Acknowledge, Damage, Repair, vars, turn, books

-----------------------------------------------------------------------------
\* A BLOCK that was not acknowledged has its latch, whatever the journal becomes, and no
\* turn that has passed the final guard knows less.
THEOREM LatchInvariance == Spec => []BlockIsLatched
  <1>1. Init => BlockIsLatched
    BY DEF Init, BlockIsLatched
  <1> QED BY <1>1, BlockIsLatchedKept, PTL DEF Spec

\* Once the guard has latched a BLOCK no entry is sent until the operator acknowledges it.
THEOREM BlocksHold == Spec => BlockSticks
  <1>1. BlockIsLatched /\ [Next]_vars => [Entry => ~blocked]_vars
    BY EntersFromSend DEF Entry, BlockIsLatched
  <1> QED BY <1>1, LatchInvariance, PTL DEF Spec, BlockSticks

\* The books of the guard keep their types.
THEOREM TypesHold == Spec => []TypeOK
  BY InitTyped, TypesKept, PTL DEF Spec

\* The guard's books are sound in every state: in particular, of the lines of a ticket the
\* one that closed last counts (evaluate_live_loss_guard), so that a journal replayed or
\* repaired in another order gives the same verdict.
THEOREM BooksAreSound == Spec => []BooksSound
  <1>1. TypeOK => OrderDoesNotMatter
    BY VerdictIgnoresOrder DEF TypeOK, OrderDoesNotMatter
  <1>2. TypeOK /\ BlockIsLatched => BooksSound
    BY <1>1 DEF BooksSound
  <1> QED BY <1>2, TypesHold, LatchInvariance, PTL

\* No entry is sent on a day whose closures reached the daily limit, whatever falls between
\* the guard's reading of the journal and the send.
THEOREM DailyLimitIsKept == Spec => DailyLimitHolds
  <1>1. Init => WithinLimit
    BY DEF Init, WithinLimit
  <1>2. TypeOK /\ WithinLimit /\ [Next]_vars => WithinLimit'
    BY WithinLimitKept
  <1>3. WithinLimit /\ [Next]_vars
          => [Entry => Net(journal, {i \in Counted(journal) : journal[i].age = 0})
                         > -DailyLimit]_vars
    <2> SUFFICES ASSUME WithinLimit, Next, NEW t \in Tickets,
                        life[t] = "none", life'[t] = "open"
                 PROVE  Net(journal, Today) > -DailyLimit
      BY DEF Entry, Today
    <2>1. pc = "send"
      BY EntersFromSend
    <2> QED BY <2>1 DEF WithinLimit
  <1> QED BY <1>1, <1>2, <1>3, TypesHold, PTL DEF Spec, DailyLimitHolds

=============================================================================
