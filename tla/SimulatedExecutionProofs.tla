---------------------- MODULE SimulatedExecutionProofs ----------------------
(***************************************************************************)
(* Proofs about the two executors of titanium/execution_sim, for every set *)
(* of orders, quantity, plan, number of snapshots and delay.               *)
(*                                                                         *)
(* EventExecution: IInv is inductive, so that cancelling and replacing     *)
(* never fills more than the intent, with one order at work at a time, and *)
(* never sits idle before; slices stay within the intent; and no fill is   *)
(* older than its decision.                                                *)
(*                                                                         *)
(* SequentialExecution: SequentialIInv is inductive, so that ladders hold, *)
(* budgets bound what is filled and nothing is filled early.               *)
(***************************************************************************)
EXTENDS EventExecution, SequentialExecution, FiniteSetTheorems, SequenceTheorems, TLAPS

\* An order that is not filled past its own quantity.
Sound(o) == o \in Order /\ o.filled <= o.quantity

USE DEF Terminal, Working, IsTerminal, IsWorking, Remaining

(***************************************************************************)
(* What the operations on an order do.                                     *)
(***************************************************************************)

\* RequestCancel and Submit leave a sound order sound and change no fill.
LEMMA CancelSubmit ==
    ASSUME NEW o, Sound(o)
    PROVE  /\ Sound(RequestCancel(o))
           /\ RequestCancel(o).filled = o.filled
           /\ RequestCancel(o).quantity = o.quantity
           /\ RequestCancel(o).status = IF IsTerminal(o) THEN o.status ELSE "CANCEL_PENDING"
           /\ Sound(AckCancel(o))
           /\ AckCancel(o).filled = o.filled
           /\ AckCancel(o).quantity = o.quantity
           /\ IsTerminal(AckCancel(o))
  BY DEF Sound, Order, RequestCancel, AckCancel

\* ApplyFill adds the quantity, fills the order when that is all that was left, and
\* leaves a request to cancel pending.
LEMMA FillAdds ==
    ASSUME NEW o, Sound(o), IsWorking(o), NEW q \in 1..Remaining(o)
    PROVE  /\ Sound(ApplyFill(o, q))
           /\ ApplyFill(o, q).filled = o.filled + q
           /\ ApplyFill(o, q).quantity = o.quantity
           /\ ApplyFill(o, q).status \in {"FILLED", "PARTIALLY_FILLED", "CANCEL_PENDING"}
           /\ o.status = "CANCEL_PENDING"
                => ApplyFill(o, q).status \in {"FILLED", "CANCEL_PENDING"}
  <1>1. o \in Order /\ o.filled \in Nat /\ o.quantity \in Nat /\ q \in Nat
    BY DEF Sound, Order
  <1> DEFINE s == IF q = Remaining(o) THEN "FILLED"
                  ELSE IF o.status = "CANCEL_PENDING" THEN o.status ELSE "PARTIALLY_FILLED"
  <1>2. ApplyFill(o, q) = [o EXCEPT !.filled = o.filled + q, !.status = s]
    BY DEF ApplyFill
  <1>3. /\ ApplyFill(o, q).filled = o.filled + q
        /\ ApplyFill(o, q).quantity = o.quantity
        /\ ApplyFill(o, q).status = s
    BY <1>1, <1>2 DEF Order
  <1>4. s \in {"FILLED", "PARTIALLY_FILLED", "CANCEL_PENDING"}
    OBVIOUS
  <1>5. o.filled + q \in Nat /\ o.filled + q <= o.quantity
    BY <1>1
  <1> HIDE DEF s
  <1>6. ApplyFill(o, q) \in Order
    BY <1>1, <1>2, <1>4, <1>5 DEF Order
  <1>7. o.status = "CANCEL_PENDING" => s \in {"FILLED", "CANCEL_PENDING"}
    BY DEF s
  <1> QED
    BY <1>3, <1>4, <1>5, <1>6, <1>7 DEF Sound

\* What a limit order becomes on a snapshot.
LEMMA LimitMatch ==
    ASSUME NEW o, Sound(o), IsWorking(o), NEW x \in Matches("limit", o)
    PROVE  /\ Sound(x)
           /\ x.quantity = o.quantity
           /\ x.filled >= o.filled
           /\ IsWorking(x) \/ x.status = "FILLED"
           /\ o.status = "CANCEL_PENDING" => x.status \in {"FILLED", "CANCEL_PENDING"}
  <1>1. x = o \/ \E q \in 1..Remaining(o) : x = ApplyFill(o, q)
    BY DEF Matches, Taken
  <1>2. CASE x = o
    BY <1>2 DEF Sound, Order
  <1>3. CASE \E q \in 1..Remaining(o) : x = ApplyFill(o, q)
    <2>1. PICK q \in 1..Remaining(o) : x = ApplyFill(o, q)
      BY <1>3
    <2> QED
      BY <2>1, FillAdds DEF Sound, Order
  <1> QED
    BY <1>1, <1>2, <1>3

\* Settled cancels the order to replace, if it still works, and touches nothing else.
LEMMA SettledBook ==
    ASSUME EventAssumption, TypeOK, NEW i \in Orders
    PROVE  /\ Settled(i) \in [Orders -> Order]
           /\ \A j \in Orders :
                 /\ Sound(Settled(i)[j])
                 /\ Settled(i)[j].filled = orders[j].filled
                 /\ Settled(i)[j].quantity = orders[j].quantity
                 /\ j # Replaced(i) => Settled(i)[j] = orders[j]
                 /\ j = Replaced(i) => IsTerminal(Settled(i)[j])
           /\ Replaced(i) \in Orders \cup {None}
           /\ Size(i) = IF Replaced(i) = None THEN orders[i].quantity
                        ELSE Remaining(orders[Replaced(i)])
           /\ Size(i) \in Nat
  <1>1. Replaced(i) \in Orders \cup {None}
    BY DEF TypeOK, Order, Replaced
  <1>2. \A j \in Orders : Sound(orders[j])
    BY DEF TypeOK, Sound
  <1>3. CASE Replaced(i) = None
    BY <1>2, <1>3 DEF Settled, Size, TypeOK, Sound, Order, EventAssumption
  <1>4. CASE Replaced(i) # None
    <2> DEFINE r == Replaced(i)
               c == IF IsTerminal(orders[r]) THEN orders[r] ELSE AckCancel(orders[r])
    <2>1. r \in Orders
      BY <1>1, <1>4
    <2>2. Sound(c) /\ IsTerminal(c) /\ c.filled = orders[r].filled
                   /\ c.quantity = orders[r].quantity
      BY <1>2, <2>1, CancelSubmit
    <2>3. Settled(i) = [orders EXCEPT ![r] = c]
      BY <1>4, <2>1 DEF Settled
    <2>4. Settled(i) \in [Orders -> Order]
      BY <2>2, <2>3 DEF TypeOK, Sound
    <2>5. \A j \in Orders : Settled(i)[j] = IF j = r THEN c ELSE orders[j]
      BY <2>3 DEF TypeOK
    <2>6. Size(i) = Remaining(orders[r])
      BY <1>4, <2>1, <2>2, <2>5 DEF Size
    <2>7. Size(i) \in Nat
      BY <2>6, <1>2, <2>1 DEF Sound, Order
    <2> HIDE DEF c
    <2> QED
      BY <1>1, <1>2, <1>4, <2>1, <2>2, <2>4, <2>5, <2>6, <2>7
  <1> QED
    BY <1>3, <1>4

(***************************************************************************)
(* BookOK holds at first and every step keeps it: one lemma per kind of    *)
(* step.                                                                   *)
(***************************************************************************)

\* The book is well formed at first.
LEMMA InitBookOK ==
    ASSUME EventAssumption, Init
    PROVE  BookOK
  <1>1. NoOrder \in Order
    BY DEF NoOrder, Order
  <1>2. NoOrder.filled = 0 /\ NoOrder.quantity = 0 /\ NoOrder.status = "CREATED"
    BY DEF NoOrder
  <1>3. orders \in [Orders -> Order] /\ \A i \in Orders : orders[i] = NoOrder
    BY <1>1 DEF Init
  <1>4. posted \in [Orders -> Nat]
    BY DEF Init
  <1>5. TypeOK
    <2> HIDE DEF Terminal, Working, IsTerminal, IsWorking, Remaining
    <2>1. \A i \in Orders : orders[i].filled <= orders[i].quantity
      BY <1>2, <1>3
    <2>2. left \in 0..Quantity /\ now \in 0..Snapshots
      BY DEF Init, EventAssumption
    <2> QED
      BY <1>3, <1>4, <2>1, <2>2 DEF Init, TypeOK, EventAssumption
  <1> QED
    BY <1>2, <1>3, <1>5 DEF Init, BookOK, Open, FitsIntent, OneChain, EventAssumption

\* A scheduled order is sound, works not yet and has no fill.
LEMMA ScheduledOrder ==
    ASSUME TypeOK, NEW q \in Nat, NEW r \in Orders \cup {None}, NEW due \in Nat
    PROVE  /\ Sound(Scheduled(q, r, due))
           /\ Scheduled(q, r, due).status = "CREATED"
           /\ Scheduled(q, r, due).filled = 0
           /\ Scheduled(q, r, due).quantity = q
           /\ Scheduled(q, r, due).replaces = r
  <1>1. Scheduled(q, r, due) = [status |-> "CREATED", quantity |-> q, filled |-> 0,
                                replaces |-> r, due |-> due, decided |-> now]
    BY DEF Scheduled
  <1>2. now \in Nat
    BY DEF TypeOK
  <1> HIDE DEF IsTerminal, IsWorking, Remaining
  <1>3. Scheduled(q, r, due) \in Order
    BY <1>1, <1>2 DEF Order
  <1> QED
    BY <1>1, <1>3 DEF Sound

\* Due times are natural numbers.
LEMMA DueTimes ==
    ASSUME EventAssumption, NEW from \in Nat, NEW due \in Dues(from)
    PROVE  due \in Nat
  BY DEF Dues, EventAssumption

\* Planning, before the first snapshot.
LEMMA PlanKeeps ==
    ASSUME EventAssumption, BookOK,
           NEW i \in Orders, NEW q \in 1..Quantity, NEW due \in Dues(1), Plan(i, q, due)
    PROVE  BookOK'
  <1> USE DEF EventAssumption
  <1>1. due \in Nat /\ q \in Nat
    BY DueTimes
  <1>2. TypeOK
    BY DEF BookOK
  <1> DEFINE s == Scheduled(q, None, due)
  <1>3. /\ Sound(s) /\ s.status = "CREATED" /\ s.filled = 0
        /\ s.quantity = q /\ s.replaces = None
    BY <1>1, <1>2, ScheduledOrder
  <1> HIDE DEF s
  <1>4. orders' = [orders EXCEPT ![i] = s] /\ pending' = pending \cup {i} /\ i \notin pending
    BY DEF Plan, s, Unused
  <1>5. UNCHANGED <<policy, pc, now, todo, dynamic, position, posted, refused>>
    BY DEF Plan, loop
  <1>6. \A j \in Orders : orders'[j] = IF j = i THEN s ELSE orders[j]
    BY <1>2, <1>4 DEF TypeOK
  <1>7. orders[i].filled = 0 /\ ~IsWorking(orders[i])
    BY DEF Plan, Unused, NoOrder
  <1>8. left' \in 0..Quantity
    BY <1>1, <1>2 DEF Plan, TypeOK
  <1>9. TypeOK'
    BY <1>2, <1>3, <1>4, <1>5, <1>6, <1>8 DEF TypeOK, Sound
  <1>10. \A j \in Orders : posted'[j] = orders'[j].filled
    BY <1>3, <1>5, <1>6, <1>7 DEF BookOK
  <1>11. \A j \in pending' :
            /\ orders'[j].status = "CREATED" /\ orders'[j].filled = 0
            /\ policy' # "replace" => orders'[j].replaces = None
    BY <1>2, <1>3, <1>4, <1>5, <1>6 DEF BookOK, TypeOK
  <1>12. todo' \subseteq Open' /\ (pc' # "match" => todo' = {})
    BY <1>5 DEF Plan, BookOK
  <1>13. ASSUME policy' = "replace"
         PROVE  (FitsIntent /\ OneChain /\ position <= Quantity)'
    <2>1. FitsIntent /\ OneChain /\ position <= Quantity
      BY <1>5, <1>13 DEF BookOK
    <2>2. q = Quantity /\ left = Quantity /\ pc = "plan" /\ left' = 0
      BY <1>2, <1>5, <1>13 DEF Plan, TypeOK
    <2>3. dynamic = None /\ position = 0 /\ pending = {}
      BY <2>1, <2>2 DEF OneChain
    <2>4. pending' = {i}
      BY <1>4, <2>3
    <2>5. FitsIntent'
      BY <1>3, <1>5, <1>6, <2>2, <2>3, <2>4 DEF FitsIntent
    <2>6. \A j \in Orders : IsWorking(orders'[j]) => j = dynamic'
      BY <1>3, <1>5, <1>6, <2>1 DEF OneChain
    <2>7. OneChain'
      BY <1>3, <1>5, <1>6, <2>2, <2>3, <2>4, <2>6 DEF OneChain
    <2> QED
      BY <1>5, <2>1, <2>5, <2>7
  <1> QED
    BY <1>9, <1>10, <1>11, <1>12, <1>13 DEF BookOK

\* Submitting what is due: the replacement dropped, accepted or refused.
LEMMA SubmitKeeps ==
    ASSUME EventAssumption, BookOK, NEW i \in Orders, DropReplacement(i) \/ Activate(i)
    PROVE  BookOK'
  <1> USE DEF EventAssumption
  <1>1. TypeOK /\ i \in pending /\ pc = "activate"
    BY DEF BookOK, DropReplacement, Activate, Due
  <1>2. todo = {}
    BY <1>1 DEF BookOK
  <1>3. orders[i].status = "CREATED" /\ orders[i].filled = 0 /\ posted[i] = 0
    BY <1>1 DEF BookOK
  <1> DEFINE b == Settled(i)
             u == Submit([orders[i] EXCEPT !.quantity = Size(i)])
  <1>4. /\ b \in [Orders -> Order]
        /\ \A j \in Orders : /\ Sound(b[j])
                             /\ b[j].filled = orders[j].filled
                             /\ b[j].quantity = orders[j].quantity
                             /\ j # Replaced(i) => b[j] = orders[j]
                             /\ j = Replaced(i) => IsTerminal(b[j])
        /\ Size(i) \in Nat
    BY <1>1, SettledBook
  <1>5. /\ Sound(u) /\ u.status = "OPEN" /\ u.filled = 0 /\ u.quantity = Size(i)
    <2> DEFINE o == [orders[i] EXCEPT !.quantity = Size(i)]
    <2>1. orders[i] \in Order /\ i \in Orders
      BY <1>1 DEF TypeOK
    <2>2. o \in Order /\ o.filled = 0 /\ o.quantity = Size(i)
      BY <1>3, <1>4, <2>1 DEF Order
    <2>3. u = [o EXCEPT !.status = "OPEN"]
      BY DEF Submit
    <2> HIDE DEF o
    <2>4. u \in Order /\ u.status = "OPEN" /\ u.filled = o.filled /\ u.quantity = o.quantity
      <3> HIDE DEF u
      <3> QED
        BY <2>2, <2>3 DEF Order
    <2> QED
      BY <1>4, <2>2, <2>4 DEF Sound
  <1>6. /\ NoOrder \in Order /\ NoOrder.filled = 0
        /\ NoOrder.quantity = 0 /\ NoOrder.status = "CREATED"
    BY DEF NoOrder, Order
  <1>7. /\ pending' = pending \ {i}
        /\ UNCHANGED <<policy, left, pc, now, todo, position, posted>>
    BY DEF DropReplacement, Activate, loop
  <1>8. refused' \in BOOLEAN
    BY <1>1 DEF DropReplacement, Activate, TypeOK
  <1>9. PICK n \in {u, NoOrder} :
           /\ orders' = [b EXCEPT ![i] = n]
           /\ n = u => dynamic' = IF policy = "replace" THEN i ELSE dynamic
           /\ n = NoOrder => dynamic' = dynamic
    <2>1. u # NoOrder
      BY <1>5, <1>6
    <2> QED
      BY <2>1 DEF DropReplacement, Activate
  <1> HIDE DEF b, u
  <1>10. \A j \in Orders : orders'[j] = IF j = i THEN n ELSE b[j]
    BY <1>4, <1>9
  <1>11. Sound(n) /\ n.filled = 0
    BY <1>5, <1>6, <1>9 DEF Sound
  <1>12. orders' \in [Orders -> Order]
    BY <1>4, <1>9, <1>11 DEF Sound
  <1>13. \A j \in Orders : Sound(orders'[j]) /\ orders'[j].filled = orders[j].filled
    BY <1>3, <1>4, <1>10, <1>11
  <1>14. dynamic' \in Orders \cup {None}
    BY <1>1, <1>9 DEF TypeOK
  <1>15. TypeOK'
    BY <1>1, <1>7, <1>8, <1>12, <1>13, <1>14 DEF TypeOK, Sound
  <1>16. \A j \in Orders : posted'[j] = orders'[j].filled
    BY <1>7, <1>13 DEF BookOK
  <1>17. \A j \in pending' : j \in pending /\ j # i /\ j \in Orders
    BY <1>1, <1>7 DEF TypeOK
  <1>18. ASSUME policy = "replace"
         PROVE  /\ pending = {i} /\ pending' = {} /\ Replaced(i) = dynamic
                /\ FitsIntent /\ OneChain /\ position <= Quantity
    BY <1>1, <1>7, <1>18 DEF BookOK, OneChain, Replaced
  <1>19. \A j \in pending' :
            /\ orders'[j].status = "CREATED" /\ orders'[j].filled = 0
            /\ policy' # "replace" => orders'[j].replaces = None
    <2>1. CASE policy = "replace"
      BY <1>18, <2>1
    <2>2. CASE policy # "replace"
      <3>1. Replaced(i) = None
        BY <1>1, <2>2 DEF BookOK, Replaced
      <3>2. \A j \in pending' : orders'[j] = orders[j]
        BY <1>4, <1>10, <1>17, <3>1
      <3> QED
        BY <1>7, <1>17, <3>2 DEF BookOK
    <2> QED
      BY <2>1, <2>2
  <1>20. todo' \subseteq Open' /\ (pc' # "match" => todo' = {})
    BY <1>2, <1>7
  <1>21. ASSUME policy' = "replace"
         PROVE  (FitsIntent /\ OneChain /\ position <= Quantity)'
    <2>1. /\ pending' = {} /\ Replaced(i) = dynamic
          /\ FitsIntent /\ OneChain /\ position <= Quantity
      BY <1>7, <1>18, <1>21
    <2>2. position \in Nat /\ \A j \in Orders : Sound(orders[j])
      BY <1>1 DEF TypeOK, Sound
    <2>3. CASE n = u
      <3>1. dynamic' = i /\ orders'[i] = u /\ i \in Orders
        BY <1>1, <1>7, <1>9, <1>10, <1>21, <2>3 DEF TypeOK
      <3>2. \A j \in Orders : IsWorking(orders'[j]) => j = i
        BY <1>4, <1>10, <2>1 DEF OneChain
      <3>3. position + Size(i) <= Quantity
        BY <1>1, <2>1, SettledBook DEF FitsIntent
      <3>4. Remaining(orders'[i]) = Size(i)
        BY <1>4, <1>5, <3>1
      <3> QED
        BY <1>1, <1>5, <1>7, <2>1, <3>1, <3>2, <3>3, <3>4 DEF FitsIntent, OneChain
    <2>4. CASE n = NoOrder
      <3>1. dynamic' = dynamic /\ dynamic # i
        <4>1. dynamic # None => orders[dynamic].status # "CREATED"
          BY <2>1 DEF OneChain
        <4> QED
          BY <1>1, <1>3, <1>9, <2>4, <4>1 DEF TypeOK
      <3>2. \A j \in Orders : IsWorking(orders'[j]) => j = dynamic
        BY <1>4, <1>6, <1>10, <2>1, <2>4 DEF OneChain
      <3>3. dynamic # None => /\ dynamic \in Orders
                              /\ orders'[dynamic] = b[dynamic]
                              /\ IsTerminal(orders'[dynamic])
                              /\ Remaining(orders'[dynamic]) = Remaining(orders[dynamic])
        BY <1>1, <1>4, <1>10, <2>1, <3>1 DEF TypeOK
      <3> QED
        BY <1>1, <1>7, <2>1, <3>1, <3>2, <3>3 DEF FitsIntent, OneChain
    <2> QED
      BY <1>9, <2>3, <2>4
  <1> QED
    BY <1>15, <1>16, <1>19, <1>20, <1>21 DEF BookOK

\* Matching an order on a snapshot.
LEMMA MatchKeeps ==
    ASSUME EventAssumption, BookOK, NEW i \in Orders, Match(i)
    PROVE  BookOK'
  <1> USE DEF EventAssumption
  <1>1. TypeOK /\ i \in todo /\ pc = "match" /\ IsWorking(orders[i])
    BY DEF BookOK, Match, Open
  <1>2. \A j \in Orders : Sound(orders[j])
    BY <1>1 DEF TypeOK, Sound
  <1>3. PICK o \in Matches("limit", orders[i]) :
           /\ orders' = [orders EXCEPT ![i] = o]
           /\ position' = position + NewFills(i, o)
           /\ posted' = [posted EXCEPT ![i] = o.filled]
    BY DEF Match
  <1>4. /\ Sound(o) /\ o.quantity = orders[i].quantity /\ o.filled >= orders[i].filled
        /\ IsWorking(o) \/ o.status = "FILLED"
        /\ orders[i].status = "CANCEL_PENDING" => o.status \in {"FILLED", "CANCEL_PENDING"}
    BY <1>1, <1>2, LimitMatch
  <1>5. todo' = todo \ {i} /\ UNCHANGED <<policy, left, pc, now, pending, dynamic, refused>>
    BY DEF Match
  <1>6. \A j \in Orders : orders'[j] = IF j = i THEN o ELSE orders[j]
    BY <1>1, <1>3 DEF TypeOK
  <1>7. \A j \in Orders : posted'[j] = orders'[j].filled
    BY <1>1, <1>3, <1>6 DEF BookOK, TypeOK
  <1>8. position' = position + (o.filled - orders[i].filled)
    BY <1>3 DEF NewFills, BookOK
  <1>9. TypeOK'
    <2>1. orders' \in [Orders -> Order] /\ posted' \in [Orders -> Nat]
      BY <1>1, <1>3, <1>4 DEF TypeOK, Sound, Order
    <2>2. \A j \in Orders : orders'[j].filled <= orders'[j].quantity
      BY <1>2, <1>4, <1>6 DEF Sound
    <2>3. position' \in Nat
      BY <1>1, <1>2, <1>4, <1>8 DEF TypeOK, Sound, Order
    <2> QED
      BY <1>1, <1>5, <2>1, <2>2, <2>3 DEF TypeOK
  <1>10. \A j \in pending' : j \in Orders /\ orders'[j] = orders[j]
    BY <1>1, <1>5, <1>6 DEF BookOK, TypeOK
  <1>11. \A j \in pending' :
            /\ orders'[j].status = "CREATED" /\ orders'[j].filled = 0
            /\ policy' # "replace" => orders'[j].replaces = None
    BY <1>5, <1>10 DEF BookOK
  <1>12. todo' \subseteq Open' /\ (pc' # "match" => todo' = {})
    BY <1>1, <1>5, <1>6 DEF BookOK, Open, TypeOK
  <1>13. ASSUME policy' = "replace"
         PROVE  (FitsIntent /\ OneChain /\ position <= Quantity)'
    <2>1. FitsIntent /\ OneChain /\ position <= Quantity
      BY <1>5, <1>13 DEF BookOK
    <2>2. dynamic = i /\ i \in Orders /\ dynamic # None
      BY <1>1, <2>1 DEF OneChain
    <2>3. position' + Remaining(o) = position + Remaining(orders[i]) /\ Remaining(o) \in Nat
      BY <1>1, <1>2, <1>4, <1>8 DEF TypeOK, Sound, Order
    <2>4. FitsIntent' /\ position' <= Quantity
      BY <1>5, <1>6, <1>9, <2>1, <2>2, <2>3 DEF FitsIntent, TypeOK
    <2>5. \A j \in Orders : IsWorking(orders'[j]) => j = dynamic'
      BY <1>1, <1>5, <1>6, <2>1, <2>2 DEF OneChain
    <2>6. OneChain'
      BY <1>1, <1>4, <1>5, <1>6, <1>10, <2>1, <2>2, <2>5 DEF OneChain
    <2> QED
      BY <2>4, <2>6
  <1> QED
    BY <1>7, <1>9, <1>11, <1>12, <1>13 DEF BookOK

\* Cancelling the order at work and scheduling its replacement.
LEMMA DecideReplaceKeeps ==
    ASSUME EventAssumption, BookOK,
           NEW i \in Orders, NEW due \in Dues(now), DecideReplace(i, due)
    PROVE  BookOK'
  <1> USE DEF EventAssumption
  <1>1. /\ TypeOK /\ policy = "replace" /\ pc = "decide" /\ todo = {}
        /\ FitsIntent /\ OneChain /\ position <= Quantity
    BY DEF BookOK, DecideReplace
  <1>2. due \in Nat
    BY <1>1, DueTimes DEF TypeOK
  <1>3. dynamic \in Orders /\ dynamic # None /\ ~IsTerminal(orders[dynamic])
    BY <1>1 DEF DecideReplace, Replaceable, TypeOK
  <1>4. pending = {}
    BY <1>1, <1>3 DEF DecideReplace, Replaceable, OneChain
  <1>5. orders[i] = NoOrder /\ orders[i].status = "CREATED" /\ orders[i].filled = 0
    BY DEF DecideReplace, Unused, NoOrder
  <1>6. i # dynamic
    BY <1>1, <1>3, <1>5 DEF OneChain
  <1>7. \A j \in Orders : Sound(orders[j])
    BY <1>1 DEF TypeOK, Sound
  <1> DEFINE c == RequestCancel(orders[dynamic])
             s == Scheduled(Remaining(orders[dynamic]), dynamic, due)
  <1>8. /\ Sound(c) /\ c.filled = orders[dynamic].filled
        /\ c.quantity = orders[dynamic].quantity /\ c.status = "CANCEL_PENDING"
    BY <1>3, <1>7, CancelSubmit
  <1>9. Remaining(orders[dynamic]) \in Nat
    BY <1>3, <1>7 DEF Sound, Order
  <1>10. /\ Sound(s) /\ s.status = "CREATED" /\ s.filled = 0
         /\ s.quantity = Remaining(orders[dynamic]) /\ s.replaces = dynamic
    BY <1>1, <1>2, <1>3, <1>9, ScheduledOrder
  <1>11. orders' = [orders EXCEPT ![dynamic] = c, ![i] = s]
    BY DEF DecideReplace
  <1> HIDE DEF c, s
  <1>12. /\ pending' = {i} /\ pc' # "plan" /\ pc' # "match"
         /\ pc' \in {"activate", "done"} /\ now' \in 0..Snapshots
    <2>1. pc' = StepAfter("decide")[1] /\ now' = StepAfter("decide")[2]
      BY DEF DecideReplace, Goto
    <2>2. \/ pc' = "done" /\ now' = now
          \/ pc' = "activate" /\ now' = now + 1 /\ now # Snapshots
      BY <2>1 DEF StepAfter
    <2>3. pending' = {i}
      BY <1>4 DEF DecideReplace
    <2> QED
      BY <1>1, <2>2, <2>3 DEF TypeOK
  <1>13. UNCHANGED <<policy, left, todo, dynamic, position, posted, refused>>
    BY DEF DecideReplace
  <1>14. \A j \in Orders :
            orders'[j] = IF j = i THEN s ELSE IF j = dynamic THEN c ELSE orders[j]
    BY <1>1, <1>6, <1>11 DEF TypeOK
  <1>15. orders' \in [Orders -> Order]
    BY <1>1, <1>8, <1>10, <1>11 DEF TypeOK, Sound
  <1>16. \A j \in Orders : Sound(orders'[j]) /\ orders'[j].filled = orders[j].filled
    BY <1>5, <1>7, <1>8, <1>10, <1>14
  <1>17. TypeOK'
    BY <1>1, <1>12, <1>13, <1>15, <1>16 DEF TypeOK, Sound
  <1>18. \A j \in Orders : posted'[j] = orders'[j].filled
    BY <1>13, <1>16 DEF BookOK
  <1>19. FitsIntent' /\ position' <= Quantity
    BY <1>1, <1>3, <1>6, <1>8, <1>13, <1>14 DEF FitsIntent
  <1>20. OneChain'
    <2>1. \A j \in Orders : IsWorking(orders'[j]) => j = dynamic'
      BY <1>1, <1>10, <1>13, <1>14 DEF OneChain
    <2> QED
      BY <1>3, <1>6, <1>8, <1>10, <1>12, <1>13, <1>14, <2>1 DEF OneChain
  <1> QED
    BY <1>1, <1>10, <1>12, <1>13, <1>14, <1>17, <1>18, <1>19, <1>20 DEF BookOK

\* Scheduling a slice of pov.
LEMMA DecideSliceKeeps ==
    ASSUME EventAssumption, BookOK,
           NEW i \in Orders, NEW q \in 1..Quantity, NEW due \in Dues(now),
           DecideSlice(i, q, due)
    PROVE  BookOK'
  <1> USE DEF EventAssumption
  <1>1. TypeOK /\ policy = "pov" /\ pc = "decide" /\ todo = {}
    BY DEF BookOK, DecideSlice
  <1>2. due \in Nat /\ q \in Nat
    BY <1>1, DueTimes DEF TypeOK
  <1>3. orders[i].status = "CREATED" /\ orders[i].filled = 0
    BY DEF DecideSlice, Unused, NoOrder
  <1> DEFINE s == Scheduled(q, None, due)
  <1>4. /\ Sound(s) /\ s.status = "CREATED" /\ s.filled = 0
        /\ s.quantity = q /\ s.replaces = None
    BY <1>1, <1>2, ScheduledOrder
  <1> HIDE DEF s
  <1>5. orders' = [orders EXCEPT ![i] = s] /\ pending' = pending \cup {i}
    BY DEF DecideSlice, s
  <1>6. left' \in 0..Quantity
    BY <1>1, <1>2 DEF DecideSlice, LeftAfter, TypeOK
  <1>7. pc' \in {"activate", "done"} /\ now' \in 0..Snapshots
    <2>1. pc' = StepAfter("decide")[1] /\ now' = StepAfter("decide")[2]
      BY DEF DecideSlice, Goto
    <2>2. \/ pc' = "done" /\ now' = now
          \/ pc' = "activate" /\ now' = now + 1 /\ now # Snapshots
      BY <2>1 DEF StepAfter
    <2> QED
      BY <1>1, <2>2 DEF TypeOK
  <1>8. UNCHANGED <<policy, todo, dynamic, position, posted, refused>>
    BY DEF DecideSlice
  <1>9. \A j \in Orders : orders'[j] = IF j = i THEN s ELSE orders[j]
    BY <1>1, <1>5 DEF TypeOK
  <1>10. orders' \in [Orders -> Order]
    BY <1>1, <1>4, <1>5 DEF TypeOK, Sound
  <1>11. \A j \in Orders : orders'[j].filled <= orders'[j].quantity
    BY <1>1, <1>4, <1>9 DEF TypeOK, Sound
  <1>12. TypeOK'
    BY <1>1, <1>5, <1>6, <1>7, <1>8, <1>10, <1>11 DEF TypeOK
  <1>13. \A j \in Orders : posted'[j] = orders'[j].filled
    BY <1>3, <1>4, <1>8, <1>9 DEF BookOK
  <1>14. \A j \in pending' :
            /\ orders'[j].status = "CREATED" /\ orders'[j].filled = 0
            /\ policy' # "replace" => orders'[j].replaces = None
    BY <1>1, <1>4, <1>5, <1>8, <1>9 DEF BookOK, TypeOK
  <1> QED
    BY <1>1, <1>8, <1>12, <1>13, <1>14 DEF BookOK

\* The steps that only move the loop on.
LEMMA LoopKeeps ==
    ASSUME EventAssumption, BookOK, StartRun \/ EndActivate \/ EndMatch \/ DecideNothing
    PROVE  BookOK'
  <1> USE DEF EventAssumption
  <1>1. TypeOK /\ UNCHANGED <<policy, left, book, refused>>
    BY DEF BookOK, StartRun, EndActivate, EndMatch, DecideNothing
  <1>2. UNCHANGED <<policy, left, orders, pending, dynamic, position, posted, refused>>
    BY <1>1 DEF book
  <1>3. /\ pc' \in {"activate", "match", "decide", "done"} /\ now' \in 0..Snapshots
        /\ todo' \subseteq Open /\ (pc' # "match" => todo' = {})
    <2>1. CASE StartRun
      BY <1>1, <2>1 DEF StartRun, BookOK, TypeOK
    <2>2. CASE EndActivate
      BY <1>1, <2>2 DEF EndActivate, Goto, StepAfter, TypeOK
    <2>3. CASE EndMatch
      BY <1>1, <2>3 DEF EndMatch, Goto, StepAfter, TypeOK
    <2>4. CASE DecideNothing
      <3>1. \/ pc' = "done" /\ now' = now
            \/ pc' = "activate" /\ now' = now + 1 /\ now # Snapshots
        BY <2>4 DEF DecideNothing, Goto, StepAfter
      <3> QED
        BY <1>1, <2>4, <3>1 DEF DecideNothing, BookOK, TypeOK
    <2> QED
      BY <2>1, <2>2, <2>3, <2>4
  <1>4. todo' \subseteq Open' /\ Open \subseteq Orders
    BY <1>2, <1>3 DEF Open
  <1>5. TypeOK'
    BY <1>1, <1>2, <1>3, <1>4 DEF TypeOK
  <1>6. policy' = "replace" => (FitsIntent /\ OneChain /\ position <= Quantity)'
    BY <1>2, <1>3 DEF BookOK, FitsIntent, OneChain
  <1> QED
    BY <1>2, <1>3, <1>4, <1>5, <1>6 DEF BookOK

\* Every step keeps the book well formed.
LEMMA BookKept ==
    ASSUME EventAssumption, BookOK, [Next]_vars
    PROVE  BookOK'
  <1>1. ASSUME NEW i \in Orders, NEW q \in 1..Quantity, NEW due \in Dues(1), Plan(i, q, due)
        PROVE  BookOK'
    BY <1>1, PlanKeeps
  <1>2. ASSUME NEW i \in Orders, DropReplacement(i) \/ Activate(i)
        PROVE  BookOK'
    BY <1>2, SubmitKeeps
  <1>3. ASSUME NEW i \in Orders, Match(i)
        PROVE  BookOK'
    BY <1>3, MatchKeeps
  <1>4. ASSUME NEW i \in Orders, NEW due \in Dues(now), DecideReplace(i, due)
        PROVE  BookOK'
    BY <1>4, DecideReplaceKeeps
  <1>5. ASSUME NEW i \in Orders, NEW q \in 1..Quantity, NEW due \in Dues(now),
               DecideSlice(i, q, due)
        PROVE  BookOK'
    BY <1>5, DecideSliceKeeps
  <1>6. CASE StartRun \/ EndActivate \/ EndMatch \/ DecideNothing
    BY <1>6, LoopKeeps
  <1>7. CASE UNCHANGED vars
    BY <1>7 DEF vars, loop, book, BookOK, TypeOK, Open, FitsIntent, OneChain
  <1> QED
    BY <1>1, <1>2, <1>3, <1>4, <1>5, <1>6, <1>7 DEF Next

(***************************************************************************)
(* Slices stay within the intent: lot by lot, so that nothing is summed.   *)
(***************************************************************************)

\* The first lots of an order are finitely many.
LEMMA LotsOfOrder ==
    ASSUME NEW i, NEW q \in Nat
    PROVE  IsFiniteSet({i} \X (1..q)) /\ Cardinality({i} \X (1..q)) = q
  <1> DEFINE own == {i} \X (1..q)
  <1>1. IsFiniteSet({i}) /\ Cardinality({i}) = 1
    BY FS_Singleton
  <1>2. IsFiniteSet(1..q) /\ Cardinality(1..q) = q
    BY FS_Interval
  <1>3. IsFiniteSet(own) /\ Cardinality(own) = Cardinality({i}) * Cardinality(1..q)
    BY <1>1, <1>2, FS_Product
  <1> HIDE DEF own
  <1>4. Cardinality(own) = q
    BY <1>1, <1>2, <1>3
  <1> QED
    BY <1>3, <1>4 DEF own

\* An order that is scheduled or changed without being enlarged adds no lot.
LEMMA LotsNeverGrow ==
    ASSUME EventAssumption, BookOK, BookOK', SlicesFit, policy # "replace",
           UNCHANGED <<policy, left>>,
           \A j \in Orders : orders'[j].quantity <= orders[j].quantity
    PROVE  SlicesFit'
  <1>1. \A j \in Orders : orders[j].quantity \in Nat /\ orders'[j].quantity \in Nat
    BY DEF BookOK, TypeOK, Order
  <1>2. SlicedLots' \subseteq SlicedLots
    BY <1>1 DEF SlicedLots
  <1>3. IsFiniteSet(SlicedLots) /\ Cardinality(SlicedLots) + left <= Quantity
    BY DEF SlicesFit
  <1>4. IsFiniteSet(SlicedLots') /\ Cardinality(SlicedLots') <= Cardinality(SlicedLots)
    BY <1>2, <1>3, FS_Subset
  <1>5. Cardinality(SlicedLots) \in Nat /\ Cardinality(SlicedLots') \in Nat /\ left \in Nat
    BY <1>3, <1>4, FS_CardinalityType DEF BookOK, TypeOK
  <1>6. left' = left /\ Quantity \in Nat
    BY DEF EventAssumption
  <1> QED
    BY <1>3, <1>4, <1>5, <1>6 DEF SlicesFit

\* A slice takes its lots off what is left.
LEMMA SliceTaken ==
    ASSUME EventAssumption, BookOK, SlicesFit, policy # "replace", policy' = policy,
           NEW i \in Unused, NEW q \in 1..left, NEW due,
           orders' = [orders EXCEPT ![i] = Scheduled(q, None, due)], left' = left - q
    PROVE  SlicesFit'
  <1>1. /\ orders \in [Orders -> Order] /\ left \in Nat /\ Quantity \in Nat
        /\ i \in Orders /\ q \in Nat
    BY DEF EventAssumption, BookOK, TypeOK, Unused
  <1>2. \A j \in Orders : orders'[j].quantity = IF j = i THEN q ELSE orders[j].quantity
    BY <1>1 DEF Scheduled
  <1>3. orders[i].quantity = 0
    BY DEF Unused, NoOrder
  <1> DEFINE own == {i} \X (1..q)
  <1>4. SlicedLots' = SlicedLots \cup own
    BY <1>1, <1>2, <1>3 DEF SlicedLots
  <1>5. IsFiniteSet(own) /\ Cardinality(own) = q
    BY <1>1, LotsOfOrder
  <1> HIDE DEF own
  <1>6. IsFiniteSet(SlicedLots) /\ Cardinality(SlicedLots) + left <= Quantity
    BY DEF SlicesFit
  <1>7. /\ IsFiniteSet(SlicedLots')
        /\ Cardinality(SlicedLots') = Cardinality(SlicedLots) + q - Cardinality(SlicedLots \cap own)
    BY <1>4, <1>5, <1>6, FS_Union
  <1>8. /\ Cardinality(SlicedLots) \in Nat /\ Cardinality(SlicedLots') \in Nat
        /\ Cardinality(SlicedLots \cap own) \in Nat
    BY <1>6, <1>7, FS_Subset, FS_CardinalityType
  <1> QED
    BY <1>1, <1>6, <1>7, <1>8 DEF SlicesFit

\* Every step keeps the slices within the intent.
LEMMA SlicesKept ==
    ASSUME EventAssumption, BookOK, SlicesFit, [Next]_vars
    PROVE  SlicesFit'
  <1> DEFINE Quiet == /\ left' = left
                      /\ \A j \in Orders : orders'[j].quantity <= orders[j].quantity
  <1>1. BookOK'
    BY BookKept
  <1>2. TypeOK /\ \A j \in Orders : orders[j].quantity \in Nat
    BY DEF BookOK, TypeOK, Order
  <1>3. policy' = policy
    BY DEF Next, Plan, StartRun, DropReplacement, Activate, Match, EndActivate, EndMatch,
       DecideReplace, DecideSlice, DecideNothing, vars
  <1>4. CASE policy = "replace"
    BY <1>3, <1>4 DEF SlicesFit
  <1>5. ASSUME policy # "replace", NEW i \in Orders, NEW q \in 1..Quantity, NEW due \in Dues(1),
               Plan(i, q, due)
        PROVE  SlicesFit'
    BY <1>3, <1>5, SliceTaken DEF Plan
  <1>6. ASSUME policy # "replace", NEW i \in Orders, DropReplacement(i) \/ Activate(i)
        PROVE  Quiet
    <2>1. i \in pending /\ Replaced(i) = None
      BY <1>6 DEF DropReplacement, Activate, Due, BookOK, Replaced
    <2>2. Settled(i) = orders /\ Size(i) = orders[i].quantity
      BY <2>1 DEF Settled, Size
    <2> DEFINE u == Submit([orders[i] EXCEPT !.quantity = orders[i].quantity])
    <2>3. u.quantity = orders[i].quantity
      BY <1>2 DEF Submit, TypeOK, Order
    <2>4. NoOrder.quantity = 0
      BY DEF NoOrder
    <2>5. \E n \in {u, NoOrder} : orders' = [orders EXCEPT ![i] = n]
      BY <1>6, <2>2 DEF DropReplacement, Activate
    <2>6. left' = left
      BY <1>6 DEF DropReplacement, Activate
    <2> HIDE DEF u
    <2> QED
      BY <1>2, <2>3, <2>4, <2>5, <2>6 DEF TypeOK
  <1>7. ASSUME NEW i \in Orders, Match(i)
        PROVE  Quiet
    <2>1. Sound(orders[i]) /\ IsWorking(orders[i])
      BY <1>2, <1>7 DEF Match, BookOK, Open, TypeOK, Sound
    <2>2. PICK o \in Matches("limit", orders[i]) : orders' = [orders EXCEPT ![i] = o]
      BY <1>7 DEF Match
    <2>3. o.quantity = orders[i].quantity
      BY <2>1, <2>2, LimitMatch
    <2> QED
      BY <1>2, <1>7, <2>2, <2>3 DEF Match, TypeOK
  <1>8. ASSUME policy # "replace", NEW i \in Orders, NEW q \in 1..Quantity, NEW due \in Dues(now),
               DecideSlice(i, q, due)
        PROVE  SlicesFit'
    BY <1>3, <1>8, SliceTaken DEF DecideSlice, LeftAfter
  <1>9. CASE StartRun \/ EndActivate \/ EndMatch \/ DecideNothing \/ UNCHANGED vars
    <2>1. UNCHANGED <<left, orders>>
      BY <1>9 DEF StartRun, EndActivate, EndMatch, DecideNothing, book, vars
    <2>2. Quiet
      BY <1>2, <2>1
    <2> QED
      BY <1>1, <1>3, <1>4, <2>2, LotsNeverGrow
  <1>10. ASSUME NEW i \in Orders, NEW due \in Dues(now), DecideReplace(i, due)
         PROVE  policy = "replace"
    BY <1>10 DEF DecideReplace
  <1>11. policy # "replace" /\ Quiet => SlicesFit'
    BY <1>1, <1>3, LotsNeverGrow
  <1> HIDE DEF Quiet
  <1> QED
    BY <1>4, <1>5, <1>6, <1>7, <1>8, <1>9, <1>10, <1>11 DEF Next

(***************************************************************************)
(* A chain of replacements forgets nothing of the intent.                  *)
(***************************************************************************)

\* An order that a match fills has nothing left to fill.
LEMMA FilledIsWhole ==
    ASSUME NEW o, Sound(o), IsWorking(o), NEW x \in Matches("limit", o)
    PROVE  IsWorking(x) \/ Remaining(x) = 0
  <1>1. x = o \/ \E q \in 1..Remaining(o) : x = ApplyFill(o, q)
    BY DEF Matches, Taken
  <1>2. ASSUME NEW q \in 1..Remaining(o), x = ApplyFill(o, q)
        PROVE  IsWorking(x) \/ Remaining(x) = 0
    <2>1. o \in Order /\ o.filled \in Nat /\ o.quantity \in Nat
      BY DEF Sound, Order
    <2>2. x.filled = o.filled + q /\ x.quantity = o.quantity
      BY <1>2, FillAdds
    <2>3. x.status = IF q = Remaining(o) THEN "FILLED"
                     ELSE IF o.status = "CANCEL_PENDING" THEN o.status ELSE "PARTIALLY_FILLED"
      BY <1>2, <2>1 DEF ApplyFill, Order
    <2> QED
      BY <2>1, <2>2, <2>3
  <1> QED
    BY <1>1, <1>2

\* Submitting the replacement: the chain goes on, or there was nothing left to replace.
LEMMA SubmitForgetsNothing ==
    ASSUME EventAssumption, BookOK, NothingForgotten, policy = "replace", ~refused',
           NEW i \in Orders, DropReplacement(i) \/ Activate(i)
    PROVE  NothingForgotten'
  <1>1. /\ TypeOK /\ OneChain /\ i \in pending /\ pc = "activate"
        /\ orders[i].status = "CREATED"
    BY DEF BookOK, DropReplacement, Activate, Due
  <1>2. ~refused
    BY <1>1 DEF DropReplacement, Activate, TypeOK
  <1>3. Replaced(i) = dynamic
    BY <1>1 DEF OneChain, Replaced
  <1>4. /\ dynamic = None => position = 0 /\ orders[i].quantity = Quantity
        /\ dynamic # None => position + Remaining(orders[dynamic]) = Quantity
    BY <1>1, <1>2 DEF NothingForgotten
  <1>5. /\ Settled(i) \in [Orders -> Order]
        /\ \A j \in Orders : /\ Settled(i)[j].filled = orders[j].filled
                             /\ Settled(i)[j].quantity = orders[j].quantity
        /\ Size(i) = IF dynamic = None THEN orders[i].quantity ELSE Remaining(orders[dynamic])
        /\ Size(i) \in Nat
    BY <1>1, <1>3, SettledBook
  <1>6. position + Size(i) = Quantity /\ position \in Nat
    BY <1>1, <1>4, <1>5 DEF TypeOK
  <1>7. UNCHANGED <<policy, pc, position>>
    BY DEF DropReplacement, Activate, loop
  <1>8. CASE DropReplacement(i)
    <2>1. Size(i) = 0 /\ orders' = [Settled(i) EXCEPT ![i] = NoOrder] /\ dynamic' = dynamic
      BY <1>8 DEF DropReplacement
    <2>2. dynamic # None /\ dynamic \in Orders /\ dynamic # i
      BY <1>1, <1>4, <1>5, <2>1 DEF EventAssumption, OneChain, TypeOK
    <2>3. orders'[dynamic] = Settled(i)[dynamic]
      BY <1>5, <2>1, <2>2
    <2>4. Remaining(orders'[dynamic]) = Remaining(orders[dynamic])
      BY <1>5, <2>2, <2>3
    <2> QED
      BY <1>1, <1>4, <1>5, <1>7, <2>1, <2>2, <2>4 DEF NothingForgotten
  <1>9. CASE Activate(i)
    <2> DEFINE u == Submit([orders[i] EXCEPT !.quantity = Size(i)])
    <2>1. orders' = [Settled(i) EXCEPT ![i] = u] /\ dynamic' = i
      BY <1>9 DEF Activate
    <2>2. u.status = "OPEN" /\ u.quantity = Size(i) /\ u.filled = 0
      <3>1. orders[i] \in Order /\ orders[i].filled = 0
        BY <1>1 DEF TypeOK, BookOK
      <3> QED
        BY <1>5, <3>1 DEF Submit, Order
    <2> HIDE DEF u
    <2>3. orders'[i] = u
      BY <1>5, <2>1
    <2>4. position' + Remaining(orders'[dynamic']) = Quantity /\ IsWorking(orders'[dynamic'])
      BY <1>5, <1>6, <1>7, <2>1, <2>2, <2>3
    <2> QED
      BY <1>1, <1>7, <2>1, <2>4 DEF NothingForgotten, TypeOK, EventAssumption
  <1> QED
    BY <1>8, <1>9

\* Every step of a replacing policy keeps the intent whole.
LEMMA NothingForgottenKept ==
    ASSUME EventAssumption, BookOK, NothingForgotten, [Next]_vars
    PROVE  NothingForgotten'
  <1> USE DEF EventAssumption
  <1>1. TypeOK /\ \A j \in Orders : Sound(orders[j])
    BY DEF BookOK, TypeOK, Sound
  <1>2. SUFFICES ASSUME policy' = "replace", ~refused' PROVE NothingForgotten'
    BY DEF NothingForgotten
  <1>3. policy = "replace" /\ ~refused
    BY <1>1, <1>2 DEF Next, Plan, StartRun, DropReplacement, Activate, Match, EndActivate,
       EndMatch, DecideReplace, DecideSlice, DecideNothing, vars, TypeOK
  <1>4. OneChain /\ (dynamic # None => dynamic \in Orders)
    BY <1>1, <1>3 DEF BookOK, TypeOK
  <1>5. ASSUME NEW i \in Orders, NEW q \in 1..Quantity, NEW due \in Dues(1), Plan(i, q, due)
        PROVE  NothingForgotten'
    <2>1. pc = "plan" /\ q = Quantity /\ left = Quantity
      BY <1>1, <1>3, <1>5 DEF Plan, TypeOK
    <2>2. dynamic = None /\ position = 0 /\ pending = {}
      BY <1>4, <2>1 DEF OneChain
    <2>3. orders' = [orders EXCEPT ![i] = Scheduled(q, None, due)] /\ pending' = {i}
      BY <1>5, <2>2 DEF Plan
    <2>4. orders'[i].quantity = Quantity
      BY <1>1, <2>1, <2>3 DEF TypeOK, Scheduled
    <2>5. pc' = "plan" /\ dynamic' = None /\ position' = 0
      BY <1>5, <2>1, <2>2 DEF Plan, loop
    <2> QED
      BY <2>3, <2>4, <2>5 DEF NothingForgotten
  <1>6. ASSUME NEW i \in Orders, DropReplacement(i) \/ Activate(i)
        PROVE  NothingForgotten'
    BY <1>2, <1>3, <1>6, SubmitForgetsNothing
  <1>7. ASSUME NEW i \in Orders, Match(i)
        PROVE  NothingForgotten'
    <2>1. i \in todo /\ pc = "match" /\ IsWorking(orders[i])
      BY <1>7 DEF BookOK, Match, Open
    <2>2. dynamic = i /\ dynamic # None
      BY <1>4, <2>1 DEF OneChain
    <2>3. PICK o \in Matches("limit", orders[i]) :
             orders' = [orders EXCEPT ![i] = o] /\ position' = position + NewFills(i, o)
      BY <1>7 DEF Match
    <2>4. Sound(o) /\ o.quantity = orders[i].quantity /\ (IsWorking(o) \/ Remaining(o) = 0)
      BY <1>1, <2>1, <2>3, LimitMatch, FilledIsWhole
    <2>5. position' = position + (o.filled - orders[i].filled)
      BY <2>3 DEF NewFills, BookOK
    <2>6. orders'[i] = o
      BY <1>1, <2>3 DEF TypeOK
    <2>7. UNCHANGED <<policy, pc, pending, dynamic, refused>>
      BY <1>7 DEF Match
    <2>8. position + Remaining(orders[i]) = Quantity
      BY <1>3, <2>2 DEF NothingForgotten
    <2>9. /\ position \in Nat /\ o.filled \in Nat /\ o.quantity \in Nat
          /\ orders[i].filled \in Nat /\ orders[i].quantity \in Nat
      BY <1>1, <2>4 DEF TypeOK, Sound, Order
    <2>10. position' + Remaining(orders'[i]) = Quantity
      BY <2>4, <2>5, <2>6, <2>8, <2>9
    <2> QED
      BY <2>1, <2>2, <2>4, <2>6, <2>7, <2>10 DEF NothingForgotten
  <1>8. ASSUME NEW i \in Orders, NEW due \in Dues(now), DecideReplace(i, due)
        PROVE  NothingForgotten'
    <2> DEFINE c == RequestCancel(orders[dynamic])
               s == Scheduled(Remaining(orders[dynamic]), dynamic, due)
    <2>1. dynamic \in Orders /\ dynamic # None
      BY <1>4, <1>8 DEF DecideReplace, Replaceable
    <2>2. c.filled = orders[dynamic].filled /\ c.quantity = orders[dynamic].quantity
      BY <1>1, <2>1, CancelSubmit
    <2>3. i # dynamic
      BY <1>4, <1>8, <2>1 DEF DecideReplace, Unused, NoOrder, OneChain
    <2>4. orders' = [orders EXCEPT ![dynamic] = c, ![i] = s]
      BY <1>8 DEF DecideReplace
    <2> HIDE DEF c, s
    <2>5. orders'[dynamic] = c
      BY <1>1, <2>1, <2>3, <2>4 DEF TypeOK
    <2>6. pending' # {} /\ pc' # "plan" /\ UNCHANGED <<dynamic, position>>
      BY <1>8 DEF DecideReplace, Goto, StepAfter
    <2>7. position + Remaining(orders[dynamic]) = Quantity
      BY <1>3, <2>1 DEF NothingForgotten
    <2> QED
      BY <2>1, <2>2, <2>5, <2>6, <2>7 DEF NothingForgotten
  <1>9. ASSUME NEW i \in Orders, NEW q \in 1..Quantity, NEW due \in Dues(now),
               DecideSlice(i, q, due)
        PROVE  FALSE
    BY <1>3, <1>9 DEF DecideSlice
  <1>10. CASE StartRun
    <2>1. pc = "plan" /\ left = 0
      BY <1>3, <1>10 DEF StartRun
    <2>2. pending # {}
      BY <1>3, <2>1 DEF NothingForgotten
    <2> QED
      BY <1>3, <1>10, <2>1, <2>2 DEF StartRun, book, NothingForgotten
  <1>11. CASE EndActivate \/ EndMatch \/ DecideNothing
    <2>1. pc # "plan" /\ pc' # "plan" /\ UNCHANGED <<orders, pending, dynamic, position>>
      BY <1>11 DEF EndActivate, EndMatch, DecideNothing, Goto, StepAfter, book
    <2> QED
      BY <1>3, <2>1 DEF NothingForgotten
  <1>12. CASE UNCHANGED vars
    BY <1>3, <1>12 DEF vars, loop, book, NothingForgotten
  <1> QED
    BY <1>5, <1>6, <1>7, <1>8, <1>9, <1>10, <1>11, <1>12 DEF Next

(***************************************************************************)
(* The theorems.                                                           *)
(***************************************************************************)

\* No lot is sliced and the whole intent is left to plan.
LEMMA InitIInv ==
    ASSUME EventAssumption, Init
    PROVE  IInv
  <1>1. BookOK
    BY InitBookOK
  <1>2. SlicesFit
    <2>1. \A i \in Orders : orders[i].quantity = 0
      BY DEF Init, NoOrder
    <2>2. SlicedLots = {}
      BY <2>1 DEF SlicedLots
    <2> QED
      BY <2>2, FS_EmptySet DEF Init, SlicesFit, EventAssumption
  <1>3. NothingForgotten
    BY DEF Init, NothingForgotten
  <1> QED
    BY <1>1, <1>2, <1>3 DEF IInv

\* The simulated book stays well formed: every order within its quantity, every fill
\* posted, the slices within the intent, one chain of replacements that is exactly what the
\* intent still lacks.
THEOREM EventInvariance ==
    ASSUME EventAssumption
    PROVE  Spec => []IInv
  <1>1. Init => IInv
    BY InitIInv
  <1>2. IInv /\ [Next]_vars => IInv'
    BY BookKept, SlicesKept, NothingForgottenKept DEF IInv
  <1> QED
    BY <1>1, <1>2, PTL DEF Spec

\* The portfolio never holds more than the intent under cancel_replace and pegged, though
\* the order being cancelled goes on filling until its replacement is submitted.
THEOREM ReplacingNeverOverfills ==
    ASSUME EventAssumption
    PROVE  Spec => []ReplaceNeverOverfills
  <1>1. IInv => ReplaceNeverOverfills
    BY DEF IInv, BookOK, ReplaceNeverOverfills
  <1> QED
    BY <1>1, EventInvariance, PTL

\* Under cancel_replace and pegged there is at most one order at work.
THEOREM OneOrderAtWork ==
    ASSUME EventAssumption
    PROVE  Spec => []OneWorkingOrder
  <1>1. IInv => OneWorkingOrder
    BY DEF IInv, BookOK, OneWorkingOrder, OneChain, Open
  <1> QED
    BY <1>1, EventInvariance, PTL

\* The slices of vwap and pov never fill more than the intent together, however many there
\* are and however they were sized: what on_volume takes is taken off what is left.
THEOREM SlicesStayWithinIntent ==
    ASSUME EventAssumption
    PROVE  Spec => []SlicesNeverOverfill
  <1>1. IInv => SlicesNeverOverfill
    <2> SUFFICES ASSUME IInv, policy # "replace" PROVE Cardinality(FilledLots) <= Quantity
      BY DEF SlicesNeverOverfill
    <2>1. /\ IsFiniteSet(SlicedLots) /\ Cardinality(SlicedLots) + left <= Quantity
          /\ left \in Nat /\ Quantity \in Nat
      BY DEF IInv, SlicesFit, BookOK, TypeOK, EventAssumption
    <2>2. \A i \in Orders : /\ orders[i].filled \in Nat /\ orders[i].quantity \in Nat
                            /\ orders[i].filled <= orders[i].quantity
      BY DEF IInv, BookOK, TypeOK, Order
    <2>3. FilledLots \subseteq SlicedLots
      BY <2>2 DEF FilledLots, SlicedLots
    <2>4. IsFiniteSet(FilledLots) /\ Cardinality(FilledLots) <= Cardinality(SlicedLots)
      BY <2>1, <2>3, FS_Subset
    <2>5. Cardinality(FilledLots) \in Nat /\ Cardinality(SlicedLots) \in Nat
      BY <2>1, <2>4, FS_CardinalityType
    <2> QED
      BY <2>1, <2>4, <2>5
  <1> QED
    BY <1>1, EventInvariance, PTL

\* cancel_replace and pegged never sit idle before the intent is filled: an order works or
\* one is scheduled, unless the risk engine refused one.
THEOREM ReplacingNeverIdles ==
    ASSUME EventAssumption
    PROVE  Spec => []NeverIdle
  <1>1. IInv => NeverIdle
    <2> SUFFICES ASSUME IInv, policy = "replace", pc # "plan", ~refused, pending = {}
                 PROVE  position = Quantity \/ Open # {}
      BY DEF NeverIdle
    <2>1. /\ dynamic \in Orders /\ position + Remaining(orders[dynamic]) = Quantity
          /\ IsWorking(orders[dynamic]) \/ Remaining(orders[dynamic]) = 0
          /\ position \in Nat
      BY DEF IInv, NothingForgotten, BookOK, TypeOK
    <2> QED
      BY <2>1 DEF Open
  <1> QED
    BY <1>1, EventInvariance, PTL

(***************************************************************************)
(* Fills come after decisions.                                             *)
(***************************************************************************)

\* What was decided was decided before the snapshot at hand.
Dated ==
    /\ pc \in {"activate", "match", "decide"} => \A i \in Orders : orders[i].decided < now
    /\ pc = "plan" => now = 0 /\ \A i \in Orders : orders[i].decided = 0

\* Of the operations on an order, none changes when it was decided.
LEMMA DecidedStays ==
    ASSUME NEW o \in Order
    PROVE  /\ RequestCancel(o).decided = o.decided
           /\ AckCancel(o).decided = o.decided
           /\ \A n \in Nat : Submit([o EXCEPT !.quantity = n]).decided = o.decided
           /\ \A x \in Matches("limit", o) : x.decided = o.decided
           /\ NoOrder.decided = 0 /\ NoOrder.filled = 0
  <1>1. RequestCancel(o).decided = o.decided /\ AckCancel(o).decided = o.decided
    BY DEF Order, RequestCancel, AckCancel
  <1>2. \A n \in Nat : Submit([o EXCEPT !.quantity = n]).decided = o.decided
    BY DEF Order, Submit
  <1>3. \A q : ApplyFill(o, q).decided = o.decided
    BY DEF Order, ApplyFill
  <1>4. \A x \in Matches("limit", o) : x.decided = o.decided
    <2> SUFFICES ASSUME NEW x \in Matches("limit", o)
                 PROVE  x.decided = o.decided
      OBVIOUS
    <2>1. x = o \/ \E q : x = ApplyFill(o, q)
      BY DEF Matches, Taken
    <2> QED
      BY <2>1, <1>3
  <1>5. NoOrder.decided = 0 /\ NoOrder.filled = 0
    BY DEF NoOrder
  <1> QED
    BY <1>1, <1>2, <1>4, <1>5

\* A submission changes the book only by what keeps decisions and fills.
LEMMA SubmitDates ==
    ASSUME EventAssumption, BookOK, NEW i \in Orders, DropReplacement(i) \/ Activate(i)
    PROVE  \A j \in Orders : /\ orders'[j].decided \in {orders[j].decided, 0}
                             /\ orders'[j].filled = orders[j].filled
  <1>1. TypeOK /\ i \in pending /\ orders[i].filled = 0 /\ orders[i] \in Order
    BY DEF BookOK, DropReplacement, Activate, Due, TypeOK
  <1>2. /\ Settled(i) \in [Orders -> Order] /\ Size(i) \in Nat
        /\ \A j \in Orders : Settled(i)[j].filled = orders[j].filled
    BY <1>1, SettledBook
  <1>3. \A j \in Orders : Settled(i)[j].decided = orders[j].decided
    <2> SUFFICES ASSUME NEW j \in Orders
                 PROVE  Settled(i)[j].decided = orders[j].decided
      OBVIOUS
    <2>1. orders[j] \in Order
      BY <1>1 DEF TypeOK
    <2>2. AckCancel(orders[j]).decided = orders[j].decided
      BY <2>1, DecidedStays
    <2>3. Settled(i)[j] \in {orders[j], AckCancel(orders[j])}
      BY <1>1 DEF Settled, TypeOK
    <2> QED
      BY <2>2, <2>3
  <1> DEFINE u == Submit([orders[i] EXCEPT !.quantity = Size(i)])
  <1>4. u.decided = orders[i].decided /\ NoOrder.decided = 0 /\ NoOrder.filled = 0
    BY <1>1, <1>2, DecidedStays
  <1>5. u.filled = 0
    BY <1>1 DEF Submit, Order
  <1>6. \E n \in {u, NoOrder} : orders' = [Settled(i) EXCEPT ![i] = n]
    BY DEF DropReplacement, Activate
  <1> HIDE DEF u
  <1>7. PICK n \in {u, NoOrder} : orders' = [Settled(i) EXCEPT ![i] = n]
    BY <1>6
  <1>8. \A j \in Orders : orders'[j] = IF j = i THEN n ELSE Settled(i)[j]
    BY <1>2, <1>7
  <1> QED
    BY <1>1, <1>2, <1>3, <1>4, <1>5, <1>8

\* A step keeps decisions in the past, and what it fills was decided before.
LEMMA DatedKeeps ==
    ASSUME EventAssumption, BookOK, Dated, [Next]_vars
    PROVE  /\ Dated'
           /\ \A i \in Orders :
                 orders'[i].filled > orders[i].filled => now > orders[i].decided
  <1> USE DEF EventAssumption
  <1> DEFINE Past == \A i \in Orders :
                 orders'[i].filled > orders[i].filled => now > orders[i].decided
  <1>1. TypeOK /\ now \in Nat /\ \A i \in Orders : orders[i] \in Order /\ orders[i].decided \in Nat
                              /\ orders[i].filled \in Nat
    BY DEF BookOK, TypeOK, Order
  <1>2. ASSUME NEW i \in Orders, NEW s, i \in Unused,
               orders' = [orders EXCEPT ![i] = s], s.filled = 0, s.decided = now
        PROVE  /\ \A j \in Orders : /\ orders'[j].filled = orders[j].filled
                                    /\ orders'[j].decided \in {orders[j].decided, now}
    <2>1. orders[i].filled = 0
      BY <1>2 DEF Unused, NoOrder
    <2>2. \A j \in Orders : orders'[j] = IF j = i THEN s ELSE orders[j]
      BY <1>1, <1>2 DEF TypeOK
    <2> QED
      BY <1>2, <2>1, <2>2
  <1>3. \A q, r, due : Scheduled(q, r, due).filled = 0 /\ Scheduled(q, r, due).decided = now
    BY DEF Scheduled
  <1>4. pc = "decide" => StepAfter("decide") \in {<<"done", now>>, <<"activate", now + 1>>}
    BY DEF StepAfter
  <1>5. ASSUME NEW i \in Orders, NEW q \in 1..Quantity, NEW due \in Dues(1), Plan(i, q, due)
        PROVE  Dated' /\ Past
    <2>1. \A j \in Orders : /\ orders'[j].filled = orders[j].filled
                            /\ orders'[j].decided \in {orders[j].decided, now}
      <3> DEFINE s == Scheduled(q, None, due)
      <3>1. s.filled = 0 /\ s.decided = now
        BY <1>3
      <3>2. i \in Unused /\ orders' = [orders EXCEPT ![i] = s]
        BY <1>5 DEF Plan
      <3> HIDE DEF s
      <3> QED
        BY <1>2, <3>1, <3>2
    <2>2. pc = "plan" /\ pc' = pc /\ now' = now
      BY <1>5 DEF Plan, loop
    <2> QED
      BY <1>1, <2>1, <2>2 DEF Dated
  <1>6. ASSUME NEW i \in Orders, DropReplacement(i) \/ Activate(i)
        PROVE  Dated' /\ Past
    <2>1. pc = "activate" /\ pc' = pc /\ now' = now
      BY <1>6 DEF DropReplacement, Activate, Due, loop
    <2>2. \A j \in Orders : orders[j].decided < now /\ 0 < now
      BY <1>1, <2>1 DEF Dated
    <2> QED
      BY <1>1, <1>6, <2>1, <2>2, SubmitDates DEF Dated
  <1>7. ASSUME NEW i \in Orders, Match(i)
        PROVE  Dated' /\ Past
    <2>1. pc = "match" /\ pc' = pc /\ now' = now
      BY <1>7 DEF Match
    <2>2. PICK o \in Matches("limit", orders[i]) : orders' = [orders EXCEPT ![i] = o]
      BY <1>7 DEF Match
    <2>3. \A j \in Orders : orders'[j].decided = orders[j].decided
      BY <1>1, <2>2, DecidedStays DEF TypeOK
    <2> QED
      BY <1>1, <2>1, <2>3 DEF Dated
  <1>8. ASSUME NEW i \in Orders, NEW due \in Dues(now), DecideReplace(i, due)
        PROVE  Dated' /\ Past
    <2> DEFINE c == RequestCancel(orders[dynamic])
               s == Scheduled(Remaining(orders[dynamic]), dynamic, due)
    <2>1. dynamic \in Orders /\ ~IsTerminal(orders[dynamic])
      BY <1>1, <1>8 DEF DecideReplace, Replaceable, TypeOK
    <2>2. c.decided = orders[dynamic].decided /\ c.filled = orders[dynamic].filled
      BY <1>1, <2>1, DecidedStays, CancelSubmit DEF Sound, TypeOK
    <2>3. orders' = [orders EXCEPT ![dynamic] = c, ![i] = s]
      BY <1>8 DEF DecideReplace
    <2>4. s.filled = 0 /\ s.decided = now
      BY <1>3
    <2>5. orders[i].filled = 0
      BY <1>8 DEF DecideReplace, Unused, NoOrder
    <2> HIDE DEF c, s
    <2>6. \A j \in Orders :
             orders'[j] = IF j = i THEN s ELSE IF j = dynamic THEN c ELSE orders[j]
      BY <1>1, <2>1, <2>3 DEF TypeOK
    <2>7. \A j \in Orders : /\ orders'[j].filled = orders[j].filled
                            /\ orders'[j].decided \in {orders[j].decided, now}
      BY <2>2, <2>4, <2>5, <2>6
    <2>8. pc = "decide" /\ <<pc', now'>> \in {<<"done", now>>, <<"activate", now + 1>>}
      BY <1>4, <1>8 DEF DecideReplace, Goto
    <2> QED
      BY <1>1, <2>7, <2>8 DEF Dated
  <1>9. ASSUME NEW i \in Orders, NEW q \in 1..Quantity, NEW due \in Dues(now),
               DecideSlice(i, q, due)
        PROVE  Dated' /\ Past
    <2>1. \A j \in Orders : /\ orders'[j].filled = orders[j].filled
                            /\ orders'[j].decided \in {orders[j].decided, now}
      <3> DEFINE s == Scheduled(q, None, due)
      <3>1. s.filled = 0 /\ s.decided = now
        BY <1>3
      <3>2. i \in Unused /\ orders' = [orders EXCEPT ![i] = s]
        BY <1>9 DEF DecideSlice
      <3> HIDE DEF s
      <3> QED
        BY <1>2, <3>1, <3>2
    <2>2. pc = "decide" /\ <<pc', now'>> \in {<<"done", now>>, <<"activate", now + 1>>}
      BY <1>4, <1>9 DEF DecideSlice, Goto
    <2> QED
      BY <1>1, <2>1, <2>2 DEF Dated
  <1>10. CASE StartRun \/ EndActivate \/ EndMatch \/ DecideNothing
    <2>1. orders' = orders
      BY <1>10 DEF StartRun, EndActivate, EndMatch, DecideNothing, book
    <2>2. \/ pc = "plan" /\ pc' = "activate" /\ now' = 1
          \/ pc = "activate" /\ pc' = "match" /\ now' = now
          \/ pc = "match" /\ pc' = "decide" /\ now' = now
          \/ pc = "decide" /\ pc' = "done" /\ now' = now
          \/ pc = "decide" /\ pc' = "activate" /\ now' = now + 1
      BY <1>10 DEF StartRun, EndActivate, EndMatch, DecideNothing, Goto, StepAfter
    <2> QED
      BY <1>1, <2>1, <2>2 DEF Dated
  <1>11. CASE UNCHANGED vars
    BY <1>1, <1>11 DEF vars, loop, book, Dated
  <1> QED
    BY <1>5, <1>6, <1>7, <1>8, <1>9, <1>10, <1>11 DEF Next

\* What the policy decides on seeing a snapshot is filled by later snapshots only.
THEOREM NothingFillsInThePast ==
    ASSUME EventAssumption
    PROVE  Spec => NoRetroactiveFill
  <1>1. Init => Dated
    BY DEF Init, Dated, NoOrder
  <1>2. BookOK /\ Dated /\ [Next]_vars => Dated'
    BY DatedKeeps
  <1>3. Dated /\ BookOK /\ [Next]_vars
          => [\A i \in Orders :
                 orders'[i].filled > orders[i].filled => now > orders[i].decided]_vars
    BY DatedKeeps
  <1>4. IInv => BookOK
    BY DEF IInv
  <1> QED
    BY <1>1, <1>2, <1>3, <1>4, EventInvariance, PTL DEF Spec, NoRetroactiveFill

-----------------------------------------------------------------------------

(***************************************************************************)
(* Lists of orders, and the lots they have filled.                         *)
(***************************************************************************)

\* An order added at the end.
LEMMA Appended ==
  ASSUME NEW os \in Seq(Sent), NEW o \in Sent
  PROVE  /\ Append(os, o) \in Seq(Sent)
         /\ Len(Append(os, o)) = Len(os) + 1
         /\ \A n \in 1..Len(os) : Append(os, o)[n] = os[n]
         /\ Append(os, o)[Len(os) + 1] = o
         /\ Last(Append(os, o)) = o
  <1>1. /\ Append(os, o) \in Seq(Sent)
        /\ Len(Append(os, o)) = Len(os) + 1
        /\ \A n \in 1..Len(os) : Append(os, o)[n] = os[n]
        /\ Append(os, o)[Len(os) + 1] = o
    OBVIOUS
  <1> QED
    BY <1>1 DEF Last

\* The first orders of a list.
LEMMA Prefix ==
  ASSUME NEW os \in Seq(Sent), NEW n \in 1..Len(os) + 1
  PROVE  /\ SubSeq(os, 1, n - 1) \in Seq(Sent)
         /\ Len(SubSeq(os, 1, n - 1)) = n - 1
         /\ \A m \in 1..n - 1 : SubSeq(os, 1, n - 1)[m] = os[m]
  <1>1. Len(os) \in Nat /\ n - 1 \in 0..Len(os)
    OBVIOUS
  <1>2. \A m \in 1..n - 1 : os[m] \in Sent
    BY <1>1, ElementOfSeq
  <1>3. /\ SubSeq(os, 1, n - 1) \in Seq(Sent)
        /\ Len(SubSeq(os, 1, n - 1)) = IF 1 <= n - 1 THEN n - 1 - 1 + 1 ELSE 0
        /\ \A m \in 1..n - 1 - 1 + 1 : SubSeq(os, 1, n - 1)[m] = os[1 + m - 1]
    BY <1>1, <1>2, SubSeqProperties
  <1> QED
    BY <1>1, <1>3

\* The last order of a list replaced by another.
LEMMA LastReplaced ==
  ASSUME NEW os \in Seq(Sent), os # <<>>, NEW o \in Sent
  PROVE  /\ Append(Front(os), o) \in Seq(Sent)
         /\ Len(Append(Front(os), o)) = Len(os)
         /\ \A n \in 1..Len(os) : Append(Front(os), o)[n] = IF n = Len(os) THEN o ELSE os[n]
         /\ Last(Append(Front(os), o)) = o
         /\ Len(os) \in Nat \ {0}
         /\ Last(os) \in Sent
         /\ Front(os) \in Seq(Sent)
  <1>1. Len(os) \in Nat \ {0}
    BY EmptySeq
  <1>2. /\ Front(os) \in Seq(Sent) /\ Len(Front(os)) = Len(os) - 1
        /\ \A m \in 1..Len(os) - 1 : Front(os)[m] = os[m]
    <2>1. Len(os) \in 1..Len(os) + 1
      BY <1>1
    <2>2. /\ SubSeq(os, 1, Len(os) - 1) \in Seq(Sent)
          /\ Len(SubSeq(os, 1, Len(os) - 1)) = Len(os) - 1
          /\ \A m \in 1..Len(os) - 1 : SubSeq(os, 1, Len(os) - 1)[m] = os[m]
      BY <2>1, Prefix
    <2> QED
      BY <2>2 DEF Front
  <1>3. Last(os) \in Sent
    BY <1>1, ElementOfSeq DEF Last
  <1>4. /\ Append(Front(os), o) \in Seq(Sent)
        /\ Len(Append(Front(os), o)) = Len(os) - 1 + 1
        /\ \A n \in 1..Len(os) - 1 : Append(Front(os), o)[n] = Front(os)[n]
        /\ Append(Front(os), o)[Len(os) - 1 + 1] = o
        /\ Last(Append(Front(os), o)) = o
    BY <1>2, Appended
  <1> QED
    BY <1>1, <1>2, <1>3, <1>4

\* The fills of an order are countable lots.
LEMMA SentTypes ==
  ASSUME SequentialAssumption, NEW o \in Sent
  PROVE  /\ o.filled \in Nat /\ o.quantity \in Nat /\ Quantity \in Nat
         /\ o.filled <= Quantity /\ o.quantity <= Quantity /\ o.quantity >= 1
         /\ o.status \in Working \cup Terminal
  BY DEF Sent, SequentialAssumption

\* The filled lots are finitely many.
LEMMA LotsFinite ==
  ASSUME SequentialAssumption, NEW os \in Seq(Sent)
  PROVE  IsFiniteSet(LotsIn(os)) /\ Filled(os) \in Nat
  <1>1. Len(os) \in Nat /\ DOMAIN os = 1..Len(os) /\ \A n \in 1..Len(os) : os[n] \in Sent
    BY LenProperties, ElementOfSeq
  <1>2. IsFiniteSet((1..Len(os)) \X (1..Quantity))
    <2>1. IsFiniteSet(1..Len(os)) /\ IsFiniteSet(1..Quantity)
      BY <1>1, FS_Interval DEF SequentialAssumption
    <2> QED
      BY <2>1, FS_Product
  <1>3. \A n \in 1..Len(os) : os[n].filled \in Nat /\ os[n].filled <= Quantity
    BY <1>1, SentTypes
  <1>4. LotsIn(os) \subseteq (1..Len(os)) \X (1..Quantity)
    BY <1>1, <1>3 DEF LotsIn, SequentialAssumption
  <1>5. IsFiniteSet(LotsIn(os))
    BY <1>2, <1>4, FS_Subset
  <1> QED
    BY <1>5, FS_CardinalityType DEF Filled

\* What is filled depends on the fills of the orders only.
LEMMA SameFills ==
  ASSUME NEW os \in Seq(Sent), NEW ot \in Seq(Sent), Len(os) = Len(ot),
         \A n \in 1..Len(os) : os[n].filled = ot[n].filled
  PROVE  Filled(os) = Filled(ot)
  <1>1. DOMAIN os = 1..Len(os) /\ DOMAIN ot = 1..Len(os)
    BY LenProperties
  <1>2. LotsIn(os) = LotsIn(ot)
    BY <1>1 DEF LotsIn
  <1> QED
    BY <1>2 DEF Filled

\* An order added at the end adds its fills.
LEMMA FillsAdd ==
  ASSUME SequentialAssumption, NEW os \in Seq(Sent), NEW o \in Sent
  PROVE  Filled(Append(os, o)) = Filled(os) + o.filled
  <1> DEFINE k == Len(os) + 1
             new == {k} \X (1..o.filled)
  <1>1. /\ Len(os) \in Nat /\ DOMAIN os = 1..Len(os)
        /\ DOMAIN Append(os, o) = 1..k
        /\ \A n \in 1..Len(os) : Append(os, o)[n] = os[n]
        /\ Append(os, o)[k] = o
    BY Appended, LenProperties
  <1>2. o.filled \in Nat
    BY SentTypes
  <1>3. LotsIn(Append(os, o)) = LotsIn(os) \cup new
    BY <1>1 DEF LotsIn
  <1>4. LotsIn(os) \cap new = {}
    BY <1>1 DEF LotsIn
  <1>5. IsFiniteSet(new) /\ Cardinality(new) = o.filled
    BY <1>2, LotsOfOrder
  <1>6. IsFiniteSet(LotsIn(os)) /\ Filled(os) \in Nat
    BY LotsFinite
  <1> HIDE DEF new, k
  <1>7. Cardinality(LotsIn(os) \cup new)
           = Cardinality(LotsIn(os)) + Cardinality(new) - Cardinality({})
    BY <1>4, <1>5, <1>6, FS_Union
  <1> QED
    BY <1>2, <1>3, <1>5, <1>6, <1>7, FS_EmptySet DEF Filled

\* An order that takes the place of the last one takes the place of its fills.
LEMMA FillsReplaced ==
  ASSUME SequentialAssumption, NEW os \in Seq(Sent), os # <<>>, NEW o \in Sent
  PROVE  Filled(Append(Front(os), o)) + Last(os).filled = Filled(os) + o.filled
  <1>1. Front(os) \in Seq(Sent) /\ Last(os) \in Sent
    BY LastReplaced
  <1>2. Filled(Append(Front(os), o)) = Filled(Front(os)) + o.filled
    BY <1>1, FillsAdd
  <1>3. Filled(Append(Front(os), Last(os))) = Filled(Front(os)) + Last(os).filled
    BY <1>1, FillsAdd
  <1>4. Filled(Append(Front(os), Last(os))) = Filled(os)
    <2>1. /\ Append(Front(os), Last(os)) \in Seq(Sent)
          /\ Len(Append(Front(os), Last(os))) = Len(os)
          /\ \A n \in 1..Len(os) : Append(Front(os), Last(os))[n] = os[n]
      BY <1>1, LastReplaced DEF Last
    <2> QED
      BY <2>1, SameFills
  <1>5. Filled(Front(os)) \in Nat /\ o.filled \in Nat /\ Last(os).filled \in Nat
    BY <1>1, LotsFinite, SentTypes
  <1> QED
    BY <1>2, <1>3, <1>4, <1>5

(***************************************************************************)
(* The steps of the sequential executor.                                   *)
(***************************************************************************)

\* A submitted order that is not filled past its own quantity.
SentOK(o) == o \in Sent /\ o.filled <= o.quantity

\* Cancelling an order ends it and leaves its fills.
LEMMA CancelEnds ==
  ASSUME NEW o, SentOK(o)
  PROVE  /\ SentOK(AckCancel(RequestCancel(o)))
         /\ AckCancel(RequestCancel(o)).filled = o.filled
         /\ AckCancel(RequestCancel(o)).quantity = o.quantity
         /\ IsTerminal(AckCancel(RequestCancel(o)))
  BY DEF SentOK, Sent, AckCancel, RequestCancel

\* A fill within what remains adds its lots.
LEMMA FillWithin ==
  ASSUME SequentialAssumption, NEW o, SentOK(o), NEW q \in 0..o.quantity - o.filled
  PROVE  /\ SentOK(ApplyFill(o, q))
         /\ ApplyFill(o, q).filled = o.filled + q
         /\ ApplyFill(o, q).quantity = o.quantity
  <1>1. /\ o \in Sent /\ o.filled \in Nat /\ o.quantity \in Nat /\ q \in Nat /\ Quantity \in Nat
        /\ o.quantity <= Quantity
    BY SentTypes DEF SentOK
  <1> DEFINE s == IF q = Remaining(o) THEN "FILLED"
                  ELSE IF o.status = "CANCEL_PENDING" THEN o.status ELSE "PARTIALLY_FILLED"
  <1>2. ApplyFill(o, q) = [o EXCEPT !.filled = o.filled + q, !.status = s]
    BY DEF ApplyFill
  <1>3. s \in Working \cup Terminal
    OBVIOUS
  <1> HIDE DEF s
  <1>4. o.filled + q \in 0..Quantity /\ o.filled + q <= o.quantity
    BY <1>1
  <1>5. /\ ApplyFill(o, q) \in Sent
        /\ ApplyFill(o, q).filled = o.filled + q
        /\ ApplyFill(o, q).quantity = o.quantity
    BY <1>1, <1>2, <1>3, <1>4 DEF Sent
  <1> QED
    BY <1>4, <1>5 DEF SentOK

\* Whatever the liquidity of a snapshot, an order is filled within its quantity.
LEMMA TakenWithin ==
  ASSUME SequentialAssumption, NEW o, SentOK(o), NEW x \in Taken(o)
  PROVE  SentOK(x) /\ x.quantity = o.quantity /\ x.filled >= o.filled
  <1>1. o.filled \in Nat
    BY SentTypes DEF SentOK
  <1>2. CASE x = o
    BY <1>1, <1>2
  <1>3. ASSUME NEW q \in 1..Remaining(o), x = ApplyFill(o, q)
        PROVE  SentOK(x) /\ x.quantity = o.quantity /\ x.filled >= o.filled
    BY <1>1, <1>3, FillWithin
  <1> QED
    BY <1>2, <1>3 DEF Taken

\* Giving up what remains leaves the fills.
LEMMA DroppedWithin ==
  ASSUME NEW o, SentOK(o)
  PROVE  /\ SentOK(Dropped(o))
         /\ Dropped(o).quantity = o.quantity
         /\ Dropped(o).filled = o.filled
  BY CancelEnds DEF Dropped

\* Another verdict leaves the fills.
LEMMA StatusOnly ==
  ASSUME NEW o, SentOK(o), NEW s \in Terminal
  PROVE  /\ SentOK([o EXCEPT !.status = s])
         /\ [o EXCEPT !.status = s].quantity = o.quantity
         /\ [o EXCEPT !.status = s].filled = o.filled
  BY DEF SentOK, Sent

\* Whatever a snapshot makes of the order at work, it stays within its quantity.
LEMMA OutcomeWithin ==
  ASSUME SequentialAssumption, NEW o, SentOK(o), IsWorking(o), NEW x \in Outcomes(o)
  PROVE  SentOK(x) /\ x.quantity = o.quantity /\ x.filled >= o.filled
  <1> DEFINE Good(y) == SentOK(y) /\ y.quantity = o.quantity /\ y.filled >= o.filled
  <1>1. o.filled \in Nat /\ o.quantity \in Nat /\ o.filled <= o.quantity
    BY SentTypes DEF SentOK
  <1>2. \A y \in Taken(o) : Good(y)
    BY TakenWithin
  <1>3. \A y \in Taken(o) : Good(Dropped(y))
    BY <1>2, DroppedWithin
  <1>4. Good(Dropped(o))
    BY <1>1, DroppedWithin
  <1>5. ASSUME NEW s \in Terminal PROVE Good([o EXCEPT !.status = s])
    <2> DEFINE y == [o EXCEPT !.status = s]
    <2>1. SentOK(y) /\ y.quantity = o.quantity /\ y.filled = o.filled
      BY StatusOnly
    <2> HIDE DEF y
    <2>2. Good(y)
      BY <1>1, <2>1
    <2> QED
      BY <2>2 DEF y
  <1>6. ASSUME plan.kind = "fok", x = ApplyFill(o, Remaining(o)) PROVE Good(x)
    BY <1>1, <1>6, FillWithin
  <1> HIDE DEF Good
  <1>7. x \in Matches(plan.kind, o) \/ x = [o EXCEPT !.status = "EXPIRED"]
    BY DEF Outcomes
  <1>8. ASSUME x \in Matches(plan.kind, o) PROVE Good(x)
    <2>1. ~IsTerminal(o)
      OBVIOUS
    <2>2. \/ x \in {Dropped(y) : y \in Taken(o)}
          \/ plan.kind = "fok" /\ x \in {Dropped(o), ApplyFill(o, Remaining(o))}
          \/ x \in Taken(o) \cup {[o EXCEPT !.status = "REJECTED"]}
      BY <1>8, <2>1 DEF Matches
    <2>3. CASE x \in {Dropped(y) : y \in Taken(o)}
      BY <1>3, <2>3
    <2>4. CASE plan.kind = "fok" /\ x \in {Dropped(o), ApplyFill(o, Remaining(o))}
      BY <1>4, <1>6, <2>4
    <2>5. CASE x \in Taken(o) \cup {[o EXCEPT !.status = "REJECTED"]}
      BY <1>2, <1>5, <2>5
    <2> QED
      BY <2>2, <2>3, <2>4, <2>5
  <1> QED
    BY <1>5, <1>7, <1>8 DEF Good

\* The callers and families of the model.
LEMMA ProfilType ==
  ASSUME SequentialAssumption, SequentialTypeOK
  PROVE  Profil \in {Historique, Adaptatif, Jambes}
  BY DEF SequentialTypeOK, SequentialAssumption, Profil

\* A profile that cancels what is open also sizes by what is left, and conversely.
LEMMA Ladders ==
  ASSUME SequentialAssumption, SequentialTypeOK
  PROVE  Profil.quantite = "reliquat" <=> Profil.annulation = "ordre_ouvert"
  BY ProfilType DEF Historique, Adaptatif, Jambes

\* The start of an order is one of the snapshots, and when the profile rounds up, not
\* before it is due unless it is the last.
LEMMA StartInTime ==
  ASSUME SequentialAssumption, NEW p \in PlannedOrder
  PROVE  /\ StartIndex(p) \in 0..LastIndex
         /\ Profil.plafond /\ p.offset > 0
              => 2 * StartIndex(p) >= DueTick(p) \/ StartIndex(p) = LastIndex
  <1>1. p.offset \in Nat /\ Latency \in Nat /\ LastIndex \in Nat
    <2>1. p.offset \in Offsets
      BY DEF PlannedOrder
    <2>2. Snapshots \in Nat /\ Snapshots # 0 /\ Latency \in Nat /\ Offsets \subseteq Nat
      BY DEF SequentialAssumption
    <2>3. LastIndex \in Nat
      BY <2>2 DEF LastIndex
    <2> QED
      BY <2>1, <2>2, <2>3
  <1> DEFINE d == DueTick(p)
  <1>2. d \in Nat
    BY <1>1 DEF DueTick
  <1> HIDE DEF d
  <1>3. d \div 2 \in Nat /\ (d + 1) \div 2 \in Nat /\ 2 * ((d + 1) \div 2) >= d
    BY <1>2
  <1> DEFINE index == IF Profil.plafond /\ p.offset > 0 THEN (d + 1) \div 2 ELSE d \div 2
  <1>4. StartIndex(p) = IF index > LastIndex THEN LastIndex ELSE index
    BY DEF StartIndex, d
  <1>5. index \in Nat /\ (Profil.plafond /\ p.offset > 0 => 2 * index >= d)
    BY <1>3
  <1> HIDE DEF index
  <1> QED
    BY <1>1, <1>4, <1>5 DEF d

\* Cancelling at the request of the next order changes no fill and no quantity; of the
\* statuses only the last, which is terminal when the next order cancels.
LEMMA SettledList ==
  ASSUME SequentialAssumption, SequentialTypeOK, NEW p
  PROVE  /\ AfterCancel(p) \in Seq(Sent)
         /\ Len(AfterCancel(p)) = Len(executed)
         /\ Len(executed) \in Nat
         /\ \A n \in 1..Len(executed) :
               /\ SentOK(AfterCancel(p)[n])
               /\ AfterCancel(p)[n].filled = executed[n].filled
               /\ AfterCancel(p)[n].quantity = executed[n].quantity
               /\ IsTerminal(executed[n]) => IsTerminal(AfterCancel(p)[n])
               /\ n = Len(executed) /\ Cancels(p) => IsTerminal(AfterCancel(p)[n])
         /\ Filled(AfterCancel(p)) = Filled(executed)
  <1>1. /\ executed \in Seq(Sent) /\ Len(executed) \in Nat
        /\ \A n \in 1..Len(executed) : SentOK(executed[n])
    BY ElementOfSeq, LenProperties DEF SequentialTypeOK, SentOK
  <1> DEFINE c == AckCancel(RequestCancel(Last(executed)))
             cancelled == executed # <<>> /\ ~IsTerminal(Last(executed)) /\ Cancels(p)
  <1>2. CASE ~cancelled
    <2>1. AfterCancel(p) = executed
      BY <1>2 DEF AfterCancel
    <2>2. Len(executed) # 0 => executed # <<>>
      BY EmptySeq
    <2> QED
      BY <1>1, <1>2, <2>1, <2>2 DEF Last
  <1>3. CASE cancelled
    <2>1. AfterCancel(p) = Append(Front(executed), c)
      BY <1>3 DEF AfterCancel
    <2>2. Len(executed) \in 1..Len(executed) /\ SentOK(Last(executed))
      BY <1>1, <1>3, EmptySeq DEF Last
    <2>3. /\ SentOK(c) /\ c \in Sent /\ c.filled = Last(executed).filled
          /\ c.quantity = Last(executed).quantity /\ IsTerminal(c)
      BY <2>2, CancelEnds DEF SentOK
    <2> HIDE DEF c
    <2>4. /\ AfterCancel(p) \in Seq(Sent)
          /\ Len(AfterCancel(p)) = Len(executed)
          /\ \A n \in 1..Len(executed) :
                AfterCancel(p)[n] = IF n = Len(executed) THEN c ELSE executed[n]
      <3>1. /\ Append(Front(executed), c) \in Seq(Sent)
            /\ Len(Append(Front(executed), c)) = Len(executed)
            /\ \A n \in 1..Len(executed) :
                  Append(Front(executed), c)[n] = IF n = Len(executed) THEN c ELSE executed[n]
        BY <1>1, <1>3, <2>3, LastReplaced
      <3> QED
        BY <2>1, <3>1
    <2>5. \A n \in 1..Len(executed) :
             /\ AfterCancel(p)[n].filled = executed[n].filled
             /\ AfterCancel(p)[n].quantity = executed[n].quantity
             /\ SentOK(AfterCancel(p)[n])
             /\ IsTerminal(executed[n]) => IsTerminal(AfterCancel(p)[n])
      BY <1>1, <2>3, <2>4 DEF Last
    <2>6. Filled(AfterCancel(p)) = Filled(executed)
      BY <1>1, <2>4, <2>5, SameFills
    <2> QED
      BY <1>1, <2>2, <2>3, <2>4, <2>5, <2>6
  <1> QED
    BY <1>2, <1>3

\* What is authorised is a quantity, and within what the budget has left where it has one.
LEMMA AuthorisedWithin ==
  ASSUME SequentialAssumption, SequentialTypeOK, NEW p \in PlannedOrder, Authorised(p) > 0,
         Profil.quantite # "libre" => rempli <= Quantity
  PROVE  /\ Authorised(p) \in 1..Quantity
         /\ Profil.quantite # "libre" => rempli + Authorised(p) <= Quantity
         /\ Profil.quantite = "reliquat" => Authorised(p) = Quantity - rempli
  <1>1. p.quantity \in 1..Quantity /\ rempli \in Nat /\ Quantity \in Nat
    BY DEF PlannedOrder, SequentialTypeOK, SequentialAssumption
  <1>2. Profil.quantite \in {"reliquat", "plan_borne", "libre"}
    BY ProfilType DEF Historique, Adaptatif, Jambes
  <1>3. CASE Profil.quantite = "libre"
    BY <1>1, <1>3 DEF Authorised
  <1>4. CASE Profil.quantite # "libre"
    <2>1. Restant = Quantity - rempli /\ Restant \in 0..Quantity
      BY <1>1, <1>4 DEF Restant
    <2> HIDE DEF Restant
    <2>2. CASE Profil.quantite = "reliquat"
      BY <1>1, <2>1, <2>2 DEF Authorised
    <2>3. CASE Profil.quantite = "plan_borne"
      BY <1>1, <2>1, <2>3 DEF Authorised
    <2> QED
      BY <1>2, <1>4, <2>2, <2>3
  <1> QED
    BY <1>3, <1>4

\* The fills of the first orders depend on those orders only.
LEMMA PrefixFills ==
  ASSUME NEW os \in Seq(Sent), NEW ot \in Seq(Sent), NEW n \in 1..Len(os) + 1,
         n \in 1..Len(ot) + 1, \A m \in 1..n - 1 : os[m].filled = ot[m].filled
  PROVE  Filled(SubSeq(os, 1, n - 1)) = Filled(SubSeq(ot, 1, n - 1))
  <1> DEFINE s == SubSeq(os, 1, n - 1)
             t == SubSeq(ot, 1, n - 1)
  <1>1. s \in Seq(Sent) /\ Len(s) = n - 1 /\ \A m \in 1..n - 1 : s[m] = os[m]
    BY Prefix
  <1>2. t \in Seq(Sent) /\ Len(t) = n - 1 /\ \A m \in 1..n - 1 : t[m] = ot[m]
    BY Prefix
  <1> HIDE DEF s, t
  <1>3. Len(s) = Len(t) /\ \A m \in 1..Len(s) : s[m].filled = t[m].filled
    BY <1>1, <1>2
  <1>4. Filled(s) = Filled(t)
    BY <1>1, <1>2, <1>3, SameFills
  <1> QED
    BY <1>4 DEF s, t

\* The orders before this step keep their place on the ladder after it.
LEMMA RungsKeepTheirPlace ==
  ASSUME SequentialTypeOK, RungsTakeTheRest, executed' \in Seq(Sent), Profil' = Profil,
         Len(executed') \in Nat, Len(executed) <= Len(executed'),
         \A n \in 1..Len(executed) : executed'[n].quantity = executed[n].quantity,
         \A n \in 1..Len(executed) - 1 : executed'[n].filled = executed[n].filled,
         NEW n \in 1..Len(executed), Profil.quantite = "reliquat"
  PROVE  executed'[n].quantity + Filled(SubSeq(executed', 1, n - 1)) = Quantity
  <1>1. executed \in Seq(Sent) /\ DOMAIN executed = 1..Len(executed) /\ Len(executed) \in Nat
    BY LenProperties DEF SequentialTypeOK
  <1>2. executed[n].quantity + Filled(SubSeq(executed, 1, n - 1)) = Quantity
    BY <1>1 DEF RungsTakeTheRest
  <1>3. n \in 1..Len(executed) + 1 /\ n \in 1..Len(executed') + 1
    BY <1>1
  <1>4. \A m \in 1..n - 1 : executed'[m].filled = executed[m].filled
    BY <1>1
  <1>5. Filled(SubSeq(executed', 1, n - 1)) = Filled(SubSeq(executed, 1, n - 1))
    BY <1>1, <1>3, <1>4, PrefixFills
  <1> QED
    BY <1>2, <1>5

\* The plan starts within the intent.
LEMMA SequentialStarts ==
  ASSUME SequentialAssumption, SequentialInit
  PROVE  SequentialIInv
  <1>1. executed = <<>> /\ executed \in Seq(Sent) /\ Len(executed) = 0
    BY EmptySeq DEF SequentialInit
  <1>2. DOMAIN executed = {}
    BY <1>1
  <1>3. <<entry, family>> \in Callers
    BY DEF SequentialInit, SequentialAssumption
  <1>4. LastIndex \in Nat
    <2>1. Snapshots \in Nat /\ Snapshots # 0
      BY DEF SequentialAssumption
    <2> QED
      BY <2>1 DEF LastIndex
  <1>5. SequentialTypeOK
    <2>1. stage = "next" /\ planned \in 0..MaxOrders /\ plan = NoPlan /\ at \in 0..LastIndex
          /\ rempli \in Nat /\ Len(executed) <= planned
      BY <1>1, <1>4 DEF SequentialInit, SequentialAssumption
    <2> QED
      BY <1>1, <1>2, <1>3, <2>1 DEF SequentialTypeOK
  <1>6. Filled(executed) = 0
    <2>1. LotsIn(executed) = {}
      BY <1>2 DEF LotsIn
    <2> QED
      BY <2>1, FS_EmptySet DEF Filled
  <1>7. OneOpen /\ RungsTakeTheRest /\ RungsAreOver
    BY <1>1, <1>2 DEF OneOpen, RungsTakeTheRest, RungsAreOver
  <1>8. BudgetKnows /\ MatchesInTime
    BY <1>6 DEF SequentialInit, BudgetKnows, MatchesInTime, SequentialAssumption
  <1> QED
    BY <1>5, <1>7, <1>8 DEF SequentialIInv, LadderHolds

\* Taking an order of the plan leaves the callers, the profile and the budget.
LEMMA TakeTypes ==
  ASSUME SequentialAssumption, SequentialIInv, NEW p \in PlannedOrder, Take(p)
  PROVE  /\ SequentialTypeOK
         /\ stage = "next" /\ Authorised(p) > 0
         /\ entry' = entry /\ family' = family /\ rempli' = rempli
         /\ Profil' = Profil
         /\ planned' \in 0..MaxOrders /\ planned' = planned + 1 /\ planned \in Nat
         /\ Filled(executed) = rempli
         /\ Profil.quantite # "libre" => rempli <= Quantity
         /\ RungsTakeTheRest /\ RungsAreOver
  <1>1. SequentialTypeOK /\ RungsTakeTheRest /\ RungsAreOver /\ BudgetKnows
    BY DEF SequentialIInv, LadderHolds
  <1>2. /\ stage = "next" /\ planned < MaxOrders /\ planned' = planned + 1 /\ Authorised(p) > 0
        /\ entry' = entry /\ family' = family /\ rempli' = rempli
    BY DEF Take
  <1>3. Profil' = Profil
    BY <1>2 DEF Profil
  <1>4. planned' \in 0..MaxOrders /\ planned \in Nat
    BY <1>1, <1>2 DEF SequentialTypeOK, SequentialAssumption
  <1> QED
    BY <1>1, <1>2, <1>3, <1>4 DEF BudgetKnows

\* A refused order has at most cancelled the one before.
LEMMA RefuseKeeps ==
  ASSUME SequentialAssumption, SequentialIInv, NEW p \in PlannedOrder, Refuse(p)
  PROVE  SequentialIInv'
  <1>0. Take(p) /\ executed' = AfterCancel(p) /\ plan' = plan /\ at' = at /\ stage' = stage
    BY DEF Refuse
  <1>1. /\ SequentialTypeOK
        /\ stage = "next" /\ Authorised(p) > 0
        /\ entry' = entry /\ family' = family /\ rempli' = rempli
        /\ Profil' = Profil
        /\ planned' \in 0..MaxOrders /\ planned' = planned + 1 /\ planned \in Nat
        /\ Filled(executed) = rempli
        /\ Profil.quantite # "libre" => rempli <= Quantity
        /\ RungsTakeTheRest /\ RungsAreOver
    BY <1>0, TakeTypes
  <1>2. /\ executed' \in Seq(Sent)
        /\ Len(executed') = Len(executed)
        /\ Len(executed) \in Nat
        /\ \A n \in 1..Len(executed) :
              /\ SentOK(executed'[n])
              /\ executed'[n].filled = executed[n].filled
              /\ executed'[n].quantity = executed[n].quantity
              /\ IsTerminal(executed[n]) => IsTerminal(executed'[n])
        /\ Filled(executed') = Filled(executed)
    BY <1>0, <1>1, SettledList
  <1>3. DOMAIN executed' = 1..Len(executed)
    BY <1>2, LenProperties
  <1>4. SequentialTypeOK'
    BY <1>0, <1>1, <1>2, <1>3 DEF SequentialTypeOK, SentOK
  <1>5. RungsAreOver'
    <2>1. \A n \in 1..Len(executed) - 1 : n \in 1..Len(executed)
      BY <1>2
    <2>2. \A n \in 1..Len(executed) - 1 : IsTerminal(executed[n]) => IsTerminal(executed'[n])
      BY <1>2, <2>1
    <2> QED
      BY <1>1, <1>2, <2>2 DEF RungsAreOver
  <1>6. RungsTakeTheRest'
    <2>1. ASSUME NEW n \in 1..Len(executed), Profil.quantite = "reliquat"
          PROVE  executed'[n].quantity + Filled(SubSeq(executed', 1, n - 1)) = Quantity
      BY <1>1, <1>2, <2>1, RungsKeepTheirPlace
    <2> QED
      BY <1>1, <1>3, <2>1 DEF RungsTakeTheRest
  <1>7. BudgetKnows' /\ MatchesInTime'
    BY <1>0, <1>1, <1>2 DEF BudgetKnows, MatchesInTime
  <1>8. OneOpen'
    BY <1>2, <1>3, <1>5 DEF OneOpen, RungsAreOver
  <1> QED
    BY <1>4, <1>5, <1>6, <1>7, <1>8 DEF SequentialIInv, LadderHolds

\* A sent order asks for no more than the budget has left, and on a ladder for exactly that.
LEMMA SendKeeps ==
  ASSUME SequentialAssumption, SequentialIInv, NEW p \in PlannedOrder, Send(p)
  PROVE  /\ SequentialIInv'
         /\ Filled(executed') = Filled(executed)
  <1> DEFINE s == Submitted(p)
  <1>0. /\ Take(p) /\ executed' = Append(AfterCancel(p), s)
        /\ plan' = p /\ at' = StartIndex(p) /\ stage' = "match"
    BY DEF Send
  <1>1. /\ SequentialTypeOK
        /\ stage = "next" /\ Authorised(p) > 0
        /\ entry' = entry /\ family' = family /\ rempli' = rempli
        /\ Profil' = Profil
        /\ planned' \in 0..MaxOrders /\ planned' = planned + 1 /\ planned \in Nat
        /\ Filled(executed) = rempli
        /\ Profil.quantite # "libre" => rempli <= Quantity
        /\ RungsTakeTheRest /\ RungsAreOver
    BY <1>0, TakeTypes
  <1>2. /\ AfterCancel(p) \in Seq(Sent)
        /\ Len(AfterCancel(p)) = Len(executed)
        /\ Len(executed) \in Nat
        /\ \A n \in 1..Len(executed) :
              /\ SentOK(AfterCancel(p)[n])
              /\ AfterCancel(p)[n].filled = executed[n].filled
              /\ AfterCancel(p)[n].quantity = executed[n].quantity
              /\ IsTerminal(executed[n]) => IsTerminal(AfterCancel(p)[n])
              /\ n = Len(executed) /\ Cancels(p) => IsTerminal(AfterCancel(p)[n])
        /\ Filled(AfterCancel(p)) = Filled(executed)
    BY <1>1, SettledList
  <1>3. /\ Authorised(p) \in 1..Quantity
        /\ Profil.quantite # "libre" => rempli + Authorised(p) <= Quantity
        /\ Profil.quantite = "reliquat" => Authorised(p) = Quantity - rempli
    BY <1>1, AuthorisedWithin
  <1>4. /\ s.status = "OPEN" /\ s.quantity = Authorised(p) /\ s.filled = 0
        /\ SentOK(s) /\ s \in Sent
    <2>1. s = [status |-> "OPEN", quantity |-> Authorised(p), filled |-> 0]
      BY DEF Submitted, Submit
    <2>2. 0 \in 0..Quantity /\ 0 <= Authorised(p)
      BY <1>3 DEF SequentialAssumption
    <2> QED
      BY <1>3, <2>1, <2>2 DEF SentOK, Sent
  <1> HIDE DEF s
  <1>5. /\ executed' \in Seq(Sent)
        /\ Len(executed') = Len(executed) + 1
        /\ \A n \in 1..Len(executed) : executed'[n] = AfterCancel(p)[n]
        /\ executed'[Len(executed) + 1] = s
        /\ Last(executed') = s
        /\ DOMAIN executed' = 1..Len(executed) + 1
    <2>1. /\ Append(AfterCancel(p), s) \in Seq(Sent)
          /\ Len(Append(AfterCancel(p), s)) = Len(executed) + 1
          /\ \A n \in 1..Len(executed) : Append(AfterCancel(p), s)[n] = AfterCancel(p)[n]
          /\ Append(AfterCancel(p), s)[Len(executed) + 1] = s
          /\ Last(Append(AfterCancel(p), s)) = s
      BY <1>2, <1>4, Appended
    <2> QED
      BY <1>0, <2>1, LenProperties
  <1>6. Filled(executed') = Filled(executed)
    <2>1. Filled(Append(AfterCancel(p), s)) = Filled(AfterCancel(p)) + s.filled
      BY <1>2, <1>4, FillsAdd
    <2> QED
      BY <1>0, <1>1, <1>2, <1>4, <2>1 DEF SequentialTypeOK
  <1>7. \A n \in 1..Len(executed) :
           /\ SentOK(executed'[n])
           /\ executed'[n].filled = executed[n].filled
           /\ executed'[n].quantity = executed[n].quantity
    BY <1>2, <1>5
  <1>8. StartIndex(p) \in 0..LastIndex
    BY StartInTime
  <1>9. SequentialTypeOK'
    <2>1. Len(executed') <= planned'
      BY <1>1, <1>2, <1>5 DEF SequentialTypeOK
    <2>2. \A n \in DOMAIN executed' : executed'[n].filled <= executed'[n].quantity
      BY <1>2, <1>4, <1>5, <1>7 DEF SentOK
    <2> QED
      BY <1>0, <1>1, <1>5, <1>8, <2>1, <2>2 DEF SequentialTypeOK, LastIndex
  <1>10. RungsAreOver'
    <2>1. ASSUME Profil.annulation = "ordre_ouvert", NEW n \in 1..Len(executed)
          PROVE  IsTerminal(AfterCancel(p)[n])
      <3>1. Cancels(p)
        BY <2>1 DEF Cancels
      <3>2. n # Len(executed) => n \in 1..Len(executed) - 1
        BY <1>2
      <3> QED
        BY <1>1, <1>2, <2>1, <3>1, <3>2 DEF RungsAreOver
    <2>2. 1..Len(executed') - 1 = 1..Len(executed)
      BY <1>2, <1>5
    <2> QED
      BY <1>1, <1>5, <2>1, <2>2 DEF RungsAreOver
  <1>11. RungsTakeTheRest'
    <2>1. ASSUME NEW n \in 1..Len(executed), Profil.quantite = "reliquat"
          PROVE  executed'[n].quantity + Filled(SubSeq(executed', 1, n - 1)) = Quantity
      BY <1>1, <1>2, <1>5, <1>7, <2>1, RungsKeepTheirPlace
    <2>2. ASSUME Profil.quantite = "reliquat"
          PROVE  s.quantity + Filled(SubSeq(executed', 1, Len(executed))) = Quantity
      <3> DEFINE k == Len(executed) + 1
      <3>1. k \in 1..Len(executed') + 1 /\ k - 1 = Len(executed)
        BY <1>2, <1>5
      <3> HIDE DEF k
      <3>2. /\ SubSeq(executed', 1, k - 1) \in Seq(Sent) /\ Len(SubSeq(executed', 1, k - 1)) = k - 1
            /\ \A m \in 1..k - 1 : SubSeq(executed', 1, k - 1)[m] = executed'[m]
        BY <1>5, <3>1, Prefix
      <3>3. Filled(SubSeq(executed', 1, k - 1)) = Filled(AfterCancel(p))
        BY <1>2, <1>5, <3>1, <3>2, SameFills
      <3> QED
        BY <1>1, <1>2, <1>3, <1>4, <2>2, <3>1, <3>3 DEF SequentialTypeOK, SequentialAssumption
    <2>3. \A n \in 1..Len(executed) + 1 : n \in 1..Len(executed) \/ n = Len(executed) + 1
      BY <1>2
    <2>4. Len(executed) + 1 - 1 = Len(executed)
      BY <1>2
    <2> QED
      BY <1>1, <1>5, <2>1, <2>2, <2>3, <2>4 DEF RungsTakeTheRest
  <1>12. BudgetKnows'
    BY <1>0, <1>1, <1>3, <1>4, <1>5, <1>6 DEF BudgetKnows, SequentialTypeOK
  <1>13. MatchesInTime'
    <2>1. executed' # <<>>
      BY <1>2, <1>5
    <2>2. StartIndex(plan)' = StartIndex(p)
      BY <1>0, <1>1 DEF StartIndex, DueTick, LastIndex
    <2>3. StartIndex(p) >= StartIndex(p)
      BY <1>8
    <2> QED
      BY <1>0, <1>4, <1>5, <2>1, <2>2, <2>3 DEF MatchesInTime
  <1>14. OneOpen'
    BY <1>2, <1>5, <1>10 DEF OneOpen, RungsAreOver
  <1> QED
    BY <1>6, <1>9, <1>10, <1>11, <1>12, <1>13, <1>14 DEF SequentialIInv, LadderHolds

\* What a snapshot makes of the order at work: it takes its place on the list, with fills
\* that the budget is charged once the order is over.
LEMMA MatchingKeeps ==
  ASSUME SequentialAssumption, SequentialIInv, MatchLast
  PROVE  SequentialIInv'
  <1> DEFINE o == Last(executed)
  <1>1. /\ SequentialTypeOK /\ RungsTakeTheRest /\ RungsAreOver /\ BudgetKnows /\ MatchesInTime
        /\ executed \in Seq(Sent)
    BY DEF SequentialIInv, LadderHolds, SequentialTypeOK
  <1>2. /\ stage = "match" /\ executed # <<>> /\ IsWorking(o) /\ plan \in PlannedOrder
        /\ at >= StartIndex(plan)
        /\ Filled(executed) = rempli + o.filled
        /\ Profil.quantite # "libre" => rempli + o.quantity <= Quantity
    BY <1>1 DEF MatchLast, BudgetKnows, MatchesInTime
  <1>3. PICK x \in Outcomes(o) :
          /\ executed' = Append(Front(executed), x)
          /\ IF IsTerminal(x) \/ AtEnd
             THEN stage' = "next" /\ rempli' = Charged(x) /\ plan' = NoPlan /\ at' = 0
             ELSE at' = at + 1 /\ UNCHANGED <<stage, rempli, plan>>
    BY DEF MatchLast
  <1>4. /\ entry' = entry /\ family' = family /\ planned' = planned /\ Profil' = Profil
    BY DEF MatchLast, Profil
  <1>5. Len(executed) \in Nat \ {0} /\ \A n \in 1..Len(executed) : SentOK(executed[n])
    BY <1>1, <1>2, EmptySeq, LenProperties, ElementOfSeq DEF SequentialTypeOK, SentOK
  <1>6. SentOK(o) /\ o = executed[Len(executed)]
    BY <1>5 DEF Last
  <1> HIDE DEF o
  <1>7. SentOK(x) /\ x.quantity = o.quantity /\ x.filled >= o.filled /\ x \in Sent
    BY <1>2, <1>6, OutcomeWithin DEF SentOK
  <1>8. /\ executed' \in Seq(Sent)
        /\ Len(executed') = Len(executed)
        /\ Last(executed') = x
        /\ DOMAIN executed' = 1..Len(executed)
        /\ executed'[Len(executed)] = x
        /\ \A n \in 1..Len(executed) - 1 : n \in 1..Len(executed) /\ executed'[n] = executed[n]
    <2> DEFINE t == Append(Front(executed), x)
    <2>1. /\ t \in Seq(Sent) /\ Len(t) = Len(executed) /\ Last(t) = x
          /\ \A n \in 1..Len(executed) : t[n] = IF n = Len(executed) THEN x ELSE executed[n]
      BY <1>1, <1>2, <1>7, LastReplaced
    <2>2. DOMAIN t = 1..Len(t)
      BY <2>1, LenProperties
    <2> HIDE DEF t
    <2>3. Len(executed) \in 1..Len(executed)
      BY <1>5
    <2>4. \A n \in 1..Len(executed) - 1 : n \in 1..Len(executed) /\ n # Len(executed)
      BY <1>5
    <2>5. t[Len(executed)] = x /\ \A n \in 1..Len(executed) - 1 : t[n] = executed[n]
      BY <2>1, <2>3, <2>4
    <2>6. executed' = t
      BY <1>3 DEF t
    <2> QED
      BY <2>1, <2>2, <2>4, <2>5, <2>6
  <1>9. /\ o.filled \in Nat /\ x.filled \in Nat /\ x.quantity \in Nat /\ Quantity \in Nat
        /\ x.filled <= x.quantity /\ rempli \in Nat /\ x.status \in Working \cup Terminal
    BY <1>1, <1>6, <1>7, SentTypes DEF SentOK, SequentialTypeOK
  <1>10. Filled(executed') = rempli + x.filled
    <2>1. Filled(executed') + o.filled = Filled(executed) + x.filled
      <3>1. Filled(Append(Front(executed), x)) + Last(executed).filled
               = Filled(executed) + x.filled
        BY <1>1, <1>2, <1>7, FillsReplaced
      <3> QED
        BY <1>3, <3>1 DEF o
    <2>2. Filled(executed') \in Nat
      BY <1>8, LotsFinite
    <2> QED
      BY <1>2, <1>9, <2>1, <2>2
  <1>11. rempli' \in Nat /\ at' \in 0..LastIndex /\ plan' \in PlannedOrder \cup {NoPlan}
         /\ stage' \in {"next", "match"}
    BY <1>1, <1>2, <1>3, <1>9
       DEF Charged, AtEnd, SequentialTypeOK, LastIndex, SequentialAssumption
  <1>12. SequentialTypeOK'
    <2>1. \A n \in DOMAIN executed' : executed'[n].filled <= executed'[n].quantity
      BY <1>5, <1>7, <1>8 DEF SentOK
    <2> QED
      BY <1>1, <1>4, <1>8, <1>11, <2>1 DEF SequentialTypeOK, LastIndex
  <1>13. RungsAreOver'
    BY <1>1, <1>4, <1>8 DEF RungsAreOver
  <1>14. OneOpen'
    <2>1. ASSUME NEW n \in 1..Len(executed), n # Len(executed) PROVE n \in 1..Len(executed) - 1
      BY <1>5, <2>1
    <2> QED
      BY <1>8, <1>13, <2>1 DEF OneOpen, RungsAreOver
  <1>15. RungsTakeTheRest'
    <2>1. \A n \in 1..Len(executed) : executed'[n].quantity = executed[n].quantity
      BY <1>6, <1>7, <1>8
    <2>2. \A n \in 1..Len(executed) - 1 : executed'[n].filled = executed[n].filled
      BY <1>8
    <2>3. ASSUME NEW n \in 1..Len(executed), Profil.quantite = "reliquat"
          PROVE  executed'[n].quantity + Filled(SubSeq(executed', 1, n - 1)) = Quantity
      <3>1. Len(executed') \in Nat /\ Len(executed) <= Len(executed') /\ executed' \in Seq(Sent)
        <4>1. Len(executed) \in Nat /\ Len(executed) <= Len(executed)
          BY <1>5
        <4> QED
          BY <1>8, <4>1
      <3> QED
        BY <1>1, <1>4, <2>1, <2>2, <2>3, <3>1, RungsKeepTheirPlace
    <2> QED
      BY <1>4, <1>8, <2>3 DEF RungsTakeTheRest
  <1>16. BudgetKnows'
    <2>1. CASE IsTerminal(x) \/ AtEnd
      BY <1>2, <1>3, <1>4, <1>7, <1>9, <1>10, <2>1 DEF BudgetKnows, Charged
    <2>2. CASE ~(IsTerminal(x) \/ AtEnd)
      BY <1>2, <1>3, <1>4, <1>7, <1>8, <1>10, <2>2 DEF BudgetKnows
    <2> QED
      BY <2>1, <2>2
  <1>17. MatchesInTime'
    <2>1. CASE IsTerminal(x) \/ AtEnd
      BY <1>3, <2>1 DEF MatchesInTime
    <2>2. CASE ~(IsTerminal(x) \/ AtEnd)
      <3>1. at' = at + 1 /\ stage' = stage /\ plan' = plan /\ IsWorking(x)
        BY <1>3, <1>9, <2>2
      <3>2. StartIndex(plan)' = StartIndex(plan)
        BY <1>4, <3>1 DEF StartIndex, DueTick, LastIndex
      <3>3. StartIndex(plan) \in 0..LastIndex /\ at \in 0..LastIndex
        BY <1>1, <1>2, StartInTime DEF SequentialTypeOK
      <3>4. at' >= StartIndex(plan)
        BY <1>2, <3>1, <3>3
      <3>5. executed' # <<>>
        BY <1>5, <1>8
      <3> QED
        BY <1>2, <1>8, <3>1, <3>2, <3>4, <3>5 DEF MatchesInTime
    <2> QED
      BY <2>1, <2>2
  <1> QED
    BY <1>12, <1>13, <1>14, <1>15, <1>16, <1>17 DEF SequentialIInv, LadderHolds

\* Every step keeps the invariant.
LEMMA SequentialStep ==
  ASSUME SequentialAssumption, SequentialIInv, [SequentialNext]_sequentialVars
  PROVE  SequentialIInv'
  <1>1. CASE Finish
    <2>1. /\ stage = "next" /\ stage' = "done"
          /\ UNCHANGED <<entry, family, planned, plan, at, executed, rempli>>
      BY <1>1 DEF Finish
    <2>2. Profil' = Profil
      BY <2>1 DEF Profil
    <2> QED
      BY <2>1, <2>2
         DEF SequentialIInv, LadderHolds, SequentialTypeOK, OneOpen, RungsTakeTheRest,
             BudgetKnows, MatchesInTime, RungsAreOver, LastIndex
  <1>2. CASE UNCHANGED sequentialVars
    <2>1. Profil' = Profil
      BY <1>2 DEF sequentialVars, Profil
    <2> QED
      BY <1>2, <2>1
         DEF sequentialVars, SequentialIInv, LadderHolds, SequentialTypeOK, OneOpen,
             RungsTakeTheRest, BudgetKnows, MatchesInTime, RungsAreOver, LastIndex, StartIndex,
             DueTick
  <1> QED
    BY <1>1, <1>2, SendKeeps, RefuseKeeps, MatchingKeeps DEF SequentialNext

\* The sequential executor keeps its books: types, one rung open, every rung asking for
\* exactly what the rungs before it left, and a budget that knows every fill.
THEOREM SequentialInvariance ==
  ASSUME SequentialAssumption
  PROVE  SequentialSpec => []SequentialIInv
  <1>1. SequentialInit => SequentialIInv
    BY SequentialStarts
  <1>2. SequentialIInv /\ [SequentialNext]_sequentialVars => SequentialIInv'
    BY SequentialStep
  <1> QED
    BY <1>1, <1>2, PTL DEF SequentialSpec

\* A ladder of orders, of any length on any snapshots, has one rung open, which asks for
\* exactly what the rungs before it left.
THEOREM LaddersHold ==
  ASSUME SequentialAssumption
  PROVE  SequentialSpec => []LadderHolds
  <1>1. SequentialIInv => LadderHolds
    BY DEF SequentialIInv
  <1> QED
    BY <1>1, SequentialInvariance, PTL

\* No policy without legs is filled past its intent, whatever its plan asks for, unless the
\* engine runs a ladder without a budget, which it does for the family "adaptive".
THEOREM BudgetsBoundFills ==
  ASSUME SequentialAssumption, <<"engine", "adaptive">> \notin Callers
  PROVE  SequentialSpec => []NeverOverfilled
  <1>1. SequentialIInv => NeverOverfilled
    <2> SUFFICES ASSUME SequentialIInv, family # "legs" PROVE Filled(executed) <= Quantity
      BY DEF NeverOverfilled
    <2>1. SequentialTypeOK /\ BudgetKnows /\ MatchesInTime /\ executed \in Seq(Sent)
      BY DEF SequentialIInv, LadderHolds, SequentialTypeOK
    <2>2. Profil.quantite # "libre"
      <3>1. /\ <<entry, family>> \in Callers /\ <<entry, family>> # <<"engine", "adaptive">>
            /\ <<entry, family>> \in {"runner", "engine"} \X {"adaptive", "technique", "legs"}
        BY <2>1 DEF SequentialTypeOK, SequentialAssumption
      <3>2. family = "technique" \/ entry = "runner"
        BY <3>1
      <3> QED
        BY <3>2 DEF Profil, Historique, Adaptatif
    <2>3. CASE stage = "match"
      <3>1. Last(executed) \in Sent /\ Last(executed).filled <= Last(executed).quantity
        <4>1. Len(executed) \in Nat \ {0} /\ DOMAIN executed = 1..Len(executed)
          BY <2>1, <2>3, EmptySeq, LenProperties DEF MatchesInTime
        <4> QED
          BY <2>1, <4>1, ElementOfSeq DEF Last, SequentialTypeOK
      <3>2. rempli \in Nat /\ Last(executed).filled \in Nat /\ Last(executed).quantity \in Nat
            /\ Quantity \in Nat
        BY <2>1, <3>1, SentTypes DEF SequentialTypeOK
      <3> QED
        BY <2>1, <2>2, <2>3, <3>1, <3>2 DEF BudgetKnows
    <2>4. CASE stage # "match"
      BY <2>1, <2>2, <2>4 DEF BudgetKnows
    <2> QED
      BY <2>3, <2>4
  <1> QED
    BY <1>1, SequentialInvariance, PTL

\* A deferred slice takes no fill on a snapshot earlier than its time, the last excepted.
THEOREM NothingIsEarly ==
  ASSUME SequentialAssumption
  PROVE  SequentialSpec => NothingEarly
  <1> DEFINE A == Filled(executed') > Filled(executed) /\ Profil.plafond /\ plan.offset > 0
                    => 2 * at >= DueTick(plan) \/ at = LastIndex
  <1>1. SequentialIInv /\ [SequentialNext]_sequentialVars => A
    <2> SUFFICES ASSUME SequentialIInv, [SequentialNext]_sequentialVars,
                        Filled(executed') > Filled(executed), Profil.plafond, plan.offset > 0
                 PROVE  2 * at >= DueTick(plan) \/ at = LastIndex
      OBVIOUS
    <2>1. SequentialTypeOK /\ executed \in Seq(Sent) /\ Filled(executed) \in Nat
      BY LotsFinite DEF SequentialIInv, LadderHolds, SequentialTypeOK
    <2>2. ASSUME NEW p \in PlannedOrder, Send(p) PROVE FALSE
      BY <2>1, <2>2, SendKeeps
    <2>3. ASSUME NEW p \in PlannedOrder, Refuse(p) PROVE FALSE
      <3>1. executed' = AfterCancel(p)
        BY <2>3 DEF Refuse
      <3> QED
        BY <2>1, <3>1, SettledList
    <2>4. CASE Finish \/ UNCHANGED sequentialVars
      BY <2>1, <2>4 DEF Finish, sequentialVars
    <2>5. CASE MatchLast
      <3>1. plan \in PlannedOrder /\ at >= StartIndex(plan)
        BY <2>5 DEF MatchLast, SequentialIInv, MatchesInTime
      <3>2. /\ StartIndex(plan) \in 0..LastIndex
            /\ 2 * StartIndex(plan) >= DueTick(plan) \/ StartIndex(plan) = LastIndex
        BY <3>1, StartInTime
      <3>3. at \in 0..LastIndex /\ DueTick(plan) \in Nat
        <4>1. plan.offset \in Offsets
          BY <3>1 DEF PlannedOrder
        <4>2. Offsets \subseteq Nat /\ Latency \in Nat
          BY DEF SequentialAssumption
        <4>3. at \in 0..LastIndex
          BY <2>1 DEF SequentialTypeOK
        <4>4. plan.offset \in Nat
          BY <4>1, <4>2
        <4>5. DueTick(plan) \in Nat
          BY <4>2, <4>4 DEF DueTick
        <4> QED
          BY <4>3, <4>5
      <3>4. LastIndex \in Int
        <4>1. Snapshots \in Nat
          BY DEF SequentialAssumption
        <4> QED
          BY <4>1 DEF LastIndex
      <3> QED
        BY <3>1, <3>2, <3>3, <3>4
    <2> QED
      BY <2>2, <2>3, <2>4, <2>5 DEF SequentialNext
  <1> QED
    BY <1>1, SequentialInvariance, PTL DEF SequentialSpec, NothingEarly

=============================================================================
