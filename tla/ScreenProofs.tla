---------------------------- MODULE ScreenProofs ----------------------------
(***************************************************************************)
(* Theorems about the three screens whose invariants relate the tabs to    *)
(* what the API keeps: the invoice desk (InvoiceDesk), the point of sale   *)
(* (PosTab) and the assistant panel (AssistantChat), in this order.  Each  *)
(* is proved for every number of tabs, forms, drafts, conversations and    *)
(* calls.                                                                  *)
(*                                                                         *)
(* In all three a command goes out in one step, is executed in another and *)
(* is heard of in a third, and in between the user and the other tabs go   *)
(* on.  The invariants say what a call under way may still do, and what    *)
(* its screen may still believe.                                           *)
(***************************************************************************)
EXTENDS InvoiceDesk, PosTab, AssistantChat, SequenceTheorems, SumLemmas, TLAPS

-----------------------------------------------------------------------------
(* THE INVOICE DESK                                                        *)

(* The money in a ledger *)

MovementType == [kind : {"PAYMENT", "REFUND"}, key : 0..MaxModals, amount : 1..InvoiceTotal]

AmountsIn(l, kind) == [i \in 1..Len(l) |-> IF l[i].kind = kind THEN l[i].amount ELSE 0]
Total(l, kind) == Count(1..Len(l), AmountsIn(l, kind))

LEMMA ConstantBounds == InvoiceTotal \in Nat /\ MaxModals \in Nat /\ Desks \cap Scripts = {}
BY DeskAssumption

LEMMA AmountsAreNatural ==
    ASSUME NEW l \in Seq(MovementType), NEW kind
    PROVE  /\ IsFiniteSet(1..Len(l))
           /\ \A i \in 1..Len(l) : AmountsIn(l, kind)[i] \in Nat
           /\ Total(l, kind) \in Nat
<1>1. IsFiniteSet(1..Len(l))
  BY FS_Interval
<1>2. \A i \in 1..Len(l) : AmountsIn(l, kind)[i] \in Nat
  <2> TAKE i \in 1..Len(l)
  <2>1. l[i] \in MovementType
    BY ElementOfSeq
  <2> QED BY <2>1, ConstantBounds DEF AmountsIn, MovementType
<1> QED BY <1>1, <1>2, CountIsNatural DEF Total

\* The sum over a ledger in the order the code meets its rows (summarizePayments).
LEMMA SumIsTotal ==
    ASSUME ledger \in Seq(MovementType), NEW kind
    PROVE  Sum(kind) = Total(ledger, kind)
<1> DEFINE S == DOMAIN ledger
           f == AmountsIn(ledger, kind)
           it == CHOOSE i : i = [s \in SUBSET S |->
                    IF s = {} THEN 0
                    ELSE IF ledger[CHOOSE x \in s : TRUE].kind = kind
                         THEN ledger[CHOOSE x \in s : TRUE].amount
                                + i[s \ {CHOOSE x \in s : TRUE}]
                         ELSE i[s \ {CHOOSE x \in s : TRUE}]]
           sol == [s \in SUBSET S |-> Count(s, f)]
           Solves(g) == g = [s \in SUBSET S |->
                    IF s = {} THEN 0
                    ELSE IF ledger[CHOOSE x \in s : TRUE].kind = kind
                         THEN ledger[CHOOSE x \in s : TRUE].amount
                                + g[s \ {CHOOSE x \in s : TRUE}]
                         ELSE g[s \ {CHOOSE x \in s : TRUE}]]
<1>1. Sum(kind) = it[S]
  BY DEF Sum, FoldSeq, FoldFunction, FoldFunctionOnSet, MapThenFoldSet
<1>2. /\ S = 1..Len(ledger) /\ IsFiniteSet(S) /\ Count(S, f) = Total(ledger, kind)
      /\ \A i \in S : f[i] \in Nat
  <2>1. S = 1..Len(ledger)
    OBVIOUS
  <2> QED BY <2>1, AmountsAreNatural DEF Total
<1>3. \A i \in S : f[i] = IF ledger[i].kind = kind THEN ledger[i].amount ELSE 0
  BY <1>2 DEF AmountsIn
<1> HIDE DEF S, f
<1>4. Solves(sol)
  <2>1. ASSUME NEW s \in SUBSET S, s # {}
        PROVE  LET e == CHOOSE x \in s : TRUE IN
               sol[s] = IF ledger[e].kind = kind THEN ledger[e].amount + sol[s \ {e}]
                                                ELSE sol[s \ {e}]
    <3> DEFINE e == CHOOSE x \in s : TRUE
    <3>1. e \in s /\ e \in S
      BY <2>1
    <3>2. IsFiniteSet(s) /\ \A x \in s : f[x] \in Nat
      BY <1>2, FS_Subset
    <3>3. IsFiniteSet(s \ {e}) /\ \A x \in s \ {e} : f[x] \in Nat
      BY <3>2, FS_Subset
    <3> HIDE DEF e
    <3>4. Count(s, f) = f[e] + Count(s \ {e}, f)
      BY <3>1, <3>2, CountOfOneMore
    <3>5. Count(s \ {e}, f) \in Nat
      BY <3>3, CountIsNatural
    <3>6. f[e] = IF ledger[e].kind = kind THEN ledger[e].amount ELSE 0
      BY <1>3, <3>1
    <3>7. sol[s] = Count(s, f) /\ sol[s \ {e}] = Count(s \ {e}, f)
      OBVIOUS
    <3>8. sol[s] = IF ledger[e].kind = kind THEN ledger[e].amount + sol[s \ {e}]
                                           ELSE sol[s \ {e}]
      BY <3>4, <3>5, <3>6, <3>7
    <3> QED BY <3>8 DEF e
  <2>2. sol[{}] = 0
    BY CountOfNothing
  <2>3. \A s \in SUBSET S :
           sol[s] = IF s = {} THEN 0
                    ELSE IF ledger[CHOOSE x \in s : TRUE].kind = kind
                         THEN ledger[CHOOSE x \in s : TRUE].amount
                                + sol[s \ {CHOOSE x \in s : TRUE}]
                         ELSE sol[s \ {CHOOSE x \in s : TRUE}]
    BY <2>1, <2>2
  <2>4. \A g : g = [s \in SUBSET S |-> g[s]]
            /\ (\A s \in SUBSET S :
                 g[s] = IF s = {} THEN 0
                    ELSE IF ledger[CHOOSE x \in s : TRUE].kind = kind
                         THEN ledger[CHOOSE x \in s : TRUE].amount
                                + g[s \ {CHOOSE x \in s : TRUE}]
                         ELSE g[s \ {CHOOSE x \in s : TRUE}])
            => Solves(g)
    OBVIOUS
  <2>5. sol = [s \in SUBSET S |-> sol[s]]
    OBVIOUS
  <2> HIDE DEF sol, Solves
  <2> QED BY <2>3, <2>4, <2>5
<1>5. Solves(it)
  <2>1. it = CHOOSE g : Solves(g)
    OBVIOUS
  <2> HIDE DEF sol, Solves, it
  <2> QED BY <1>4, <2>1
<1>6. it[{}] = 0
  BY <1>5
<1>7. \A s \in SUBSET S : s # {} =>
         \E x \in s : it[s \ {x}] \in Nat => it[s] = f[x] + it[s \ {x}]
  <2> TAKE s \in SUBSET S
  <2> HAVE s # {}
  <2> DEFINE e == CHOOSE x \in s : TRUE
  <2>1. e \in s
    OBVIOUS
  <2>2. it[s] = IF ledger[e].kind = kind THEN ledger[e].amount + it[s \ {e}] ELSE it[s \ {e}]
    BY <1>5
  <2> HIDE DEF e, it, Solves
  <2>3. f[e] = IF ledger[e].kind = kind THEN ledger[e].amount ELSE 0
    BY <1>3, <2>1
  <2>4. it[s \ {e}] \in Nat => it[s] = f[e] + it[s \ {e}]
    BY <2>2, <2>3
  <2> QED BY <2>1, <2>4
<1> HIDE DEF it
<1> QED BY <1>1, <1>2, <1>6, <1>7, AddingCounts

-----------------------------------------------------------------------------
(* What a ledger and a status may be, and what a command that succeeded left in them *)

\* The keys are those of different movements; no more is given back than was collected, nor
\* collected than the invoice is worth; what is given back goes with the cancellation.
BooksHold(l, st, key) ==
    /\ \A i, j \in 1..Len(l) : l[i].key = l[j].key => i = j
    /\ Total(l, "PAYMENT") <= InvoiceTotal
    /\ Total(l, "REFUND") <= Total(l, "PAYMENT")
    /\ st = "COMPLETED" => \A i \in 1..Len(l) : l[i].kind # "REFUND"
    /\ st = "CANCELLED" => \A i \in 1..Len(l) :
          l[i].kind = "REFUND" => l[i].key = key /\ Total(l, "REFUND") = l[i].amount

\* What the caller of a command that succeeded relies on.
Stands(cmd, l, st, key) ==
    /\ cmd.kind = "pay" => \E i \in 1..Len(l) :
          l[i].key = cmd.key /\ l[i].kind = "PAYMENT" /\ l[i].amount = cmd.amount
    /\ cmd.kind = "cancel" =>
          st = "CANCELLED" /\ key = cmd.key /\ Total(l, "REFUND") = cmd.amount

LEMMA TotalOfAppended ==
    ASSUME NEW l \in Seq(MovementType), NEW m \in MovementType, NEW kind
    PROVE  Total(Append(l, m), kind)
             = Total(l, kind) + (IF m.kind = kind THEN m.amount ELSE 0)
<1> DEFINE k == Append(l, m)  n == Len(l)
           was == AmountsIn(l, kind)  now == AmountsIn(k, kind)
<1>1. n \in Nat /\ Len(k) = n + 1 /\ k[n + 1] = m /\ \A i \in 1..n : k[i] = l[i]
  OBVIOUS
<1>2. k \in Seq(MovementType)
  OBVIOUS
<1>3. now[n + 1] = IF m.kind = kind THEN m.amount ELSE 0
  BY <1>1 DEF AmountsIn
<1>4. now[n + 1] \in Nat
  <2>1. \A i \in 1..Len(k) : now[i] \in Nat
    BY <1>2, AmountsAreNatural
  <2> HIDE DEF k, n, now
  <2>2. n + 1 \in 1..Len(k)
    BY <1>1
  <2> QED BY <2>1, <2>2
<1>5. \A i \in 1..n : was[i] \in Nat
  BY AmountsAreNatural
<1>6. \A i \in 1..n : now[i] = was[i]
  BY <1>1 DEF AmountsIn
<1> HIDE DEF k, n, was, now
<1>7. Count(1..(n + 1), now) = Count(1..n, was) + now[n + 1]
  BY <1>1, <1>4, <1>5, <1>6, CountOfNext
<1>8. Total(k, kind) = Total(l, kind) + now[n + 1]
  BY <1>1, <1>7 DEF Total, was, now, n
<1> QED BY <1>3, <1>8 DEF k

LEMMA NothingOfAKind ==
    ASSUME NEW l, NEW kind, \A i \in 1..Len(l) : l[i].kind # kind
    PROVE  Total(l, kind) = 0
<1>1. \A i \in 1..Len(l) : AmountsIn(l, kind)[i] = 0
  BY DEF AmountsIn
<1> QED BY <1>1, CountOfZeros DEF Total

\* A payment of no more than is owed, under a key nobody used (addPayment).
LEMMA BooksOfAPayment ==
    ASSUME NEW l \in Seq(MovementType), NEW key, BooksHold(l, "COMPLETED", key),
           NEW m \in MovementType, m.kind = "PAYMENT",
           \A i \in 1..Len(l) : l[i].key # m.key,
           m.amount <= InvoiceTotal - Total(l, "PAYMENT")
    PROVE  BooksHold(Append(l, m), "COMPLETED", key)
<1> DEFINE k == Append(l, m)
<1>1. Len(l) \in Nat /\ Len(k) = Len(l) + 1 /\ k[Len(l) + 1] = m
      /\ \A i \in 1..Len(l) : k[i] = l[i]
  OBVIOUS
<1>2. Total(k, "PAYMENT") = Total(l, "PAYMENT") + m.amount
      /\ Total(k, "REFUND") = Total(l, "REFUND") + 0
  BY TotalOfAppended
<1>3. Total(l, "PAYMENT") \in Nat /\ Total(l, "REFUND") \in Nat /\ m.amount \in Nat
      /\ InvoiceTotal \in Nat
  <2>1. m.amount \in Nat
    BY ConstantBounds DEF MovementType
  <2> QED BY <2>1, AmountsAreNatural, ConstantBounds
<1> HIDE DEF k
<1>4. \A i, j \in 1..Len(k) : k[i].key = k[j].key => i = j
  BY <1>1 DEF BooksHold
<1>5. \A i \in 1..Len(k) : k[i].kind # "REFUND"
  BY <1>1 DEF BooksHold
<1>6. /\ Total(k, "PAYMENT") <= InvoiceTotal /\ Total(k, "REFUND") <= Total(k, "PAYMENT")
  BY <1>2, <1>3 DEF BooksHold
<1>7. BooksHold(k, "COMPLETED", key)
  BY <1>4, <1>5, <1>6 DEF BooksHold
<1> QED BY <1>7 DEF k

\* A cancellation that returns nothing, or some of what was collected (cancel).
LEMMA BooksOfACancellation ==
    ASSUME NEW l \in Seq(MovementType), NEW old, BooksHold(l, "COMPLETED", old), NEW key
    PROVE  /\ Total(l, "REFUND") = 0
           /\ BooksHold(l, "CANCELLED", key)
<1>1. \A i \in 1..Len(l) : l[i].kind # "REFUND"
  BY DEF BooksHold
<1> QED BY <1>1, NothingOfAKind DEF BooksHold

LEMMA BooksOfARefund ==
    ASSUME NEW l \in Seq(MovementType), NEW old, BooksHold(l, "COMPLETED", old),
           NEW m \in MovementType, m.kind = "REFUND",
           \A i \in 1..Len(l) : l[i].key # m.key,
           m.amount <= Total(l, "PAYMENT")
    PROVE  /\ Total(Append(l, m), "REFUND") = m.amount
           /\ BooksHold(Append(l, m), "CANCELLED", m.key)
<1> DEFINE k == Append(l, m)
<1>1. Len(l) \in Nat /\ Len(k) = Len(l) + 1 /\ k[Len(l) + 1] = m
      /\ \A i \in 1..Len(l) : k[i] = l[i]
  OBVIOUS
<1>2. Total(k, "PAYMENT") = Total(l, "PAYMENT") + 0
      /\ Total(k, "REFUND") = Total(l, "REFUND") + m.amount
  BY TotalOfAppended
<1>3. Total(l, "PAYMENT") \in Nat /\ Total(l, "REFUND") = 0 /\ m.amount \in Nat
  <2>1. m.amount \in Nat
    BY ConstantBounds DEF MovementType
  <2> QED BY <2>1, AmountsAreNatural, BooksOfACancellation
<1>4. Total(k, "PAYMENT") = Total(l, "PAYMENT") /\ Total(k, "REFUND") = m.amount
  BY <1>2, <1>3
<1> HIDE DEF k
<1>5. \A i, j \in 1..Len(k) : k[i].key = k[j].key => i = j
  BY <1>1 DEF BooksHold
<1>6. \A i \in 1..Len(k) : k[i].kind = "REFUND" => i = Len(l) + 1
  BY <1>1 DEF BooksHold
<1>7. BooksHold(k, "CANCELLED", m.key)
  BY <1>1, <1>4, <1>5, <1>6 DEF BooksHold
<1> QED BY <1>4, <1>7 DEF k

-----------------------------------------------------------------------------
(* What holds at every step of the desks and the server *)

DetailType == [status : {"COMPLETED", "CANCELLED"}, balance : Amounts, net : Amounts,
               ledger : Seq(MovementType)]
PageType ==
    [state : {"error"}] \cup [state : {"loading"}, load : Nat]
        \cup [state : {"ready"}, detail : DetailType]
ModalType ==
    {NoModal} \cup [kind : {"pay", "cancel"}, key : 1..MaxModals, amount : Amounts, error : BOOLEAN]
CommandType ==
    [id : Nat, caller : Desks \cup Scripts \cup {"nobody"},
     state : {"sent", "ok", "refused", "broken"}, cmd : Commands]
PageLoadType ==
    [id : Nat, desk : Desks, state : {"asked"}]
        \cup [id : Nat, desk : Desks, state : {"answered"}, detail : DetailType]

DeskShape ==
    /\ status \in {"COMPLETED", "CANCELLED"} /\ cancelKey \in 0..MaxModals
    /\ ledger \in Seq(MovementType)
    /\ clock \in 0..MaxModals
    /\ page \in [Desks -> PageType] /\ modal \in [Desks -> ModalType]
    /\ mutating \in [Desks -> BOOLEAN]
    /\ told \subseteq [cmd : Commands, by : Desks \cup Scripts]
    /\ commands \subseteq CommandType /\ sentCommands \in Nat
    /\ pageLoads \subseteq PageLoadType /\ loaded \in Nat /\ lostCommands \in Nat

\* A command that succeeded stands, also before its caller knows.
Words ==
    /\ \A t \in told : Stands(t.cmd, ledger, status, cancelKey)
    /\ \A c \in commands : c.state = "ok" => Stands(c.cmd, ledger, status, cancelKey)

\* A list of movements has those of the payments a desk was told of.
Tells(d, l) ==
    \A t \in told : t.by = d /\ t.cmd.kind = "pay" => \E i \in 1..Len(l) : l[i].key = t.cmd.key

\* So has the answer a desk will show, and the one it shows.
LoadsTell ==
    \A l \in pageLoads :
        /\ l.id <= loaded
        /\ l.state = "answered" /\ IsCurrent(l) => Tells(l.desk, l.detail.ledger)

PagesTell == \A d \in Desks : PageReady(d) => Tells(d, page[d].detail.ledger)

DeskInv ==
    /\ DeskShape
    /\ BooksHold(ledger, status, cancelKey)
    /\ Words
    /\ LoadsTell
    /\ PagesTell
    /\ BusyFormHasACommand

-----------------------------------------------------------------------------
(* The server *)

\* The rows stored under a key are those with that key.
LEMMA StoredRows ==
    ASSUME DeskShape, NEW key
    PROVE  /\ Stored(key) = {ledger[i] : i \in {j \in 1..Len(ledger) : ledger[j].key = key}}
           /\ Stored(key) = {} => \A i \in 1..Len(ledger) : ledger[i].key # key
<1>1. Stored(key) = {ledger[i] : i \in {j \in 1..Len(ledger) : ledger[j].key = key}}
  BY DEF Stored, ToSet, DeskShape
<1>2. ASSUME NEW i \in 1..Len(ledger), ledger[i].key = key
      PROVE  ledger[i] \in Stored(key)
  BY <1>1, <1>2
<1> QED BY <1>1, <1>2

LEMMA MoneyOfTheInvoice ==
    ASSUME DeskInv
    PROVE  /\ Paid = Total(ledger, "PAYMENT") /\ Refunded = Total(ledger, "REFUND")
           /\ Paid \in Nat /\ Refunded \in Nat /\ Refunded <= Paid /\ Paid <= InvoiceTotal
           /\ status = "COMPLETED" => Balance = InvoiceTotal - Paid
           /\ Balance \in Amounts /\ Paid - Refunded \in Amounts
<1>1. ledger \in Seq(MovementType)
  BY DEF DeskInv, DeskShape
<1>2. Paid = Total(ledger, "PAYMENT") /\ Refunded = Total(ledger, "REFUND")
  BY <1>1, SumIsTotal DEF Paid, Refunded
<1>3. Paid \in Nat /\ Refunded \in Nat /\ InvoiceTotal \in Nat
  BY <1>1, <1>2, AmountsAreNatural, ConstantBounds
<1>4. Refunded <= Paid /\ Paid <= InvoiceTotal
  BY <1>2 DEF DeskInv, BooksHold
<1>5. Balance = IF status = "CANCELLED" THEN 0 ELSE InvoiceTotal - Paid
  BY <1>3, <1>4 DEF Balance
<1> QED BY <1>2, <1>3, <1>4, <1>5 DEF Amounts

\* What a step of the server does to the money: what stood stands.
MoneyMoves ==
    /\ status' \in {"COMPLETED", "CANCELLED"} /\ cancelKey' \in 0..MaxModals
    /\ ledger' \in Seq(MovementType)
    /\ BooksHold(ledger', status', cancelKey')
    /\ \A cmd \in Commands : Stands(cmd, ledger, status, cancelKey)
                               => Stands(cmd, ledger', status', cancelKey')

LEMMA PaymentMoves ==
    ASSUME DeskInv, NEW c \in commands, c.cmd.kind = "pay", AddPayment(c)
    PROVE  MoneyMoves /\ (AcceptsPayment(c) => Stands(c.cmd, ledger', status', cancelKey'))
<1>1. c \in CommandType /\ DeskShape /\ ledger \in Seq(MovementType)
  BY DEF DeskInv, DeskShape
<1>2. c.cmd.key \in 0..MaxModals /\ c.cmd.amount \in Amounts
  BY <1>1 DEF CommandType, Commands
<1>3. CASE AcceptsPayment(c) /\ ~ReplayPayment(c)
  <2> DEFINE m == Movement("PAYMENT", c)
  <2>1. /\ ledger' = Append(ledger, m) /\ status' = status /\ cancelKey' = cancelKey
        /\ status = "COMPLETED" /\ Stored(c.cmd.key) = {} /\ c.cmd.amount \in 1..Balance
    BY <1>3 DEF AddPayment, AcceptsPayment, Recognised
  <2>2. m \in MovementType /\ m.kind = "PAYMENT" /\ m.key = c.cmd.key /\ m.amount = c.cmd.amount
    BY <1>2, <2>1, ConstantBounds DEF Movement, MovementType, Amounts
  <2>3. \A i \in 1..Len(ledger) : ledger[i].key # m.key
    BY <1>1, <2>1, <2>2, StoredRows
  <2>4. m.amount <= InvoiceTotal - Total(ledger, "PAYMENT")
    BY <2>1, <2>2, MoneyOfTheInvoice, ConstantBounds
  <2> HIDE DEF m
  <2>5. BooksHold(ledger', status', cancelKey')
    BY <1>1, <2>1, <2>2, <2>3, <2>4, BooksOfAPayment DEF DeskInv
  <2>6. /\ Len(ledger') = Len(ledger) + 1 /\ ledger'[Len(ledger) + 1] = m /\ Len(ledger) \in Nat
        /\ \A i \in 1..Len(ledger) : ledger'[i] = ledger[i]
        /\ ledger' \in Seq(MovementType)
    BY <1>1, <2>1, <2>2
  <2>7. Stands(c.cmd, ledger', status', cancelKey')
    BY <2>2, <2>6 DEF Stands
  <2>8. ASSUME NEW cmd \in Commands, Stands(cmd, ledger, status, cancelKey)
        PROVE  Stands(cmd, ledger', status', cancelKey')
    BY <2>1, <2>6, <2>8 DEF Stands
  <2> QED BY <1>1, <2>1, <2>5, <2>6, <2>7, <2>8 DEF MoneyMoves, DeskShape
<1>4. CASE ~(AcceptsPayment(c) /\ ~ReplayPayment(c))
  <2>1. ledger' = ledger /\ status' = status /\ cancelKey' = cancelKey
    BY <1>4 DEF AddPayment, RefuseCommand, server
  <2>2. AcceptsPayment(c) => Stands(c.cmd, ledger, status, cancelKey)
    BY <1>1, <1>4, StoredRows DEF ReplayPayment, Stands
  <2> QED BY <1>1, <2>1, <2>2 DEF MoneyMoves, DeskShape, DeskInv
<1> QED BY <1>3, <1>4

LEMMA CancellationMoves ==
    ASSUME DeskInv, NEW c \in commands, c.cmd.kind = "cancel", Cancel(c)
    PROVE  MoneyMoves /\ (AcceptsCancel(c) => Stands(c.cmd, ledger', status', cancelKey'))
<1>1. c \in CommandType /\ DeskShape /\ ledger \in Seq(MovementType)
  BY DEF DeskInv, DeskShape
<1>2. c.cmd.key \in 0..MaxModals /\ c.cmd.amount \in Amounts /\ c.cmd.amount \in Nat
  BY <1>1 DEF CommandType, Commands, Amounts
<1>3. CASE AcceptsCancel(c) /\ ~SameCancellation(c)
  <2>1. /\ status' = "CANCELLED" /\ cancelKey' = c.cmd.key
        /\ ledger' = IF c.cmd.amount > 0 THEN Append(ledger, Movement("REFUND", c)) ELSE ledger
        /\ status = "COMPLETED" /\ c.cmd.amount <= Paid - Refunded
        /\ c.cmd.amount = 0 \/ Stored(c.cmd.key) = {}
    BY <1>3 DEF Cancel, AcceptsCancel, Cancellable, KeyIsFree
  <2>2. BooksHold(ledger, "COMPLETED", cancelKey)
    BY <2>1 DEF DeskInv
  <2>3. CASE c.cmd.amount = 0
    <3>1. ledger' = ledger
      BY <2>1, <2>3
    <3>2. BooksHold(ledger, "CANCELLED", c.cmd.key) /\ Total(ledger, "REFUND") = 0
      BY <1>1, <2>2, BooksOfACancellation
    <3>3. Stands(c.cmd, ledger', status', cancelKey')
      BY <2>1, <2>3, <3>1, <3>2 DEF Stands
    <3>4. ASSUME NEW cmd \in Commands, Stands(cmd, ledger, status, cancelKey)
          PROVE  Stands(cmd, ledger', status', cancelKey')
      BY <2>1, <3>1, <3>4 DEF Stands
    <3> QED BY <1>1, <1>2, <2>1, <3>1, <3>2, <3>3, <3>4 DEF MoneyMoves
  <2>4. CASE c.cmd.amount # 0
    <3> DEFINE m == Movement("REFUND", c)
    <3>1. ledger' = Append(ledger, m) /\ Stored(c.cmd.key) = {}
      BY <1>2, <2>1, <2>4
    <3>2. m \in MovementType /\ m.kind = "REFUND" /\ m.key = c.cmd.key /\ m.amount = c.cmd.amount
      BY <1>2, <2>4, ConstantBounds DEF Movement, MovementType, Amounts
    <3>3. \A i \in 1..Len(ledger) : ledger[i].key # m.key
      BY <1>1, <3>1, <3>2, StoredRows
    <3>4. m.amount <= Total(ledger, "PAYMENT")
      <4>1. Paid \in Nat /\ Refunded \in Nat /\ Paid = Total(ledger, "PAYMENT")
        BY MoneyOfTheInvoice
      <4> QED BY <1>2, <2>1, <3>2, <4>1
    <3> HIDE DEF m
    <3>5. /\ BooksHold(Append(ledger, m), "CANCELLED", m.key)
          /\ Total(Append(ledger, m), "REFUND") = m.amount
      BY <1>1, <2>2, <3>2, <3>3, <3>4, BooksOfARefund
    <3>6. /\ Len(ledger') = Len(ledger) + 1 /\ Len(ledger) \in Nat
          /\ \A i \in 1..Len(ledger) : ledger'[i] = ledger[i]
          /\ ledger' \in Seq(MovementType)
      BY <1>1, <3>1, <3>2
    <3>7. Stands(c.cmd, ledger', status', cancelKey')
      BY <2>1, <3>1, <3>2, <3>5 DEF Stands
    <3>8. ASSUME NEW cmd \in Commands, Stands(cmd, ledger, status, cancelKey)
          PROVE  Stands(cmd, ledger', status', cancelKey')
      BY <2>1, <3>6, <3>8 DEF Stands
    <3>9. BooksHold(ledger', status', cancelKey')
      BY <2>1, <3>1, <3>2, <3>5
    <3> QED BY <1>1, <1>2, <2>1, <3>6, <3>7, <3>8, <3>9 DEF MoneyMoves
  <2> QED BY <2>3, <2>4
<1>4. CASE ~(AcceptsCancel(c) /\ ~SameCancellation(c))
  <2>1. ledger' = ledger /\ status' = status /\ cancelKey' = cancelKey
    BY <1>4 DEF Cancel, RefuseCommand, server
  <2>2. ASSUME SameCancellation(c)
        PROVE  Stands(c.cmd, ledger, status, cancelKey)
    <3>1. status = "CANCELLED" /\ cancelKey = c.cmd.key
      BY <2>2 DEF SameCancellation
    <3>2. CASE Stored(c.cmd.key) = {}
      <4>1. c.cmd.amount = 0
        BY <2>2, <3>2 DEF SameCancellation
      <4>2. \A i \in 1..Len(ledger) : ledger[i].kind # "REFUND"
        BY <1>1, <3>1, <3>2, StoredRows DEF DeskInv, BooksHold
      <4> QED BY <3>1, <4>1, <4>2, NothingOfAKind DEF Stands
    <3>3. CASE Stored(c.cmd.key) # {}
      <4>1. PICK i \in 1..Len(ledger) :
              ledger[i].kind = "REFUND" /\ ledger[i].amount = c.cmd.amount
        BY <1>1, <2>2, <3>3, StoredRows DEF SameCancellation
      <4>2. Total(ledger, "REFUND") = c.cmd.amount
        BY <3>1, <4>1 DEF DeskInv, BooksHold
      <4> QED BY <3>1, <4>2 DEF Stands
    <3> QED BY <3>2, <3>3
  <2> QED BY <1>1, <1>4, <2>1, <2>2 DEF MoneyMoves, DeskShape, DeskInv
<1> QED BY <1>3, <1>4

-----------------------------------------------------------------------------
(* The steps *)

\* What a desk was told stays told, and the ledger has it.
LEMMA LedgerTells ==
    ASSUME DeskInv, NEW d \in Desks
    PROVE  Tells(d, ledger)
BY DEF DeskInv, Words, Tells, Stands

LEMMA SnapshotType == ASSUME DeskInv PROVE Snapshot \in DetailType
<1>1. /\ status \in {"COMPLETED", "CANCELLED"} /\ ledger \in Seq(MovementType)
      /\ Balance \in Amounts /\ Paid - Refunded \in Amounts
  BY MoneyOfTheInvoice DEF DeskInv, DeskShape
<1> QED BY <1>1 DEF Snapshot, DetailType

\* A step of the server, or the loss of a request: a command in another state.
LEMMA ServerStep ==
    ASSUME DeskInv, NEW c \in commands, ServerHandles(c)
    PROVE  DeskInv'
<1>1. /\ DeskShape /\ c \in CommandType /\ c.cmd \in Commands
      /\ c.cmd.kind \in {"pay", "cancel", "regenerate"}
  BY DEF DeskInv, DeskShape, CommandType, Commands
<1>2. /\ MoneyMoves
      /\ Accepts(c) => Stands(c.cmd, ledger', status', cancelKey')
  <2>1. CASE c.cmd.kind = "pay"
    BY <2>1, PaymentMoves DEF ServerHandles, Accepts
  <2>2. CASE c.cmd.kind = "cancel"
    BY <2>2, CancellationMoves DEF ServerHandles, Accepts
  <2>3. CASE c.cmd.kind = "regenerate"
    <3>1. ledger' = ledger /\ status' = status /\ cancelKey' = cancelKey
      BY <2>3 DEF ServerHandles, RefuseCommand, server
    <3> QED BY <1>1, <2>3, <3>1 DEF MoneyMoves, DeskInv, DeskShape, Stands
  <2> QED BY <1>1, <2>1, <2>2, <2>3
<1>3. PICK s \in {"ok", "refused"} :
        /\ commands' = (commands \ {c}) \cup {[c EXCEPT !.state = s]}
        /\ s = "ok" => Accepts(c)
  BY DEF ServerHandles
<1>4. UNCHANGED <<clock, page, modal, mutating, pageLoads, loaded, told, sentCommands, lostCommands>>
  BY DEF ServerHandles, deskTab
<1>5. [c EXCEPT !.state = s] \in CommandType
  BY <1>1 DEF CommandType
<1>6. DeskShape'
  BY <1>1, <1>2, <1>3, <1>4, <1>5 DEF DeskShape, MoneyMoves
<1>7. Words'
  <2>1. ASSUME NEW x \in commands', x.state = "ok"
        PROVE  Stands(x.cmd, ledger', status', cancelKey')
    <3>1. CASE x \in commands
      BY <1>1, <1>2, <2>1, <3>1 DEF DeskInv, DeskShape, Words, MoneyMoves, CommandType
    <3>2. CASE x = [c EXCEPT !.state = s]
      BY <1>1, <1>2, <1>3, <2>1, <3>2 DEF CommandType
    <3> QED BY <1>3, <3>1, <3>2
  <2>2. ASSUME NEW t \in told'
        PROVE  Stands(t.cmd, ledger', status', cancelKey')
    BY <1>1, <1>2, <1>4, <2>2 DEF DeskInv, DeskShape, Words, MoneyMoves
  <2> QED BY <2>1, <2>2 DEF Words
<1>8. LoadsTell' /\ PagesTell'
  BY <1>4 DEF DeskInv, LoadsTell, PagesTell, Tells, IsCurrent, PageReady
<1>9. BusyFormHasACommand'
  <2> SUFFICES ASSUME NEW d \in Desks, mutating'[d]
               PROVE  \E x \in commands' : x.caller = d
    BY DEF BusyFormHasACommand
  <2>1. PICK x \in commands : x.caller = d
    BY <1>4 DEF DeskInv, BusyFormHasACommand
  <2>2. [c EXCEPT !.state = s].caller = c.caller
    BY <1>1 DEF CommandType
  <2> QED BY <1>3, <2>1, <2>2
<1> QED BY <1>2, <1>6, <1>7, <1>8, <1>9 DEF DeskInv, MoneyMoves

LEMMA LossStep ==
    ASSUME DeskInv, NEW c \in commands, LoseCommand(c)
    PROVE  DeskInv'
<1>1. /\ DeskShape /\ c \in CommandType
  BY DEF DeskInv, DeskShape
<1>2. /\ commands' = (commands \ {c}) \cup {[c EXCEPT !.state = "broken"]}
      /\ lostCommands' = lostCommands + 1
      /\ UNCHANGED <<status, ledger, cancelKey, clock, page, modal, mutating, pageLoads, loaded,
                     told, sentCommands>>
  BY DEF LoseCommand, server, deskTab
<1>3. [c EXCEPT !.state = "broken"] \in CommandType
  BY <1>1 DEF CommandType
<1>4. DeskShape'
  BY <1>1, <1>2, <1>3 DEF DeskShape
<1>5. Words'
  BY <1>1, <1>2 DEF DeskInv, Words, CommandType
<1>6. LoadsTell' /\ PagesTell'
  BY <1>2 DEF DeskInv, LoadsTell, PagesTell, Tells, IsCurrent, PageReady
<1>7. BusyFormHasACommand'
  <2> SUFFICES ASSUME NEW d \in Desks, mutating'[d]
               PROVE  \E x \in commands' : x.caller = d
    BY DEF BusyFormHasACommand
  <2>1. PICK x \in commands : x.caller = d
    BY <1>2 DEF DeskInv, BusyFormHasACommand
  <2>2. [c EXCEPT !.state = "broken"].caller = c.caller
    BY <1>1 DEF CommandType
  <2> QED BY <1>2, <2>1, <2>2
<1> QED BY <1>2, <1>4, <1>5, <1>6, <1>7 DEF DeskInv

\* The page is asked for again: no answer on its way is the one the desk waits for.
LEMMA LoadsOfALoad ==
    ASSUME DeskInv, NEW d \in Desks, StartLoad(d, page),
           \A e \in Desks : \A l : e # d /\ Tells(e, l) => Tells(e, l)'
    PROVE  /\ LoadsTell' /\ PagesTell'
           /\ page' \in [Desks -> PageType] /\ pageLoads' \subseteq PageLoadType /\ loaded' \in Nat
<1>1. DeskShape
  BY DEF DeskInv
<1> DEFINE new == [id |-> loaded + 1, desk |-> d, state |-> "asked"]
<1>2. /\ loaded' = loaded + 1 /\ loaded \in Nat /\ pageLoads' = pageLoads \cup {new}
      /\ page' = [page EXCEPT ![d] = [state |-> "loading", load |-> loaded + 1]]
  BY <1>1 DEF StartLoad, PageLoading, DeskShape
<1>3. new \in PageLoadType /\ [state |-> "loading", load |-> loaded + 1] \in PageType
  BY <1>2 DEF PageLoadType, PageType
<1>4. /\ page' \in [Desks -> PageType] /\ pageLoads' \subseteq PageLoadType /\ loaded' \in Nat
  BY <1>1, <1>2, <1>3 DEF DeskShape
<1>5. /\ page'[d].state = "loading" /\ page'[d].load = loaded + 1
      /\ \A e \in Desks : e # d => page'[e] = page[e]
  BY <1>1, <1>2 DEF DeskShape
<1>6. PagesTell'
  <2> SUFFICES ASSUME NEW e \in Desks, PageReady(e)' PROVE Tells(e, page[e].detail.ledger)'
    BY DEF PagesTell
  <2>1. e # d /\ page'[e] = page[e] /\ PageReady(e)
    BY <1>5 DEF PageReady
  <2>2. Tells(e, page[e].detail.ledger)
    BY <2>1 DEF DeskInv, PagesTell
  <2> QED BY <2>1, <2>2
<1>7. LoadsTell'
  <2> SUFFICES ASSUME NEW l \in pageLoads'
               PROVE  /\ l.id <= loaded'
                      /\ l.state = "answered" /\ IsCurrent(l)' => Tells(l.desk, l.detail.ledger)'
    BY DEF LoadsTell
  <2>1. CASE l = new
    BY <1>2, <2>1
  <2>2. CASE l \in pageLoads
    <3>1. l.id <= loaded /\ l.id \in Nat /\ l.desk \in Desks
      BY <1>1, <2>2 DEF DeskInv, LoadsTell, DeskShape, PageLoadType
    <3>2. ASSUME IsCurrent(l)', l.state = "answered"
          PROVE  Tells(l.desk, l.detail.ledger)'
      <4>1. l.desk # d
        BY <1>2, <1>5, <3>1, <3>2 DEF IsCurrent
      <4>2. IsCurrent(l)
        BY <1>5, <3>1, <3>2, <4>1 DEF IsCurrent
      <4>3. Tells(l.desk, l.detail.ledger)
        BY <2>2, <3>2, <4>2 DEF DeskInv, LoadsTell
      <4> QED BY <3>1, <4>1, <4>3
    <3> QED BY <1>2, <3>1, <3>2
  <2> QED BY <1>2, <2>1, <2>2
<1> QED BY <1>4, <1>6, <1>7

LEMMA OpenStep ==
    ASSUME DeskInv, NEW d \in Desks, OpenPage(d)
    PROVE  DeskInv'
<1> DEFINE Left(c) == IF c.caller = d THEN [c EXCEPT !.caller = "nobody"] ELSE c
<1>1. DeskShape
  BY DEF DeskInv
<1>2. /\ StartLoad(d, page) /\ modal' = [modal EXCEPT ![d] = NoModal]
      /\ mutating' = [mutating EXCEPT ![d] = FALSE]
      /\ commands' = {Left(c) : c \in commands}
      /\ UNCHANGED <<status, ledger, cancelKey, clock, told, sentCommands, lostCommands>>
  BY DEF OpenPage, server
<1>3. \A c \in commands : /\ Left(c) \in CommandType /\ Left(c).cmd = c.cmd
                          /\ Left(c).state = c.state
                          /\ c.caller # d => Left(c) = c
  BY <1>1 DEF DeskShape, CommandType
<1> HIDE DEF Left
<1>4. LoadsTell' /\ PagesTell' /\ page' \in [Desks -> PageType]
      /\ pageLoads' \subseteq PageLoadType /\ loaded' \in Nat
  BY <1>2, LoadsOfALoad DEF Tells
<1>5. DeskShape'
  BY <1>1, <1>2, <1>3, <1>4 DEF DeskShape, ModalType
<1>6. Words'
  BY <1>2, <1>3 DEF DeskInv, Words
<1>7. BusyFormHasACommand'
  <2> SUFFICES ASSUME NEW e \in Desks, mutating'[e]
               PROVE  \E x \in commands' : x.caller = e
    BY DEF BusyFormHasACommand
  <2>1. e # d /\ mutating[e]
    BY <1>1, <1>2 DEF DeskShape
  <2>2. PICK x \in commands : x.caller = e
    BY <2>1 DEF DeskInv, BusyFormHasACommand
  <2> QED BY <1>2, <1>3, <2>1, <2>2
<1> QED BY <1>2, <1>4, <1>5, <1>6, <1>7 DEF DeskInv

LEMMA ReadStep ==
    ASSUME DeskInv, NEW l \in pageLoads, PageIsRead(l)
    PROVE  DeskInv'
<1> DEFINE got == [id |-> l.id, desk |-> l.desk, state |-> "answered", detail |-> Snapshot]
<1>1. DeskShape /\ l \in PageLoadType /\ l.id \in Nat /\ l.desk \in Desks /\ l.id <= loaded
  BY DEF DeskInv, DeskShape, LoadsTell, PageLoadType
<1>2. /\ pageLoads' = (pageLoads \ {l}) \cup {got}
      /\ UNCHANGED <<status, ledger, cancelKey, clock, page, modal, mutating, loaded, told,
                     commands, sentCommands, lostCommands>>
  BY DEF PageIsRead, server
<1>3. got \in PageLoadType
  BY <1>1, SnapshotType DEF PageLoadType
<1>4. DeskShape'
  BY <1>1, <1>2, <1>3 DEF DeskShape
<1>5. Tells(l.desk, got.detail.ledger)
  BY <1>1, LedgerTells DEF Snapshot
<1>6. LoadsTell'
  <2> SUFFICES ASSUME NEW x \in pageLoads'
               PROVE  /\ x.id <= loaded
                      /\ x.state = "answered" /\ IsCurrent(x) => Tells(x.desk, x.detail.ledger)
    BY <1>2 DEF LoadsTell, IsCurrent, Tells
  <2>1. CASE x = got
    BY <1>1, <1>5, <2>1
  <2>2. CASE x \in pageLoads
    BY <2>2 DEF DeskInv, LoadsTell
  <2> QED BY <1>2, <2>1, <2>2
<1>7. Words' /\ PagesTell' /\ BusyFormHasACommand'
  BY <1>2 DEF DeskInv, Words, PagesTell, Tells, PageReady, BusyFormHasACommand
<1> QED BY <1>2, <1>4, <1>6, <1>7 DEF DeskInv

-----------------------------------------------------------------------------
(* The page *)

LEMMA ArriveStep ==
    ASSUME DeskInv, NEW l \in pageLoads, PageArrives(l)
    PROVE  DeskInv'
<1>1. DeskShape /\ l \in PageLoadType /\ l.desk \in Desks /\ l.detail \in DetailType
  BY DEF DeskInv, DeskShape, PageArrives, PageLoadType
<1>2. /\ l.state = "answered" /\ pageLoads' = pageLoads \ {l}
      /\ UNCHANGED <<status, ledger, cancelKey, mutating, loaded, told, commands, sentCommands, lostCommands>>
  BY DEF PageArrives, server
<1>3. Words' /\ BusyFormHasACommand'
  BY <1>2 DEF DeskInv, Words, BusyFormHasACommand
<1>4. CASE IsCurrent(l)
  <2>1. /\ page' = [page EXCEPT ![l.desk] = [state |-> "ready", detail |-> l.detail]]
        /\ modal' = [modal EXCEPT ![l.desk] = Remounted(l.desk, l.detail)]
        /\ clock' = IF modal'[l.desk].kind = "none" THEN clock ELSE clock + 1
    BY <1>4 DEF PageArrives
  <2>2. [state |-> "ready", detail |-> l.detail] \in PageType
    BY <1>1 DEF PageType
  <2>3. modal[l.desk] \in ModalType /\ clock \in 0..MaxModals /\ l.detail.net \in Amounts
    BY <1>1 DEF DeskShape, DetailType
  <2>4. modal[l.desk].kind = "none" \/ modal[l.desk] \in [kind : {"pay", "cancel"}, key : 1..MaxModals, amount : Amounts, error : BOOLEAN]
    BY <2>3 DEF ModalType, NoModal
  <2>5. \/ Remounted(l.desk, l.detail) = NoModal
        \/ /\ Remounted(l.desk, l.detail) \in [kind : {"pay", "cancel"}, key : 1..MaxModals, amount : Amounts, error : BOOLEAN]
           /\ clock + 1 \in 0..MaxModals
    BY <2>3, <2>4, ConstantBounds DEF Remounted, Amounts
  <2>6. Remounted(l.desk, l.detail) \in ModalType
    BY <2>5 DEF ModalType
  <2>7. modal' \in [Desks -> ModalType] /\ modal'[l.desk] = Remounted(l.desk, l.detail)
    BY <1>1, <2>1, <2>6 DEF DeskShape
  <2>8. clock' \in 0..MaxModals
    BY <2>1, <2>3, <2>5, <2>7 DEF NoModal
  <2>9. page' \in [Desks -> PageType]
    BY <1>1, <2>1, <2>2 DEF DeskShape
  <2>10. DeskShape'
    BY <1>1, <1>2, <2>7, <2>8, <2>9 DEF DeskShape
  <2>11. /\ page'[l.desk] = [state |-> "ready", detail |-> l.detail]
         /\ \A e \in Desks : e # l.desk => page'[e] = page[e]
    BY <1>1, <2>1 DEF DeskShape
  <2>12. Tells(l.desk, l.detail.ledger)
    BY <1>2, <1>4 DEF DeskInv, LoadsTell
  <2>13. PagesTell'
    BY <1>2, <2>11, <2>12 DEF DeskInv, PagesTell, PageReady, Tells
  <2>14. LoadsTell'
    <3>1. \A x \in pageLoads : x.desk \in Desks
      BY <1>1 DEF DeskShape, PageLoadType
    <3>2. ASSUME NEW x \in pageLoads', x.state = "answered", IsCurrent(x)'
          PROVE  Tells(x.desk, x.detail.ledger)'
      <4>1. x \in pageLoads /\ x.desk # l.desk
        BY <1>2, <2>11, <3>2 DEF IsCurrent
      <4>2. IsCurrent(x)
        BY <2>11, <3>1, <3>2, <4>1 DEF IsCurrent
      <4> QED BY <1>2, <3>2, <4>1, <4>2 DEF DeskInv, LoadsTell, Tells
    <3> QED BY <1>2, <3>2 DEF DeskInv, LoadsTell
  <2> QED BY <1>2, <1>3, <2>10, <2>13, <2>14 DEF DeskInv
<1>5. CASE ~IsCurrent(l)
  <2>1. UNCHANGED <<page, modal, clock>>
    BY <1>5 DEF PageArrives
  <2>2. DeskShape'
    BY <1>1, <1>2, <2>1 DEF DeskShape
  <2>3. LoadsTell' /\ PagesTell'
    BY <1>2, <2>1 DEF DeskInv, LoadsTell, PagesTell, Tells, IsCurrent, PageReady
  <2> QED BY <1>2, <1>3, <2>2, <2>3 DEF DeskInv
<1> QED BY <1>4, <1>5

LEMMA FailStep ==
    ASSUME DeskInv, NEW l \in pageLoads, LoadFails(l)
    PROVE  DeskInv'
<1>1. DeskShape /\ l.desk \in Desks
  BY DEF DeskInv, DeskShape, PageLoadType
<1>2. /\ pageLoads' = pageLoads \ {l} /\ lostCommands' = lostCommands + 1
      /\ page' = IF IsCurrent(l) THEN [page EXCEPT ![l.desk] = [state |-> "error"]] ELSE page
      /\ UNCHANGED <<status, ledger, cancelKey, clock, modal, mutating, loaded, told, commands, sentCommands>>
  BY DEF LoadFails, server
<1>3. [state |-> "error"] \in PageType
  BY DEF PageType
<1>4. page' \in [Desks -> PageType]
  BY <1>1, <1>2, <1>3 DEF DeskShape
<1>5. DeskShape'
  BY <1>1, <1>2, <1>4 DEF DeskShape
<1>6. \A e \in Desks : page'[e] = page[e] \/ page'[e] = [state |-> "error"]
  BY <1>1, <1>2 DEF DeskShape
<1>7. PagesTell'
  BY <1>2, <1>6 DEF DeskInv, PagesTell, PageReady, Tells
<1>8. LoadsTell'
  <2>1. \A x \in pageLoads : x.desk \in Desks
    BY <1>1 DEF DeskShape, PageLoadType
  <2>2. ASSUME NEW x \in pageLoads', x.state = "answered", IsCurrent(x)'
        PROVE  Tells(x.desk, x.detail.ledger)'
    <3>1. x \in pageLoads /\ IsCurrent(x)
      BY <1>2, <1>6, <2>1, <2>2 DEF IsCurrent
    <3> QED BY <1>2, <2>2, <3>1 DEF DeskInv, LoadsTell, Tells
  <2> QED BY <1>2, <2>2 DEF DeskInv, LoadsTell
<1>9. Words' /\ BusyFormHasACommand'
  BY <1>2 DEF DeskInv, Words, BusyFormHasACommand
<1> QED BY <1>2, <1>5, <1>7, <1>8, <1>9 DEF DeskInv

-----------------------------------------------------------------------------
(* The forms *)

LEMMA OpenFormStep ==
    ASSUME DeskInv, NEW d \in Desks, NEW kind \in {"pay", "cancel"}, NEW amount \in Amounts,
           OpenModal(d, kind, amount)
    PROVE  DeskInv'
<1>1. DeskShape
  BY DEF DeskInv
<1>2. /\ clock' = clock + 1 /\ clock < MaxModals
      /\ modal' = [modal EXCEPT ![d] =
                     [kind |-> kind, key |-> clock + 1, amount |-> amount, error |-> FALSE]]
      /\ UNCHANGED <<status, ledger, cancelKey, page, mutating, pageLoads, loaded, told, commands,
                     sentCommands, lostCommands>>
  BY DEF OpenModal, server
<1>3. clock' \in 0..MaxModals /\ clock + 1 \in 1..MaxModals
  BY <1>1, <1>2, ConstantBounds DEF DeskShape
<1>4. [kind |-> kind, key |-> clock + 1, amount |-> amount, error |-> FALSE] \in ModalType
  BY <1>3 DEF ModalType
<1>5. DeskShape'
  BY <1>1, <1>2, <1>3, <1>4 DEF DeskShape
<1>6. Words' /\ LoadsTell' /\ PagesTell' /\ BusyFormHasACommand'
  BY <1>2 DEF DeskInv, Words, LoadsTell, PagesTell, Tells, IsCurrent, PageReady, BusyFormHasACommand
<1> QED BY <1>2, <1>5, <1>6 DEF DeskInv

LEMMA OpenPayStep == ASSUME DeskInv, NEW d \in Desks, OpenPay(d) PROVE DeskInv'
<1>1. 0 \in Amounts
  BY ConstantBounds DEF Amounts
<1> QED BY <1>1, OpenFormStep DEF OpenPay

LEMMA OpenCancelStep == ASSUME DeskInv, NEW d \in Desks, OpenCancel(d) PROVE DeskInv'
<1>1. page[d] \in PageType /\ page[d].state = "ready"
  BY DEF DeskInv, DeskShape, OpenCancel, PageReady
<1>2. page[d].detail.net \in Amounts
  BY <1>1 DEF PageType, DetailType
<1> QED BY <1>2, OpenFormStep DEF OpenCancel

\* A command is sent: it has no effect on what was told, and its sender is busy with it.
LEMMA SendStep ==
    ASSUME DeskInv, NEW new \in CommandType, new.state = "sent", commands' = commands \cup {new},
           modal' \in [Desks -> ModalType], mutating' \in [Desks -> BOOLEAN], sentCommands' \in Nat,
           \A d \in Desks : mutating'[d] => mutating[d] \/ new.caller = d,
           UNCHANGED <<server, clock, page, pageLoads, loaded, told, lostCommands>>
    PROVE  DeskInv'
<1>1. DeskShape
  BY DEF DeskInv
<1>2. UNCHANGED <<status, ledger, cancelKey, clock, page, pageLoads, loaded, told, lostCommands>>
  BY DEF server
<1>3. DeskShape'
  BY <1>1, <1>2 DEF DeskShape
<1>4. Words' /\ LoadsTell' /\ PagesTell'
  BY <1>2 DEF DeskInv, Words, LoadsTell, PagesTell, Tells, IsCurrent, PageReady
<1>5. BusyFormHasACommand'
  BY DEF DeskInv, BusyFormHasACommand
<1> QED BY <1>2, <1>3, <1>4, <1>5 DEF DeskInv

LEMMA SubmitStep ==
    ASSUME DeskInv, NEW d \in Desks, NEW a \in Amounts, Submit(d, a)
    PROVE  DeskInv'
<1> DEFINE new == [id |-> sentCommands + 1, caller |-> d, state |-> "sent",
                   cmd |-> [kind |-> modal[d].kind, key |-> modal[d].key, amount |-> a]]
<1>1. DeskShape /\ sentCommands \in Nat /\ modal[d] \in ModalType /\ modal[d].kind # "none"
  BY DEF DeskInv, DeskShape, Submit
<1>2. modal[d] \in [kind : {"pay", "cancel"}, key : 1..MaxModals, amount : Amounts, error : BOOLEAN]
  BY <1>1 DEF ModalType, NoModal
<1>3. /\ sentCommands' = sentCommands + 1
      /\ modal' = [modal EXCEPT ![d].amount = a]
      /\ mutating' = [mutating EXCEPT ![d] = TRUE]
      /\ commands' = commands \cup {new}
      /\ UNCHANGED <<server, clock, page, pageLoads, loaded, told, lostCommands>>
  BY DEF Submit
<1>4. new.cmd \in Commands
  BY <1>2, ConstantBounds DEF Commands
<1>5. new \in CommandType /\ new.state = "sent" /\ new.caller = d
  BY <1>1, <1>4 DEF CommandType
<1> HIDE DEF new
<1>6. [modal[d] EXCEPT !.amount = a] \in ModalType
  BY <1>2 DEF ModalType
<1>7. modal' \in [Desks -> ModalType]
  BY <1>1, <1>3, <1>6 DEF DeskShape
<1>8. mutating' \in [Desks -> BOOLEAN] /\ \A e \in Desks : mutating'[e] => mutating[e] \/ new.caller = e
  BY <1>1, <1>3, <1>5 DEF DeskShape
<1>9. sentCommands' \in Nat
  BY <1>1, <1>3
<1> QED BY <1>3, <1>5, <1>7, <1>8, <1>9, SendStep

LEMMA RegenerateStep == ASSUME DeskInv, NEW d \in Desks, Regenerate(d) PROVE DeskInv'
<1> DEFINE new == [id |-> sentCommands + 1, caller |-> d, state |-> "sent",
                   cmd |-> [kind |-> "regenerate", key |-> 0, amount |-> 0]]
<1>1. DeskShape /\ sentCommands \in Nat
  BY DEF DeskInv, DeskShape
<1>2. /\ sentCommands' = sentCommands + 1
      /\ mutating' = [mutating EXCEPT ![d] = TRUE]
      /\ commands' = commands \cup {new}
      /\ modal' = modal
      /\ UNCHANGED <<server, clock, page, pageLoads, loaded, told, lostCommands>>
  BY DEF Regenerate
<1>3. new.cmd \in Commands
  BY ConstantBounds DEF Commands, Amounts
<1>4. new \in CommandType /\ new.state = "sent" /\ new.caller = d
  BY <1>1, <1>3 DEF CommandType
<1> HIDE DEF new
<1>5. modal' \in [Desks -> ModalType] /\ sentCommands' \in Nat
  BY <1>1, <1>2 DEF DeskShape
<1>6. mutating' \in [Desks -> BOOLEAN] /\ \A e \in Desks : mutating'[e] => mutating[e] \/ new.caller = e
  BY <1>1, <1>2, <1>4 DEF DeskShape
<1> QED BY <1>2, <1>4, <1>5, <1>6, SendStep

LEMMA ScriptStep ==
    ASSUME DeskInv, NEW s \in Scripts, NEW kind \in {"pay", "cancel"}, NEW key \in FormKeys,
           NEW a \in Amounts, ScriptSends(s, kind, key, a)
    PROVE  DeskInv'
<1> DEFINE new == [id |-> sentCommands + 1, caller |-> s, state |-> "sent",
                   cmd |-> [kind |-> kind, key |-> key, amount |-> a]]
<1>1. DeskShape /\ sentCommands \in Nat
  BY DEF DeskInv, DeskShape
<1>2. /\ sentCommands' = sentCommands + 1
      /\ mutating' = mutating
      /\ commands' = commands \cup {new}
      /\ modal' = modal
      /\ UNCHANGED <<server, clock, page, pageLoads, loaded, told, lostCommands>>
  BY DEF ScriptSends, deskTab
<1>3. new.cmd \in Commands
  BY ConstantBounds DEF Commands, FormKeys
<1>4. new \in CommandType /\ new.state = "sent"
  BY <1>1, <1>3 DEF CommandType
<1> HIDE DEF new
<1>5. modal' \in [Desks -> ModalType] /\ sentCommands' \in Nat
  BY <1>1, <1>2 DEF DeskShape
<1>6. mutating' \in [Desks -> BOOLEAN] /\ \A e \in Desks : mutating'[e] => mutating[e] \/ new.caller = e
  BY <1>1, <1>2 DEF DeskShape
<1> QED BY <1>2, <1>4, <1>5, <1>6, SendStep

LEMMA CloseStep == ASSUME DeskInv, NEW d \in Desks, Close(d) PROVE DeskInv'
<1>1. DeskShape
  BY DEF DeskInv
<1>2. /\ modal' = [modal EXCEPT ![d] = NoModal]
      /\ UNCHANGED <<status, ledger, cancelKey, clock, page, mutating, pageLoads, loaded, told,
                     commands, sentCommands, lostCommands>>
  BY DEF Close, server
<1>3. DeskShape'
  BY <1>1, <1>2 DEF DeskShape, ModalType
<1>4. Words' /\ LoadsTell' /\ PagesTell' /\ BusyFormHasACommand'
  BY <1>2 DEF DeskInv, Words, LoadsTell, PagesTell, Tells, IsCurrent, PageReady, BusyFormHasACommand
<1> QED BY <1>2, <1>3, <1>4 DEF DeskInv

-----------------------------------------------------------------------------
(* The answers *)

\* The others keep the commands they wait for.
LEMMA OthersWait ==
    ASSUME DeskInv, NEW c \in commands, commands' = commands \ {c},
           mutating' = [mutating EXCEPT ![c.caller] = FALSE]
    PROVE  BusyFormHasACommand' /\ mutating' \in [Desks -> BOOLEAN] /\ commands' \subseteq CommandType
<1>1. mutating \in [Desks -> BOOLEAN] /\ commands \subseteq CommandType
  BY DEF DeskInv, DeskShape
<1>2. mutating' \in [Desks -> BOOLEAN]
  BY <1>1
<1>3. BusyFormHasACommand'
  <2> SUFFICES ASSUME NEW e \in Desks, mutating'[e]
               PROVE  \E x \in commands' : x.caller = e
    BY DEF BusyFormHasACommand
  <2>1. e # c.caller /\ mutating[e]
    BY <1>1
  <2>2. PICK x \in commands : x.caller = e
    BY <2>1 DEF DeskInv, BusyFormHasACommand
  <2> QED BY <2>1, <2>2
<1> QED BY <1>1, <1>2, <1>3

LEMMA SuccessStep ==
    ASSUME DeskInv, NEW c \in commands, CommandSucceeds(c)
    PROVE  DeskInv'
<1>1. DeskShape /\ c \in CommandType /\ c.caller \in Desks /\ c.state = "ok"
  BY DEF DeskInv, DeskShape, CommandSucceeds
<1>2. /\ commands' = commands \ {c}
      /\ told' = told \cup {[cmd |-> c.cmd, by |-> c.caller]}
      /\ mutating' = [mutating EXCEPT ![c.caller] = FALSE]
      /\ StartLoad(c.caller, page)
      /\ modal' = IF c.cmd.kind = "regenerate" THEN modal
                  ELSE [modal EXCEPT ![c.caller] = NoModal]
      /\ UNCHANGED <<status, ledger, cancelKey, clock, sentCommands, lostCommands>>
  BY DEF CommandSucceeds, Told, server
<1>3. BusyFormHasACommand' /\ mutating' \in [Desks -> BOOLEAN] /\ commands' \subseteq CommandType
  <2>1. commands' = commands \ {c} /\ mutating' = [mutating EXCEPT ![c.caller] = FALSE]
    BY <1>2
  <2> QED BY <2>1, OthersWait
<1>4. ASSUME NEW e \in Desks, NEW x, e # c.caller, Tells(e, x)
      PROVE  Tells(e, x)'
  BY <1>2, <1>4 DEF Tells
<1>5. /\ LoadsTell' /\ PagesTell'
      /\ page' \in [Desks -> PageType] /\ pageLoads' \subseteq PageLoadType /\ loaded' \in Nat
  BY <1>1, <1>2, <1>4, LoadsOfALoad
<1>6. [cmd |-> c.cmd, by |-> c.caller] \in [cmd : Commands, by : Desks \cup Scripts]
  BY <1>1 DEF CommandType
<1>7. modal' \in [Desks -> ModalType]
  BY <1>1, <1>2 DEF DeskShape, ModalType
<1>8. DeskShape'
  BY <1>1, <1>2, <1>3, <1>5, <1>6, <1>7 DEF DeskShape
<1>9. Stands(c.cmd, ledger, status, cancelKey)
  BY <1>1 DEF DeskInv, Words
<1>10. Words'
  BY <1>2, <1>9 DEF DeskInv, Words
<1> QED BY <1>2, <1>3, <1>5, <1>8, <1>10 DEF DeskInv

LEMMA FailureStep ==
    ASSUME DeskInv, NEW c \in commands, CommandFails(c)
    PROVE  DeskInv'
<1>1. DeskShape /\ c.caller \in Desks
  BY DEF DeskInv, DeskShape, CommandFails
<1>2. /\ commands' = commands \ {c}
      /\ mutating' = [mutating EXCEPT ![c.caller] = FALSE]
      /\ modal' = IF modal[c.caller].kind = "none" THEN modal
                  ELSE [modal EXCEPT ![c.caller].error = TRUE]
      /\ UNCHANGED <<status, ledger, cancelKey, clock, page, pageLoads, loaded, told, sentCommands, lostCommands>>
  BY DEF CommandFails, server
<1>3. BusyFormHasACommand' /\ mutating' \in [Desks -> BOOLEAN] /\ commands' \subseteq CommandType
  <2>1. commands' = commands \ {c} /\ mutating' = [mutating EXCEPT ![c.caller] = FALSE]
    BY <1>2
  <2> QED BY <2>1, OthersWait
<1>4. modal[c.caller] \in ModalType
  BY <1>1 DEF DeskShape
<1>5. modal[c.caller].kind # "none" => [modal[c.caller] EXCEPT !.error = TRUE] \in ModalType
  BY <1>4 DEF ModalType, NoModal
<1>6. modal' \in [Desks -> ModalType]
  BY <1>1, <1>2, <1>5 DEF DeskShape
<1>7. DeskShape'
  BY <1>1, <1>2, <1>3, <1>6 DEF DeskShape
<1>8. Words' /\ LoadsTell' /\ PagesTell'
  BY <1>2 DEF DeskInv, Words, LoadsTell, PagesTell, Tells, IsCurrent, PageReady
<1> QED BY <1>2, <1>3, <1>7, <1>8 DEF DeskInv

LEMMA ForgottenStep ==
    ASSUME DeskInv, NEW c \in commands, Forgotten(c)
    PROVE  DeskInv'
<1>1. DeskShape /\ c \in CommandType /\ c.caller \notin Desks
  BY DEF DeskInv, DeskShape, Forgotten
<1>2. /\ commands' = commands \ {c}
      /\ told' = IF c.state = "ok" /\ c.caller \in Scripts
                 THEN told \cup {[cmd |-> c.cmd, by |-> c.caller]} ELSE told
      /\ UNCHANGED <<status, ledger, cancelKey, clock, page, modal, mutating, pageLoads, loaded,
                     sentCommands, lostCommands>>
  BY DEF Forgotten, Told, server, deskTab
<1>3. BusyFormHasACommand' /\ mutating' \in [Desks -> BOOLEAN] /\ commands' \subseteq CommandType
  <2>1. commands' = commands \ {c} /\ mutating' = [mutating EXCEPT ![c.caller] = FALSE]
    BY <1>1, <1>2 DEF DeskShape
  <2> QED BY <2>1, OthersWait
<1>4. c.caller \in Scripts => [cmd |-> c.cmd, by |-> c.caller] \in [cmd : Commands, by : Desks \cup Scripts]
  BY <1>1 DEF CommandType
<1>5. DeskShape'
  BY <1>1, <1>2, <1>3, <1>4 DEF DeskShape
<1>6. Words'
  BY <1>2 DEF DeskInv, Words
<1>7. \A e \in Desks : \A x : Tells(e, x) => Tells(e, x)'
  BY <1>1, <1>2 DEF Tells
<1>8. \A x \in pageLoads : x.desk \in Desks
  BY <1>1 DEF DeskShape, PageLoadType
<1>9. LoadsTell' /\ PagesTell'
  BY <1>2, <1>7, <1>8 DEF DeskInv, LoadsTell, PagesTell, IsCurrent, PageReady
<1> QED BY <1>2, <1>3, <1>5, <1>6, <1>9 DEF DeskInv

-----------------------------------------------------------------------------
LEMMA DeskStart == DeskInit => DeskInv
<1> SUFFICES ASSUME DeskInit PROVE DeskInv
  OBVIOUS
<1>1. /\ status = "COMPLETED" /\ ledger = <<>> /\ cancelKey = 0 /\ clock = 0
      /\ page = [d \in Desks |-> [state |-> "error"]]
      /\ modal = [d \in Desks |-> NoModal]
      /\ mutating = [d \in Desks |-> FALSE]
      /\ told = {} /\ commands = {} /\ sentCommands = 0 /\ pageLoads = {} /\ loaded = 0
      /\ lostCommands = 0
  BY DEF DeskInit
<1>2. ledger \in Seq(MovementType) /\ Len(ledger) = 0 /\ 1..Len(ledger) = {}
  BY <1>1
<1>3. DeskShape
  BY <1>1, <1>2, ConstantBounds DEF DeskShape, PageType, ModalType
<1>4. \A kind : Total(ledger, kind) = 0
  BY <1>2, CountOfNothing DEF Total
<1>5. BooksHold(ledger, status, cancelKey)
  BY <1>1, <1>2, <1>4, ConstantBounds DEF BooksHold
<1> QED BY <1>1, <1>3, <1>5
        DEF DeskInv, Words, LoadsTell, PagesTell, PageReady, BusyFormHasACommand

LEMMA DeskStep == DeskInv /\ [DeskNext]_deskVars => DeskInv'
<1> SUFFICES ASSUME DeskInv, [DeskNext]_deskVars PROVE DeskInv'
  OBVIOUS
<1>1. ASSUME NEW d \in Desks, OpenPage(d) \/ OpenPay(d) \/ OpenCancel(d) \/ Close(d) \/ Regenerate(d)
      PROVE  DeskInv'
  BY <1>1, OpenStep, OpenPayStep, OpenCancelStep, CloseStep, RegenerateStep
<1>2. ASSUME NEW d \in Desks, NEW a \in Amounts, Submit(d, a) PROVE DeskInv'
  BY <1>2, SubmitStep
<1>3. ASSUME NEW s \in Scripts, NEW kind \in {"pay", "cancel"}, NEW key \in FormKeys,
             NEW a \in Amounts, ScriptSends(s, kind, key, a)
      PROVE  DeskInv'
  BY <1>3, ScriptStep
<1>4. ASSUME NEW c \in commands, ServerHandles(c) PROVE DeskInv'
  BY <1>4, ServerStep
<1>5. ASSUME NEW c \in commands, LoseCommand(c) \/ CommandSucceeds(c) PROVE DeskInv'
  BY <1>5, LossStep, SuccessStep
<1>6. ASSUME NEW c \in commands, CommandFails(c) \/ Forgotten(c) PROVE DeskInv'
  BY <1>6, FailureStep, ForgottenStep
<1>7. ASSUME NEW l \in pageLoads, PageIsRead(l) \/ PageArrives(l) \/ LoadFails(l) PROVE DeskInv'
  BY <1>7, ReadStep, ArriveStep, FailStep
<1>8. CASE UNCHANGED deskVars
  <2>1. UNCHANGED <<status, ledger, cancelKey, clock, page, modal, mutating, pageLoads, loaded,
                    told, commands, sentCommands, lostCommands>>
    BY <1>8 DEF deskVars, server, deskTab
  <2> QED BY <2>1 DEF DeskInv, DeskShape, Words, LoadsTell, PagesTell, Tells, IsCurrent,
                      PageReady, BusyFormHasACommand
<1> QED BY <1>1, <1>2, <1>3, <1>4, <1>5, <1>6, <1>7, <1>8 DEF DeskNext

-----------------------------------------------------------------------------
\* What the invariant says of the rows and of what was told.
LEMMA DeskTells == DeskInv => DeskTellsTheLedger
<1> SUFFICES ASSUME DeskInv PROVE DeskTellsTheLedger
  OBVIOUS
<1>1. /\ DeskShape /\ BooksHold(ledger, status, cancelKey) /\ ledger \in Seq(MovementType)
      /\ \A i \in 1..Len(ledger) : ledger[i] \in MovementType
  BY DEF DeskInv, DeskShape
<1>2. ToSet(ledger) = {ledger[i] : i \in 1..Len(ledger)}
  BY <1>1 DEF ToSet
<1>3. DeskTypeOK
  <2>1. \A m \in ToSet(ledger) : m.kind \in {"PAYMENT", "REFUND"} /\ m.amount \in 1..InvoiceTotal
    BY <1>1, <1>2 DEF MovementType
  <2>2. \A d \in Desks : page[d].state \in {"loading", "ready", "error"}
    BY <1>1 DEF DeskShape, PageType
  <2>3. \A c \in commands : c.cmd \in Commands /\ c.state \in {"sent", "ok", "refused", "broken"}
    BY <1>1 DEF DeskShape, CommandType
  <2> QED BY <1>1, <2>1, <2>2, <2>3 DEF DeskTypeOK, DeskShape
<1>4. OneMovementPerKey
  BY <1>1 DEF BooksHold, OneMovementPerKey
<1>5. ToldIsStored
  <2> SUFFICES ASSUME NEW t \in told
               PROVE  /\ t.cmd.kind = "pay" =>
                           \E m \in Stored(t.cmd.key) : m.kind = "PAYMENT" /\ m.amount = t.cmd.amount
                      /\ t.cmd.kind = "cancel" =>
                           /\ status = "CANCELLED" /\ cancelKey = t.cmd.key
                           /\ Refunded = t.cmd.amount
    BY DEF ToldIsStored
  <2>1. Stands(t.cmd, ledger, status, cancelKey)
    BY DEF DeskInv, Words
  <2>2. ASSUME t.cmd.kind = "pay"
        PROVE  \E m \in Stored(t.cmd.key) : m.kind = "PAYMENT" /\ m.amount = t.cmd.amount
    <3>1. PICK i \in 1..Len(ledger) :
            ledger[i].key = t.cmd.key /\ ledger[i].kind = "PAYMENT" /\ ledger[i].amount = t.cmd.amount
      BY <2>1, <2>2 DEF Stands
    <3>2. ledger[i] \in Stored(t.cmd.key)
      BY <1>1, <3>1, StoredRows
    <3> QED BY <3>1, <3>2
  <2>3. ASSUME t.cmd.kind = "cancel"
        PROVE  status = "CANCELLED" /\ cancelKey = t.cmd.key /\ Refunded = t.cmd.amount
    <3>1. Refunded = Total(ledger, "REFUND")
      BY MoneyOfTheInvoice
    <3> QED BY <2>1, <2>3, <3>1 DEF Stands
  <2> QED BY <2>2, <2>3
<1>6. RefundedOnce
  <2> DEFINE R == {i \in 1..Len(ledger) : ledger[i].kind = "REFUND"}
  <2>1. \A i, j \in R : i = j
    BY <1>1 DEF BooksHold, DeskShape
  <2>2. Cardinality(R) <= 1
    <3>1. CASE R = {}
      BY <3>1, FS_EmptySet
    <3>2. CASE R # {}
      <4>1. PICK i : i \in R
        BY <3>2
      <4>2. R = {i}
        BY <2>1, <4>1
      <4>3. Cardinality({i}) = 1
        BY FS_Singleton
      <4>4. Cardinality(R) = 1
        BY ONLY <4>2, <4>3
      <4> QED BY <4>4
    <3> QED BY <3>1, <3>2
  <2>3. Refunded <= Paid /\ Paid <= InvoiceTotal
    BY MoneyOfTheInvoice
  <2> QED BY <2>2, <2>3 DEF RefundedOnce
<1>7. OwnMovementsAreShown
  <2> SUFFICES ASSUME NEW d \in Desks, PageReady(d), NEW t \in told, t.by = d, t.cmd.kind = "pay"
               PROVE  \E m \in ToSet(page[d].detail.ledger) : m.key = t.cmd.key
    BY DEF OwnMovementsAreShown
  <2> DEFINE l == page[d].detail.ledger
  <2>1. l \in Seq(MovementType)
    BY <1>1 DEF DeskShape, PageType, PageReady, DetailType
  <2>2. PICK i \in 1..Len(l) : l[i].key = t.cmd.key
    BY DEF DeskInv, PagesTell, Tells
  <2>3. l[i] \in ToSet(l)
    BY <2>1, <2>2 DEF ToSet
  <2> QED BY <2>2, <2>3
<1> QED BY <1>3, <1>4, <1>5, <1>6, <1>7 DEF DeskTellsTheLedger, DeskInv

\* Money moves once per form, what a caller was told succeeded is in the ledger and on the page
\* its desk shows, the invoice is refunded once, and no form waits for nothing, whatever is
\* lost, sent again or answered late (useInvoiceDetail, addPayment, cancel).
THEOREM DesksTellTheLedger == DeskSpec => []DeskTellsTheLedger
BY DeskStart, DeskStep, DeskTells, PTL DEF DeskSpec

-----------------------------------------------------------------------------
(* THE POINT OF SALE                                                       *)

(* The forms of new lines that can add nothing any more *)

\* Its line was added: no command that would add another is on its way, and the tab that
\* has it open waits for the answer that closes it.
Closing(t, f) ==
    \E c \in calls : c.tab = t /\ Mine(c) /\ c.op = "add" /\ c.form = f /\ c.state = "ok"
Settled(f) ==
    \/ f \in broken
    \/ /\ \A c \in calls : c.op = "add" /\ c.form = f => c.state = "ok"
       /\ \A t \in Tabs : at[t] # 0 /\ form[t] = f => Closing(t, f)
SettledForms == {f \in 1..forms : Settled(f)}

\* Lines of settled forms F, one for each form that is not in B.
LineType(F) == [id : Nat, form : F, price : Nat]
LinesType(F, B) ==
    {ls \in Seq(LineType(F)) :
        \A i, j \in 1..Len(ls) : ls[i].form = ls[j].form /\ ls[i].form \notin B => i = j}
KindType == {"none", "gone", "DRAFT", "QUOTE_DRAFT", "QUOTE_ISSUED", "COMPLETED", "CONDUCE"}
RowType(F, B) ==
    [kind : KindType, lines : LinesType(F, B), meta : {0, 1}, paid : Nat, reviewed : Nat,
     from : Nat]
ContentType(F, B) == [kind : KindType, lines : LinesType(F, B), meta : {0, 1}]
ViewType(n, F, B) == {Loading} \cup [id : 1..n, row : ContentType(F, B)]
BackType(F, B) == {Unused} \cup ContentType(F, B)
CallType(n, F, B) ==
    [id : Nat, tab : Tabs, mounted : Nat,
     op : {"add", "undo", "remove", "update", "meta", "issue", "confirm", "conduce", "convert",
           "duplicate", "discard"},
     draft : 1..n, form : 0..MaxForms, line : {NoLine} \cup LineType(F), price : Nat,
     seen : Nat, reviewed : Nat, back : BackType(F, B),
     state : {"sent", "ok", "refused", "broken"}, view : ViewType(n, F, B)]
ToastType(n, F, B) ==
    [tab : Tabs, mounted : Nat, draft : 1..n, line : {NoLine} \cup LineType(F),
     back : BackType(F, B)]
JobType(n, F, B) ==
    [tab : Tabs, back : BackType(F, B), draft : 1..n, step : Nat, alone : BOOLEAN]
LoadType(n, F, B) ==
    [tab : Tabs, draft : 1..n, visit : Nat, state : {"asked", "answered"}, view : ViewType(n, F, B)]

PosShape(n, F, B) ==
    /\ drafts \in [Ids -> RowType(F, B)]
    /\ created \in 0..MaxDrafts
    /\ \A d \in Ids : drafts[d].kind = "none" <=> d > created
    /\ at \in [Tabs -> 0..n]
    /\ visit \in [Tabs -> [mounted : Nat, load : Nat]]
    /\ shown \in [Tabs -> ViewType(n, F, B)]
    /\ busy \in [Tabs -> BOOLEAN]
    /\ form \in [Tabs -> 0..MaxForms]
    /\ toasts \subseteq ToastType(n, F, B)
    /\ jobs \subseteq JobType(n, F, B)
    /\ calls \subseteq CallType(n, F, B)
    /\ loads \subseteq LoadType(n, F, B)
    /\ forms \in 0..MaxForms /\ sent \in Nat /\ visits \in Nat /\ lost \in Nat

\* Every command has a page of its own behind it, or one that is gone.
Locks ==
    /\ \A t \in Tabs : visit[t].mounted <= visits
    /\ \A c \in calls : c.mounted <= visits /\ (Mine(c) => busy[c.tab])
    /\ \A c, e \in calls : Mine(c) /\ Mine(e) /\ c.tab = e.tab => c = e
    /\ LockHasACommand

\* A form is open in one tab, and sent by it alone, one command after the other.
Forms ==
    /\ \A t \in Tabs : form[t] <= forms
    /\ \A t, u \in Tabs : form[t] = form[u] /\ form[t] # 0 => t = u
    /\ \A c \in calls :
          /\ c.form <= forms
          /\ c.op = "add" => c.form # 0
          /\ c.op = "undo" => c.form \in SettledForms
          /\ c.op = "remove" => c.line # NoLine
          /\ c.op = "discard" => c.line = NoLine
          /\ c.state = "ok" => c.view # Loading
          /\ c.op \in {"confirm", "conduce", "convert"} /\ ~Credit => c.price = c.reviewed
    /\ \A c, e \in calls :
          c.op = "add" /\ e.op = "add" /\ c.form = e.form /\ c.form \notin broken => c = e
    /\ \A t \in Tabs : at[t] # 0 /\ form[t] # 0 /\ form[t] \notin broken =>
          \A c \in calls : c.op = "add" /\ c.form = form[t] => c.tab = t /\ Mine(c)

\* What has the line of a form, or will bring it back, in a draft.
Holds(c, f) == \/ c.op = "undo" /\ c.state = "sent" /\ c.form = f
               \/ c.op = "remove" /\ c.state = "ok" /\ c.line.form = f
InDraft(d, f) == \E k \in 1..Len(drafts[d].lines) : drafts[d].lines[k].form = f
InJob(d, f) ==
    \E x \in jobs : x.draft = d /\ \E i \in 1..Len(x.back.lines) :
                                        i >= x.step /\ x.back.lines[i].form = f
TheDraft == [of |-> "draft", is |-> {}]
TheCall(c) == [of |-> "call", is |-> {c}]
TheToast(x) == [of |-> "toast", is |-> {x}]
TheJob == [of |-> "job", is |-> {}]
Holders(d, f) ==
    {m \in {TheDraft} : InDraft(d, f)}
    \cup {TheCall(c) : c \in {x \in calls : x.draft = d /\ Holds(x, f)}}
    \cup {TheToast(x) : x \in {y \in toasts : y.draft = d /\ y.line.form = f}}
    \cup {m \in {TheJob} : InJob(d, f)}
OneHolder ==
    \A d \in Ids, f \in (1..forms) \ broken : \A x, y \in Holders(d, f) : x = y

\* What an undo has written when nobody else named its draft.
Written(j, row) ==
    /\ Len(row.lines) = IF j.step = 0 THEN 0 ELSE j.step - 1
    /\ j.step # 0 => row.meta = j.back.meta
    /\ \A i \in 1..Len(row.lines) : i <= Len(j.back.lines) /\ row.lines[i].price = j.back.lines[i].price
Restoring ==
    /\ \A j, k \in jobs : j.draft = k.draft => j = k
    /\ \A j \in jobs : j.step <= Len(j.back.lines) + 1
    /\ \A j \in jobs : j.alone =>
          /\ \A c \in calls : c.draft # j.draft
          /\ Written(j, drafts[j.draft])

PosInv ==
    /\ PosShape(created, SettledForms, broken)
    /\ Locks /\ Forms /\ OneHolder /\ Restoring
    /\ CollectedIsReviewed /\ RestoredIsWhole

-----------------------------------------------------------------------------
LEMMA PosBounds ==
    /\ MaxForms \in Nat /\ MaxDrafts \in Nat /\ MaxCalls \in Nat
    /\ \A p \in Prices : p \in Nat /\ p # 0
    /\ Kinds \subseteq KindType
BY PosAssumption DEF KindType

\* More drafts, more settled forms and more lost answers leave the types of all that was there.
LEMMA TypesGrow ==
    ASSUME NEW n \in Nat, NEW m \in Nat, n <= m, NEW F, NEW G, F \subseteq G, NEW B, NEW C, B \subseteq C
    PROVE  /\ LineType(F) \subseteq LineType(G)
           /\ LinesType(F, B) \subseteq LinesType(G, C)
           /\ RowType(F, B) \subseteq RowType(G, C)
           /\ ContentType(F, B) \subseteq ContentType(G, C)
           /\ ViewType(n, F, B) \subseteq ViewType(m, G, C)
           /\ BackType(F, B) \subseteq BackType(G, C)
           /\ CallType(n, F, B) \subseteq CallType(m, G, C)
           /\ ToastType(n, F, B) \subseteq ToastType(m, G, C)
           /\ JobType(n, F, B) \subseteq JobType(m, G, C)
           /\ LoadType(n, F, B) \subseteq LoadType(m, G, C)
<1>1. LineType(F) \subseteq LineType(G)
  BY DEF LineType
<1>2. LinesType(F, B) \subseteq LinesType(G, C)
  <2>1. ASSUME NEW ls \in LinesType(F, B) PROVE ls \in LinesType(G, C)
    <3>1. ls \in Seq(LineType(F))
      BY DEF LinesType
    <3>2. ls \in Seq(LineType(G))
      BY <1>1, <3>1
    <3> QED BY <3>2 DEF LinesType
  <2> QED BY <2>1
<1>3. 1..n \subseteq 1..m
  OBVIOUS
<1> HIDE DEF LineType, LinesType
<1>4. RowType(F, B) \subseteq RowType(G, C) /\ ContentType(F, B) \subseteq ContentType(G, C)
  BY <1>2 DEF RowType, ContentType
<1>5. ViewType(n, F, B) \subseteq ViewType(m, G, C)
  BY <1>3, <1>4 DEF ViewType
<1>6. BackType(F, B) \subseteq BackType(G, C)
  BY <1>4 DEF BackType
<1>7. CallType(n, F, B) \subseteq CallType(m, G, C)
  BY <1>1, <1>3, <1>5, <1>6 DEF CallType
<1>8. ToastType(n, F, B) \subseteq ToastType(m, G, C)
  BY <1>1, <1>3, <1>6 DEF ToastType
<1>9. JobType(n, F, B) \subseteq JobType(m, G, C)
  BY <1>3, <1>6 DEF JobType
<1>10. LoadType(n, F, B) \subseteq LoadType(m, G, C)
  BY <1>3, <1>5 DEF LoadType
<1> QED BY <1>1, <1>2, <1>4, <1>5, <1>6, <1>7, <1>8, <1>9, <1>10

LEMMA RowsGrow ==
    ASSUME NEW F, NEW G, F \subseteq G, NEW B
    PROVE  RowType(F, B) \subseteq RowType(G, B) /\ LinesType(F, B) \subseteq LinesType(G, B)
<1>1. 0 \in Nat /\ 0 <= 0 /\ B \subseteq B
  OBVIOUS
<1> QED BY <1>1, TypesGrow

LEMMA ShapeGrows ==
    ASSUME NEW n \in Nat, NEW m \in Nat, n <= m, NEW F, NEW G, F \subseteq G, NEW B, NEW C, B \subseteq C,
           PosShape(n, F, B)
    PROVE  PosShape(m, G, C)
<1>1. /\ RowType(F, B) \subseteq RowType(G, C) /\ ViewType(n, F, B) \subseteq ViewType(m, G, C)
      /\ CallType(n, F, B) \subseteq CallType(m, G, C) /\ ToastType(n, F, B) \subseteq ToastType(m, G, C)
      /\ JobType(n, F, B) \subseteq JobType(m, G, C) /\ LoadType(n, F, B) \subseteq LoadType(m, G, C)
  BY TypesGrow
<1>2. 0..n \subseteq 0..m
  OBVIOUS
<1> QED BY <1>1, <1>2 DEF PosShape

-----------------------------------------------------------------------------
(* The total of a draft *)

PricesOf(row) == [i \in 1..Len(row.lines) |-> row.lines[i].price]

LEMMA GrossIsNatural ==
    ASSUME NEW row, NEW F, row.lines \in Seq(LineType(F)), row.meta \in Nat
    PROVE  Gross(row) \in Nat
<1> DEFINE S == DOMAIN row.lines
           f == PricesOf(row)
           it == CHOOSE i : i = [s \in SUBSET S |->
                    IF s = {} THEN row.meta
                    ELSE row.lines[CHOOSE x \in s : TRUE].price + i[s \ {CHOOSE x \in s : TRUE}]]
           sol == [s \in SUBSET S |-> row.meta + Count(s, f)]
           Solves(g) == g = [s \in SUBSET S |->
                    IF s = {} THEN row.meta
                    ELSE row.lines[CHOOSE x \in s : TRUE].price + g[s \ {CHOOSE x \in s : TRUE}]]
<1>1. Gross(row) = it[S]
  BY DEF Gross, FoldSeq, FoldFunction, FoldFunctionOnSet, MapThenFoldSet
<1>2. IsFiniteSet(S) /\ \A i \in S : f[i] \in Nat /\ f[i] = row.lines[i].price
  <2>1. S = 1..Len(row.lines) /\ Len(row.lines) \in Nat
    OBVIOUS
  <2>2. IsFiniteSet(1..Len(row.lines))
    BY <2>1, FS_Interval
  <2>3. \A i \in S : row.lines[i] \in LineType(F)
    BY ElementOfSeq
  <2> QED BY <2>1, <2>3, <2>2 DEF PricesOf, LineType
<1> HIDE DEF S, f
<1>3. \A s \in SUBSET S : IsFiniteSet(s) /\ Count(s, f) \in Nat
  <2> TAKE s \in SUBSET S
  <2>1. IsFiniteSet(s) /\ \A x \in s : f[x] \in Nat
    BY <1>2, FS_Subset
  <2> QED BY <2>1, CountIsNatural
<1>4. Solves(sol)
  <2>1. ASSUME NEW s \in SUBSET S, s # {}
        PROVE  LET e == CHOOSE x \in s : TRUE IN sol[s] = row.lines[e].price + sol[s \ {e}]
    <3> DEFINE e == CHOOSE x \in s : TRUE
    <3>1. e \in s /\ e \in S
      BY <2>1
    <3>2. IsFiniteSet(s) /\ \A x \in s : f[x] \in Nat
      BY <1>2, <1>3
    <3> HIDE DEF e
    <3>3. Count(s, f) = f[e] + Count(s \ {e}, f)
      BY <3>1, <3>2, CountOfOneMore
    <3>4. Count(s \ {e}, f) \in Nat /\ f[e] \in Nat /\ f[e] = row.lines[e].price
      BY <1>2, <1>3, <3>1
    <3>5. sol[s] = row.meta + Count(s, f) /\ sol[s \ {e}] = row.meta + Count(s \ {e}, f)
      OBVIOUS
    <3>6. sol[s] = row.lines[e].price + sol[s \ {e}]
      BY <3>3, <3>4, <3>5
    <3> QED BY <3>6 DEF e
  <2>2. sol[{}] = row.meta
    BY CountOfNothing
  <2>3. \A s \in SUBSET S :
           sol[s] = IF s = {} THEN row.meta
                    ELSE row.lines[CHOOSE x \in s : TRUE].price + sol[s \ {CHOOSE x \in s : TRUE}]
    BY <2>1, <2>2
  <2>4. \A g : g = [s \in SUBSET S |-> g[s]]
            /\ (\A s \in SUBSET S :
                 g[s] = IF s = {} THEN row.meta
                    ELSE row.lines[CHOOSE x \in s : TRUE].price + g[s \ {CHOOSE x \in s : TRUE}])
            => Solves(g)
    OBVIOUS
  <2>5. sol = [s \in SUBSET S |-> sol[s]]
    OBVIOUS
  <2> HIDE DEF sol, Solves
  <2> QED BY <2>3, <2>4, <2>5
<1>5. Solves(it)
  <2>1. it = CHOOSE g : Solves(g)
    OBVIOUS
  <2> HIDE DEF sol, Solves, it
  <2> QED BY <1>4, <2>1
<1> DEFINE P == {s \in SUBSET S : it[s] \in Nat}
<1>6. {} \in P
  <2>1. it[{}] = row.meta
    BY <1>5
  <2> QED BY <2>1
<1>7. ASSUME NEW s \in SUBSET S, s # {}
      PROVE  \E x \in s : s \ {x} \in P => s \in P
  <2> DEFINE e == CHOOSE x \in s : TRUE
  <2>1. e \in s
    BY <1>7
  <2>2. it[s] = row.lines[e].price + it[s \ {e}]
    BY <1>5, <1>7
  <2> HIDE DEF e, it, Solves
  <2>3. row.lines[e].price \in Nat
    BY <1>2, <2>1
  <2>4. s \ {e} \in P => s \in P
    BY <2>2, <2>3
  <2> QED BY <2>1, <2>4
<1>8. S \in P
  <2> DEFINE T == {s \in SUBSET S : s \notin P}
  <2> HIDE DEF P
  <2> SUFFICES ASSUME T # {} PROVE FALSE
    OBVIOUS
  <2>1. PICK s \in T : \A y \in T : y \subseteq s => y = s
    <3>1. T \subseteq SUBSET S
      OBVIOUS
    <3> HIDE DEF T
    <3> QED BY <1>2, <3>1, LeastSubset
  <2>2. s \in SUBSET S /\ s # {} /\ s \notin P
    BY <1>6, <2>1
  <2>3. PICK x \in s : s \ {x} \in P => s \in P
    BY <1>7, <2>2
  <2> QED BY <2>1, <2>2, <2>3
<1> HIDE DEF it
<1> QED BY <1>1, <1>8

\* It depends on the lines and the surcharge alone.
LEMMA GrossOfSame ==
    ASSUME NEW r, NEW s, r.lines = s.lines, r.meta = s.meta
    PROVE  Gross(r) = Gross(s)
BY DEF Gross

-----------------------------------------------------------------------------
(* Sets with one element at the most *)

LEMMA HolderMoves ==
    ASSUME NEW S, \A x, y \in S : x = y, NEW T, NEW a, NEW b,
           T \subseteq S \/ (S = {} /\ T \subseteq {b}) \/ (a \in S /\ T \subseteq (S \ {a}) \cup {b})
    PROVE  \A x, y \in T : x = y
OBVIOUS

-----------------------------------------------------------------------------
(* Forms and locks do not change when the commands and the pages do not *)

LEMMA FormsStay ==
    ASSUME PosInv, UNCHANGED <<calls, at, visit, form, busy, broken, forms, visits>>
    PROVE  /\ SettledForms' = SettledForms
           /\ Locks' /\ Forms'
<1>1. \A c : Mine(c)' = Mine(c)
  BY DEF Mine
<1>2. \A t, f : Closing(t, f)' = Closing(t, f)
  BY DEF Closing, Mine
<1>3. SettledForms' = SettledForms
  BY <1>2 DEF SettledForms, Settled
<1>4. Locks'
  BY DEF PosInv, Locks, LockHasACommand, Mine
<1>5. Forms'
  BY <1>3 DEF PosInv, Forms, Mine
<1> QED BY <1>3, <1>4, <1>5

LEMMA ContentOfARow ==
    ASSUME NEW F, NEW B, NEW row \in RowType(F, B)
    PROVE  Content(row) \in ContentType(F, B)
BY DEF Content, RowType, ContentType

\* Nothing new that holds a line.
LEMMA HoldersStay ==
    ASSUME UNCHANGED <<calls, jobs>>, toasts' \subseteq toasts,
           \A d \in Ids : drafts'[d].lines = drafts[d].lines
    PROVE  \A d \in Ids : \A f : Holders(d, f)' \subseteq Holders(d, f)
<1> SUFFICES ASSUME NEW d \in Ids, NEW f PROVE Holders(d, f)' \subseteq Holders(d, f)
  OBVIOUS
<1>1. InDraft(d, f)' = InDraft(d, f) /\ InJob(d, f)' = InJob(d, f)
  BY DEF InDraft, InJob
<1> QED BY <1>1 DEF Holders

LEMMA ReadLoadStep == ASSUME PosInv, NEW l \in loads, LoadIsRead(l) PROVE PosInv'
<1>1. PICK n, F, B : n = created /\ F = SettledForms /\ B = broken
  OBVIOUS
<1> DEFINE got == [l EXCEPT !.state = "answered",
                            !.view = [id |-> l.draft, row |-> Content(drafts[l.draft])]]
<1>2. /\ UNCHANGED <<calls, at, visit, form, busy, broken, forms, visits>>
      /\ UNCHANGED <<drafts, created, shown, toasts, jobs, sent, lost, restored>>
      /\ loads' = (loads \ {l}) \cup {got}
  BY DEF LoadIsRead, rows
<1>3. SettledForms' = SettledForms /\ Locks' /\ Forms'
  BY <1>2, FormsStay
<1>4. PosShape(n, F, B) /\ l \in LoadType(n, F, B) /\ n \in 0..MaxDrafts
  BY <1>1 DEF PosInv, PosShape
<1>5. l.draft \in Ids /\ l.draft \in 1..n
  BY <1>4, PosBounds DEF Ids, LoadType
<1>6. drafts[l.draft] \in RowType(F, B)
  BY <1>4, <1>5 DEF PosShape
<1>7. [id |-> l.draft, row |-> Content(drafts[l.draft])] \in ViewType(n, F, B)
  BY <1>5, <1>6, ContentOfARow DEF ViewType
<1>8. got \in LoadType(n, F, B)
  BY <1>4, <1>7 DEF LoadType
<1> HIDE DEF got
<1>9. PosShape(n, F, B)'
  BY <1>2, <1>4, <1>8 DEF PosShape
<1>10. PosShape(created, SettledForms, broken)'
  BY <1>1, <1>2, <1>3, <1>9
<1>11. OneHolder'
  BY <1>2, HoldersStay DEF PosInv, OneHolder
<1> QED BY <1>2, <1>3, <1>10, <1>11 DEF PosInv, Restoring, CollectedIsReviewed, RestoredIsWhole

LEMMA LoadStep == ASSUME PosInv, NEW l \in loads, LoadArrives(l) PROVE PosInv'
<1>1. PICK n, F, B : n = created /\ F = SettledForms /\ B = broken
  OBVIOUS
<1>2. /\ UNCHANGED <<calls, at, visit, form, busy, broken, forms, visits>>
      /\ UNCHANGED <<drafts, created, toasts, jobs, sent, lost, restored>>
      /\ loads' = loads \ {l}
      /\ shown' = shown \/ shown' = [shown EXCEPT ![l.tab] = l.view]
  BY DEF LoadArrives, rows
<1>3. SettledForms' = SettledForms /\ Locks' /\ Forms'
  BY <1>2, FormsStay
<1>4. PosShape(n, F, B) /\ l \in LoadType(n, F, B)
  BY <1>1 DEF PosInv, PosShape
<1>5. l.view \in ViewType(n, F, B)
  BY <1>4 DEF LoadType
<1>6. shown' \in [Tabs -> ViewType(n, F, B)]
  BY <1>2, <1>4, <1>5 DEF PosShape
<1>7. PosShape(n, F, B)'
  BY <1>2, <1>4, <1>6 DEF PosShape
<1>8. PosShape(created, SettledForms, broken)'
  BY <1>1, <1>2, <1>3, <1>7
<1>9. OneHolder'
  BY <1>2, HoldersStay DEF PosInv, OneHolder
<1> QED BY <1>2, <1>3, <1>8, <1>9 DEF PosInv, Restoring, CollectedIsReviewed, RestoredIsWhole

LEMMA ExpireStep == ASSUME PosInv, NEW toast \in toasts, ToastExpires(toast) PROVE PosInv'
<1>1. /\ UNCHANGED <<calls, at, visit, form, busy, broken, forms, visits>>
      /\ UNCHANGED <<drafts, created, shown, loads, jobs, sent, lost, restored>>
      /\ toasts' = toasts \ {toast}
  BY DEF ToastExpires, rows
<1>2. SettledForms' = SettledForms /\ Locks' /\ Forms'
  BY <1>1, FormsStay
<1>3. PosShape(created, SettledForms, broken)'
  BY <1>1, <1>2 DEF PosInv, PosShape
<1>4. OneHolder'
  BY <1>1, HoldersStay DEF PosInv, OneHolder
<1> QED BY <1>1, <1>2, <1>3, <1>4 DEF PosInv, Restoring, CollectedIsReviewed, RestoredIsWhole

LEMMA RestoreFailsStep == ASSUME PosInv, NEW j \in jobs, RestoreFails(j) PROVE PosInv'
<1>1. /\ UNCHANGED <<calls, at, visit, form, busy, broken, forms, visits>>
      /\ UNCHANGED <<drafts, created, shown, loads, toasts, sent, restored>>
      /\ jobs' = jobs \ {j} /\ lost' = lost + 1
  BY DEF RestoreFails, rows, tab
<1>2. SettledForms' = SettledForms /\ Locks' /\ Forms'
  BY <1>1, FormsStay
<1>3. PosShape(created, SettledForms, broken)'
  BY <1>1, <1>2 DEF PosInv, PosShape
<1>4. \A d, f : Holders(d, f)' \subseteq Holders(d, f)
  <2> SUFFICES ASSUME NEW d, NEW f PROVE Holders(d, f)' \subseteq Holders(d, f)
    OBVIOUS
  <2>1. InDraft(d, f)' = InDraft(d, f) /\ (InJob(d, f)' => InJob(d, f))
    BY <1>1 DEF InDraft, InJob
  <2> QED BY <1>1, <2>1 DEF Holders
<1>5. OneHolder'
  BY <1>1, <1>4 DEF PosInv, OneHolder
<1>6. Restoring'
  BY <1>1 DEF PosInv, Restoring
<1> QED BY <1>1, <1>2, <1>3, <1>5, <1>6 DEF PosInv, CollectedIsReviewed, RestoredIsWhole

-----------------------------------------------------------------------------
(* A row is created: no line of another draft changes *)

LEMMA CreateMakes ==
    ASSUME PosInv, NEW kind \in KindType \ {"none", "COMPLETED", "CONDUCE"}, NEW meta \in {0, 1},
           NEW F, NEW B, SettledForms \subseteq F, broken \subseteq B,
           NEW lines \in LinesType(F, B), Create(kind, lines, meta)
    PROVE  /\ created \in Nat /\ created' = created + 1 /\ created' \in 0..MaxDrafts
           /\ created + 1 \in Ids
           /\ drafts' \in [Ids -> RowType(F, B)]
           /\ drafts'[created + 1].lines = lines
           /\ \A d \in Ids : d # created + 1 => drafts'[d] = drafts[d]
           /\ \A d \in Ids : drafts'[d].kind = "none" <=> d > created'
           /\ CollectedIsReviewed'
<1> DEFINE new == [Unused EXCEPT !.kind = kind, !.lines = lines, !.meta = meta]
<1>1. /\ PosShape(created, SettledForms, broken)
      /\ created \in 0..MaxDrafts /\ created < MaxDrafts /\ created' = created + 1
      /\ drafts' = [drafts EXCEPT ![created + 1] = new]
  BY DEF PosInv, PosShape, Create
<1>2. created \in Nat /\ created' \in 0..MaxDrafts /\ created + 1 \in Ids
  BY <1>1, PosBounds DEF Ids
<1>3. /\ new \in RowType(F, B) /\ new.lines = lines /\ new.kind = kind
  BY DEF RowType, Unused
<1> HIDE DEF new
<1>4. RowType(SettledForms, broken) \subseteq RowType(F, B)
  <2>1. created <= created
    BY <1>2
  <2> QED BY <1>2, <2>1, TypesGrow
<1>5. drafts \in [Ids -> RowType(F, B)]
  BY <1>1, <1>4 DEF PosShape
<1>6. /\ drafts' \in [Ids -> RowType(F, B)]
      /\ drafts'[created + 1] = new
      /\ \A d \in Ids : d # created + 1 => drafts'[d] = drafts[d]
  BY <1>1, <1>2, <1>3, <1>5
<1>7. \A d \in Ids : drafts'[d].kind = "none" <=> d > created'
  <2> TAKE d \in Ids
  <2>1. drafts[d].kind = "none" <=> d > created
    BY <1>1 DEF PosShape
  <2>2. d \in Nat
    BY PosBounds DEF Ids
  <2>3. CASE d = created + 1
    BY <1>1, <1>2, <1>3, <1>6, <2>3
  <2>4. CASE d # created + 1
    BY <1>1, <1>2, <1>6, <2>1, <2>2, <2>4
  <2> QED BY <2>3, <2>4
<1>8. CollectedIsReviewed'
  BY <1>3, <1>6 DEF PosInv, CollectedIsReviewed
<1> QED BY <1>1, <1>2, <1>3, <1>6, <1>7, <1>8

\* Nothing in flight knows a draft that was not there.
LEMMA NothingHolds ==
    ASSUME PosInv, NEW d, d > created, NEW f
    PROVE  /\ \A c \in calls : c.draft # d
           /\ \A x \in toasts : x.draft # d
           /\ \A j \in jobs : j.draft # d
<1>1. created \in Nat /\ PosShape(created, SettledForms, broken)
  BY PosBounds DEF PosInv, PosShape
<1>2. \A x \in 1..created : x # d
  BY <1>1
<1>3. \A c \in calls : c.draft \in 1..created
  BY <1>1 DEF PosShape, CallType
<1>4. \A c \in toasts : c.draft \in 1..created
  BY <1>1 DEF PosShape, ToastType
<1>5. \A c \in jobs : c.draft \in 1..created
  BY <1>1 DEF PosShape, JobType
<1> QED BY <1>2, <1>3, <1>4, <1>5

LEMMA NoLines == ASSUME NEW F, NEW B PROVE <<>> \in LinesType(F, B)
BY DEF LinesType

LEMMA UndoDiscardStep == ASSUME PosInv, NEW toast \in toasts, UndoDiscard(toast) PROVE PosInv'
<1> DEFINE new == [tab |-> toast.tab, back |-> toast.back, draft |-> created + 1,
                   step |-> 0, alone |-> TRUE]
<1>1. PICK n, F, B : n = created /\ F = SettledForms /\ B = broken
  OBVIOUS
<1>2. /\ UNCHANGED <<calls, at, visit, form, busy, broken, forms, visits>>
      /\ UNCHANGED <<shown, loads, sent, lost, restored>>
      /\ Create("DRAFT", <<>>, 0)
      /\ jobs' = jobs \cup {new} /\ toasts' \subseteq toasts
  BY DEF UndoDiscard
<1>3. SettledForms' = SettledForms /\ Locks' /\ Forms'
  BY <1>2, FormsStay
<1>4. /\ created \in Nat /\ created' = created + 1 /\ created' \in 0..MaxDrafts
      /\ created + 1 \in Ids
      /\ drafts' \in [Ids -> RowType(F, B)]
      /\ drafts'[created + 1].lines = <<>>
      /\ \A d \in Ids : d # created + 1 => drafts'[d] = drafts[d]
      /\ \A d \in Ids : drafts'[d].kind = "none" <=> d > created'
      /\ CollectedIsReviewed'
  <2>1. "DRAFT" \in KindType \ {"none", "COMPLETED", "CONDUCE"}
    BY DEF KindType
  <2> QED BY <1>1, <1>2, <2>1, NoLines, CreateMakes
<1>5. PosShape(n + 1, F, B)
  <2>1. PosShape(n, F, B)
    BY <1>1 DEF PosInv
  <2> QED BY <1>1, <1>4, <2>1, ShapeGrows
<1>6. toast \in ToastType(n + 1, F, B) /\ n + 1 \in 1..(n + 1)
  BY <1>1, <1>4, <1>5 DEF PosShape
<1>7. new \in JobType(n + 1, F, B)
  BY <1>1, <1>6 DEF ToastType, JobType
<1> HIDE DEF new
<1>8. PosShape(n + 1, F, B)'
  BY <1>1, <1>2, <1>4, <1>5, <1>7 DEF PosShape
<1>9. PosShape(created, SettledForms, broken)'
  BY <1>1, <1>2, <1>3, <1>4, <1>8
<1>10. \A j \in jobs : j.draft # created + 1
  <2>1. created + 1 > created
    BY <1>4
  <2> QED BY <2>1, NothingHolds
<1>11. /\ new.draft = created + 1 /\ new.step = 0 /\ new.alone /\ new.back = toast.back
  BY DEF new
<1>12. OneHolder'
  <2> SUFFICES ASSUME NEW d \in Ids, NEW f \in (1..forms) \ broken
               PROVE  \A x, y \in Holders(d, f)' : x = y
    BY <1>2 DEF OneHolder
  <2>1. CASE d = created + 1
    <3>1. ~InDraft(d, f)'
      BY <1>4, <2>1 DEF InDraft
    <3>2. /\ \A c \in calls' : c.draft # d
          /\ \A x \in toasts' : x.draft # d
      <4>1. d > created
        BY <1>4, <2>1
      <4> QED BY <1>2, <4>1, NothingHolds
    <3>3. Holders(d, f)' \subseteq {TheJob}
      BY <3>1, <3>2 DEF Holders
    <3> QED BY <3>3
  <2>2. CASE d # created + 1
    <3>1. InDraft(d, f)' = InDraft(d, f)
      BY <1>4, <2>2 DEF InDraft
    <3>2. InJob(d, f)' => InJob(d, f)
      BY <1>2, <1>11, <2>2 DEF InJob
    <3>3. Holders(d, f)' \subseteq Holders(d, f)
      BY <1>2, <3>1, <3>2 DEF Holders
    <3> QED BY <3>3 DEF PosInv, OneHolder
  <2> QED BY <2>1, <2>2
<1>13. Restoring'
  <2>1. \A j, k \in jobs' : j.draft = k.draft => j = k
    BY <1>2, <1>10, <1>11 DEF PosInv, Restoring
  <2>2. \A j \in jobs' : j.step <= Len(j.back.lines) + 1
    <3>1. Len(new.back.lines) \in Nat
      BY <1>7 DEF JobType, BackType, ContentType, LinesType, Unused
    <3> QED BY <1>2, <1>11, <3>1 DEF PosInv, Restoring
  <2>3. ASSUME NEW j \in jobs', j.alone
        PROVE  (\A c \in calls' : c.draft # j.draft) /\ Written(j, drafts[j.draft])'
    <3>1. CASE j = new
      <4>1. created + 1 > created
        BY <1>4
      <4>2. \A c \in calls' : c.draft # created + 1
        BY <1>2, <4>1, NothingHolds
      <4>3. Written(j, drafts[j.draft])'
        BY <1>4, <1>11, <3>1 DEF Written
      <4> QED BY <1>11, <3>1, <4>2, <4>3
    <3>2. CASE j \in jobs
      <4>1. j.draft \in Ids
        <5>1. j.draft \in 1..(n + 1)
          BY <1>5, <3>2 DEF PosShape, JobType
        <5> QED BY <1>1, <1>4, <5>1, PosBounds DEF Ids
      <4>2. drafts'[j.draft] = drafts[j.draft]
        BY <1>4, <1>10, <3>2, <4>1
      <4> QED BY <1>2, <2>3, <3>2, <4>2 DEF PosInv, Restoring, Written
    <3> QED BY <1>2, <3>1, <3>2
  <2> QED BY <2>1, <2>2, <2>3 DEF Restoring
<1> QED BY <1>2, <1>3, <1>4, <1>9, <1>12, <1>13 DEF PosInv, RestoredIsWhole

-----------------------------------------------------------------------------
(* A line is added *)

LEMMA LineAdded ==
    ASSUME NEW F, NEW B, NEW ls \in LinesType(F, B), NEW l \in LineType(F),
           l.form \in B \/ \A k \in 1..Len(ls) : ls[k].form # l.form
    PROVE  /\ Append(ls, l) \in LinesType(F, B)
           /\ Len(ls) \in Nat /\ Len(Append(ls, l)) = Len(ls) + 1
           /\ Append(ls, l)[Len(ls) + 1] = l
           /\ \A k \in 1..Len(ls) : Append(ls, l)[k] = ls[k]
<1>1. ls \in Seq(LineType(F)) /\ Len(ls) \in Nat
  BY DEF LinesType
<1>2. /\ Append(ls, l) \in Seq(LineType(F)) /\ Len(Append(ls, l)) = Len(ls) + 1
      /\ Append(ls, l)[Len(ls) + 1] = l
      /\ \A k \in 1..Len(ls) : Append(ls, l)[k] = ls[k]
  BY <1>1
<1>3. ASSUME NEW i \in 1..(Len(ls) + 1), NEW j \in 1..(Len(ls) + 1),
             Append(ls, l)[i].form = Append(ls, l)[j].form, Append(ls, l)[i].form \notin B
      PROVE  i = j
  <2>1. (i \in 1..Len(ls) \/ i = Len(ls) + 1) /\ (j \in 1..Len(ls) \/ j = Len(ls) + 1)
    BY <1>1
  <2>2. CASE i \in 1..Len(ls) /\ j \in 1..Len(ls)
    BY <1>2, <1>3, <2>2 DEF LinesType
  <2>3. CASE i = Len(ls) + 1 /\ j \in 1..Len(ls)
    BY <1>2, <1>3, <2>3
  <2>4. CASE i \in 1..Len(ls) /\ j = Len(ls) + 1
    BY <1>2, <1>3, <2>4
  <2> QED BY <2>1, <2>2, <2>3, <2>4
<1> QED BY <1>1, <1>2, <1>3 DEF LinesType

LEMMA RenewedIsALine ==
    ASSUME NEW F, NEW l \in LineType(F), NEW d \in Ids
    PROVE  /\ Renewed(l, d) \in LineType(F)
           /\ Renewed(l, d).form = l.form /\ Renewed(l, d).price = l.price
<1>1. MaxCalls \in Nat /\ d \in Nat
  BY PosBounds DEF Ids
<1>2. MaxCalls * d \in Nat
  BY <1>1
<1>3. l.id \in Nat
  BY DEF LineType
<1>4. l.id + MaxCalls * d \in Nat
  BY <1>2, <1>3
<1> QED BY <1>4 DEF Renewed, LineType

-----------------------------------------------------------------------------
(* The row of a draft is replaced *)

LEMMA RowChanges ==
    ASSUME PosInv, NEW F, NEW B, SettledForms \subseteq F, broken \subseteq B,
           NEW d \in Ids, d <= created, NEW row \in RowType(F, B), row.kind # "none",
           (row.kind \in {"COMPLETED", "CONDUCE"} /\ ~Credit)
               => (row.paid = Gross(row) /\ row.paid = row.reviewed),
           Set(d, row)
    PROVE  /\ created' = created /\ created \in Nat /\ created \in 0..MaxDrafts
           /\ drafts' \in [Ids -> RowType(F, B)]
           /\ drafts'[d] = row
           /\ \A e \in Ids : e # d => drafts'[e] = drafts[e]
           /\ \A e \in Ids : drafts'[e].kind = "none" <=> e > created'
           /\ CollectedIsReviewed'
<1>1. /\ PosShape(created, SettledForms, broken)
      /\ created \in 0..MaxDrafts /\ created' = created
      /\ drafts' = [drafts EXCEPT ![d] = row]
  BY DEF PosInv, PosShape, Set
<1>2. created \in Nat /\ d \in Nat
  BY <1>1, PosBounds DEF Ids
<1>3. RowType(SettledForms, broken) \subseteq RowType(F, B)
  <2>1. created <= created
    BY <1>2
  <2> QED BY <1>2, <2>1, TypesGrow
<1>4. drafts \in [Ids -> RowType(F, B)]
  BY <1>1, <1>3 DEF PosShape
<1>5. /\ drafts' \in [Ids -> RowType(F, B)]
      /\ drafts'[d] = row
      /\ \A e \in Ids : e # d => drafts'[e] = drafts[e]
  BY <1>1, <1>4
<1>6. \A e \in Ids : drafts'[e].kind = "none" <=> e > created'
  <2> TAKE e \in Ids
  <2>1. drafts[e].kind = "none" <=> e > created
    BY <1>1 DEF PosShape
  <2>2. ~(d > created)
    BY <1>2
  <2> QED BY <1>1, <1>5, <2>1, <2>2
<1>7. CollectedIsReviewed'
  BY <1>5 DEF PosInv, CollectedIsReviewed
<1> QED BY <1>1, <1>2, <1>5, <1>6, <1>7

\* A row of a type, and a draft that was created.
LEMMA RowIs ==
    ASSUME PosInv, NEW d \in 1..created
    PROVE  /\ d \in Ids /\ d \in Nat /\ d <= created /\ created \in Nat
           /\ Row(d) \in RowType(SettledForms, broken)
           /\ Row(d).lines \in LinesType(SettledForms, broken)
           /\ drafts[d] = Row(d)
<1>1. PosShape(created, SettledForms, broken) /\ created \in 0..MaxDrafts
  BY DEF PosInv, PosShape
<1>2. d \in Ids /\ d \in Nat /\ d <= created /\ created \in Nat
  BY <1>1, PosBounds DEF Ids
<1>3. Row(d) \in RowType(SettledForms, broken)
  BY <1>1, <1>2 DEF PosShape, Row
<1> QED BY <1>2, <1>3 DEF Row, RowType

\* The lines that can be brought back.
LEMMA BackIs ==
    ASSUME NEW F, NEW B, NEW b \in BackType(F, B)
    PROVE  b.lines \in LinesType(F, B) /\ b.meta \in {0, 1} /\ b.lines \in Seq(LineType(F))
<1>1. b.lines \in LinesType(F, B) /\ b.meta \in {0, 1}
  BY NoLines DEF BackType, ContentType, Unused
<1> QED BY <1>1 DEF LinesType

LEMMA RestoreOneStep == ASSUME PosInv, NEW j \in jobs, RestoreStep(j) PROVE PosInv'
<1> DEFINE d == j.draft
           b == j.back
           next == [j EXCEPT !.step = @ + 1]
           l == Renewed(j.back.lines[j.step], j.draft)
<1>1. PICK n, F, B : n = created /\ F = SettledForms /\ B = broken
  OBVIOUS
<1>2. /\ UNCHANGED <<calls, at, visit, form, busy, broken, forms, visits>>
      /\ UNCHANGED <<shown, loads, toasts, sent, lost, restored>>
      /\ jobs' = (jobs \ {j}) \cup {next}
      /\ j.step <= Len(b.lines) /\ Editable(Row(d))
      /\ Set(d, IF j.step = 0 THEN [Row(d) EXCEPT !.meta = b.meta]
                ELSE [Row(d) EXCEPT !.lines = Append(Row(d).lines, l)])
  BY DEF RestoreStep, tab
<1>3. SettledForms' = SettledForms /\ Locks' /\ Forms'
  BY <1>2, FormsStay
<1>4. PosShape(n, F, B) /\ j \in JobType(n, F, B)
  BY <1>1 DEF PosInv, PosShape
<1>5. /\ d \in 1..created /\ j.step \in Nat /\ b \in BackType(F, B) /\ j.alone \in BOOLEAN
      /\ next \in JobType(n, F, B)
      /\ next.draft = d /\ next.back = b /\ next.step = j.step + 1 /\ next.alone = j.alone
  BY <1>1, <1>4 DEF JobType
<1> HIDE DEF next
<1>6. /\ b.lines \in LinesType(F, B) /\ b.lines \in Seq(LineType(F)) /\ b.meta \in {0, 1}
      /\ Len(b.lines) \in Nat
  BY <1>5, BackIs
<1>7. /\ d \in Ids /\ d <= created /\ Row(d) \in RowType(F, B)
      /\ Row(d).lines \in LinesType(F, B) /\ drafts[d] = Row(d)
  BY <1>1, <1>5, RowIs
<1>8. Row(d).kind \in {"DRAFT", "QUOTE_DRAFT"}
  BY <1>2 DEF Editable
<1>9. ASSUME NEW f \in (1..forms) \ broken PROVE \A x, y \in Holders(d, f) : x = y
  BY <1>7 DEF PosInv, OneHolder
<1>10. \A x \in jobs : x.draft = d => x = j
  BY DEF PosInv, Restoring
<1>11. ASSUME j.step # 0
       PROVE  /\ j.step \in 1..Len(b.lines) /\ b.lines[j.step] \in LineType(F) /\ l \in LineType(F)
              /\ l.form = b.lines[j.step].form /\ l.price = b.lines[j.step].price
              /\ l.form \in broken \/ (l.form \in (1..forms) \ broken /\ ~InDraft(d, l.form)
                                         /\ TheJob \in Holders(d, l.form))
  <2>1. j.step \in 1..Len(b.lines)
    BY <1>2, <1>5, <1>6, <1>11
  <2>2. b.lines[j.step] \in LineType(F)
    BY <1>6, <2>1
  <2>3. l \in LineType(F) /\ l.form = b.lines[j.step].form /\ l.price = b.lines[j.step].price
    BY <1>7, <2>2, RenewedIsALine
  <2>4. l.form \in F /\ l.form \in 1..forms
    BY <1>1, <2>3 DEF LineType, SettledForms
  <2> HIDE DEF l
  <2>5. ASSUME l.form \notin broken
        PROVE  ~InDraft(d, l.form) /\ TheJob \in Holders(d, l.form)
    <3>1. InJob(d, l.form)
      BY <1>5, <2>1, <2>3 DEF InJob
    <3>2. TheJob \in Holders(d, l.form)
      BY <3>1 DEF Holders
    <3>3. InDraft(d, l.form) => TheDraft \in Holders(d, l.form)
      BY DEF Holders
    <3>4. TheDraft # TheJob
      BY DEF TheDraft, TheJob
    <3> QED BY <1>9, <2>4, <2>5, <3>2, <3>3, <3>4
  <2> QED BY <2>1, <2>2, <2>3, <2>4, <2>5
<1> HIDE DEF l
<1>12. PICK row : /\ Set(d, row) /\ row \in RowType(F, B) /\ row.kind = Row(d).kind
                  /\ j.step = 0 => row.lines = Row(d).lines /\ row.meta = b.meta
                  /\ j.step # 0 => row.lines = Append(Row(d).lines, l) /\ row.meta = Row(d).meta
  <2>1. CASE j.step = 0
    <3>1. Set(d, [Row(d) EXCEPT !.meta = b.meta])
      BY <1>2, <2>1
    <3>2. [Row(d) EXCEPT !.meta = b.meta] \in RowType(F, B)
      BY <1>6, <1>7 DEF RowType
    <3>3. [Row(d) EXCEPT !.meta = b.meta].kind = Row(d).kind
          /\ [Row(d) EXCEPT !.meta = b.meta].lines = Row(d).lines
          /\ [Row(d) EXCEPT !.meta = b.meta].meta = b.meta
      BY <1>7 DEF RowType
    <3> QED BY <2>1, <3>1, <3>2, <3>3
  <2>2. CASE j.step # 0
    <3> DEFINE new == [Row(d) EXCEPT !.lines = Append(Row(d).lines, l)]
    <3>1. Set(d, new)
      BY <1>2, <2>2
    <3>2. l.form \in B \/ \A k \in 1..Len(Row(d).lines) : Row(d).lines[k].form # l.form
      BY <1>1, <1>7, <1>11, <2>2 DEF InDraft
    <3>3. Append(Row(d).lines, l) \in LinesType(F, B)
      BY <1>7, <1>11, <2>2, <3>2, LineAdded
    <3>4. new \in RowType(F, B) /\ new.kind = Row(d).kind
          /\ new.lines = Append(Row(d).lines, l) /\ new.meta = Row(d).meta
      BY <1>7, <3>3 DEF RowType
    <3> HIDE DEF new
    <3> QED BY <2>2, <3>1, <3>4
  <2> QED BY <2>1, <2>2
<1>13. /\ created' = created /\ created \in 0..MaxDrafts
       /\ drafts' \in [Ids -> RowType(F, B)]
       /\ drafts'[d] = row
       /\ \A e \in Ids : e # d => drafts'[e] = drafts[e]
       /\ \A e \in Ids : drafts'[e].kind = "none" <=> e > created'
       /\ CollectedIsReviewed'
  <2>1. row.kind # "none" /\ row.kind \notin {"COMPLETED", "CONDUCE"}
    BY <1>8, <1>12
  <2> QED BY <1>1, <1>7, <1>12, <2>1, RowChanges
<1>14. PosShape(n, F, B)'
  BY <1>2, <1>4, <1>5, <1>13 DEF PosShape
<1>15. PosShape(created, SettledForms, broken)'
  BY <1>1, <1>2, <1>3, <1>13, <1>14
<1>16. Row(d).lines \in Seq(LineType(F)) /\ Len(Row(d).lines) \in Nat
  BY <1>7 DEF LinesType
<1>17. OneHolder'
  <2> SUFFICES ASSUME NEW e \in Ids, NEW f \in (1..forms) \ broken
               PROVE  \A x, y \in Holders(e, f)' : x = y
    BY <1>2 DEF OneHolder
  <2>1. InJob(e, f)' => InJob(e, f)
    BY <1>2, <1>5 DEF InJob
  <2>2. CASE e # d
    <3>1. InDraft(e, f)' = InDraft(e, f)
      BY <1>13, <2>2 DEF InDraft
    <3>2. Holders(e, f)' \subseteq Holders(e, f)
      BY <1>2, <2>1, <3>1 DEF Holders
    <3> QED BY <3>2 DEF PosInv, OneHolder
  <2>3. CASE e = d /\ (j.step = 0 \/ l.form # f)
    <3>1. InDraft(e, f)' => InDraft(e, f)
      <4>1. CASE j.step = 0
        BY <1>7, <1>12, <1>13, <2>3, <4>1 DEF InDraft
      <4>2. CASE j.step # 0 /\ l.form # f
        <5>1. drafts'[d].lines = Append(Row(d).lines, l)
          BY <1>12, <1>13, <4>2
        <5>2. \A k \in 1..Len(drafts'[d].lines) :
                 \/ k \in 1..Len(Row(d).lines) /\ drafts'[d].lines[k] = Row(d).lines[k]
                 \/ drafts'[d].lines[k] = l
          BY <1>11, <1>16, <4>2, <5>1
        <5> QED BY <1>7, <2>3, <4>2, <5>2 DEF InDraft
      <4> QED BY <2>3, <4>1, <4>2
    <3>2. Holders(e, f)' \subseteq Holders(e, f)
      BY <1>2, <2>1, <3>1 DEF Holders
    <3> QED BY <3>2 DEF PosInv, OneHolder
  <2>4. CASE e = d /\ j.step # 0 /\ l.form = f
    <3>1. TheJob \in Holders(e, f)
      BY <1>11, <2>4
    <3>2. ~InJob(e, f)'
      <4> SUFFICES ASSUME NEW x \in jobs', x.draft = d, NEW i \in 1..Len(x.back.lines),
                          i >= x.step, x.back.lines[i].form = f
                   PROVE  FALSE
        BY <2>4 DEF InJob
      <4>1. x = next
        BY <1>2, <1>10
      <4>2. i \in 1..Len(b.lines) /\ i >= j.step + 1 /\ b.lines[i].form = b.lines[j.step].form
            /\ b.lines[i].form \notin B
        BY <1>1, <1>5, <1>11, <2>4, <4>1
      <4>3. i = j.step
        BY <1>6, <1>11, <2>4, <4>2 DEF LinesType
      <4> QED BY <1>5, <4>2, <4>3
    <3>3. Holders(e, f)' \subseteq (Holders(e, f) \ {TheJob}) \cup {TheDraft}
      <4>1. \A x : TheCall(x) # TheJob /\ TheToast(x) # TheJob
        BY DEF TheCall, TheToast, TheJob
      <4> QED BY <1>2, <3>2, <4>1 DEF Holders
    <3>4. \A x, y \in Holders(e, f) : x = y
      BY <1>9, <2>4
    <3> QED BY <3>1, <3>3, <3>4
  <2> QED BY <2>2, <2>3, <2>4
<1>18. Restoring'
  <2>1. \A x, k \in jobs' : x.draft = k.draft => x = k
    BY <1>2, <1>5, <1>10 DEF PosInv, Restoring
  <2>2. next.step <= Len(next.back.lines) + 1
    BY <1>2, <1>5, <1>6
  <2>3. \A x \in jobs' : x.step <= Len(x.back.lines) + 1
    BY <1>2, <2>2 DEF PosInv, Restoring
  <2>4. ASSUME NEW x \in jobs', x.alone
        PROVE  (\A c \in calls' : c.draft # x.draft) /\ Written(x, drafts[x.draft])'
    <3>1. CASE x = next
      <4>1. (\A c \in calls : c.draft # d) /\ Written(j, Row(d))
        BY <1>5, <1>7, <2>4, <3>1 DEF PosInv, Restoring
      <4>2. Written(next, row)
        <5>1. CASE j.step = 0
          BY <1>5, <1>6, <1>12, <4>1, <5>1 DEF Written
        <5>2. CASE j.step # 0
          <6>1. /\ Len(Row(d).lines) = j.step - 1 /\ row.lines = Append(Row(d).lines, l)
                /\ Len(row.lines) = j.step
            BY <1>5, <1>12, <1>16, <4>1, <5>2 DEF Written
          <6>2. ASSUME NEW i \in 1..Len(row.lines)
                PROVE  i <= Len(b.lines) /\ row.lines[i].price = b.lines[i].price
            <7>1. CASE i \in 1..Len(Row(d).lines)
              BY <1>16, <4>1, <6>1, <7>1 DEF Written
            <7>2. CASE i = j.step
              BY <1>11, <1>16, <5>2, <6>1, <7>2
            <7> QED BY <1>5, <5>2, <6>1, <7>1, <7>2
          <6>3. row.meta = b.meta
            BY <1>12, <4>1, <5>2 DEF Written
          <6> QED BY <1>5, <5>2, <6>1, <6>2, <6>3 DEF Written
        <5> QED BY <5>1, <5>2
      <4>3. x.draft = d /\ drafts'[d] = row
        BY <1>5, <1>13, <3>1
      <4>4. Written(x, drafts[x.draft])'
        BY <3>1, <4>2, <4>3 DEF Written
      <4> QED BY <1>2, <4>1, <4>3, <4>4
    <3>2. CASE x \in jobs /\ x # j
      <4>1. x.draft # d /\ x.draft \in Ids
        BY <1>4, <1>10, <1>1, <3>2, RowIs DEF PosShape, JobType
      <4>2. drafts'[x.draft] = drafts[x.draft]
        BY <1>13, <4>1
      <4> QED BY <1>2, <2>4, <3>2, <4>2 DEF PosInv, Restoring, Written
    <3> QED BY <1>2, <3>1, <3>2
  <2> QED BY <2>1, <2>3, <2>4 DEF Restoring
<1> QED BY <1>2, <1>3, <1>13, <1>15, <1>17, <1>18 DEF PosInv, RestoredIsWhole

-----------------------------------------------------------------------------
(* A command changes state: it is executed, refused or lost *)

Reply(c, s, v) == [c EXCEPT !.state = s, !.view = v]

LEMMA ReplyIs ==
    ASSUME PosInv, NEW c \in calls, NEW s, NEW v, NEW r, r = Reply(c, s, v)
    PROVE  /\ r.state = s /\ r.view = v /\ r.op = c.op /\ r.draft = c.draft /\ r.form = c.form
           /\ r.line = c.line /\ r.tab = c.tab /\ r.mounted = c.mounted /\ r.price = c.price
           /\ r.reviewed = c.reviewed
           /\ \A m, F, B : c \in CallType(m, F, B) /\ v \in ViewType(m, F, B)
                 /\ s \in {"sent", "ok", "refused", "broken"} => r \in CallType(m, F, B)
<1>1. PICK n, F, B : c \in CallType(n, F, B)
  BY DEF PosInv, PosShape
<1>2. /\ r.state = s /\ r.view = v /\ r.op = c.op /\ r.draft = c.draft /\ r.form = c.form
      /\ r.line = c.line /\ r.tab = c.tab /\ r.mounted = c.mounted /\ r.price = c.price
      /\ r.reviewed = c.reviewed
  BY <1>1 DEF Reply, CallType
<1>3. ASSUME NEW m, NEW G, NEW C, c \in CallType(m, G, C), v \in ViewType(m, G, C),
             s \in {"sent", "ok", "refused", "broken"}
      PROVE  r \in CallType(m, G, C)
  BY <1>3 DEF Reply, CallType
<1> QED BY <1>2, <1>3

Answered(c, s, v) ==
    /\ calls' = (calls \ {c}) \cup {Reply(c, s, v)}
    /\ UNCHANGED <<at, visit, form, busy, forms, visits>>
    /\ \/ s \in {"ok", "refused"} /\ c.state = "sent" /\ broken' = broken
       \/ s = "broken" /\ c.state # "broken" /\ broken' = broken \cup {c.form}

LEMMA ReplyForms ==
    ASSUME PosInv, NEW c \in calls, NEW s, NEW v, Answered(c, s, v), s = "ok" => v # Loading
    PROVE  /\ SettledForms \subseteq SettledForms' /\ broken \subseteq broken'
           /\ s = "ok" /\ c.op = "add" => c.form \in SettledForms'
           /\ Locks' /\ Forms'
<1>1. PICK r : r = Reply(c, s, v)
  OBVIOUS
<1>2. /\ r.state = s /\ r.view = v /\ r.op = c.op /\ r.draft = c.draft /\ r.form = c.form
      /\ r.line = c.line /\ r.tab = c.tab /\ r.mounted = c.mounted /\ r.price = c.price
      /\ r.reviewed = c.reviewed
  BY <1>1, ReplyIs
<1>3. /\ calls' = (calls \ {c}) \cup {r}
      /\ UNCHANGED <<at, visit, form, busy, forms, visits>>
      /\ broken \subseteq broken'
  BY <1>1 DEF Answered
<1>4. \/ s \in {"ok", "refused"} /\ c.state = "sent" /\ broken' = broken
      \/ s = "broken" /\ c.state # "broken" /\ broken' = broken \cup {c.form}
  BY DEF Answered
<1>5. /\ \A x : Mine(x)' = Mine(x)
      /\ Mine(r) = Mine(c)
  BY <1>2, <1>3 DEF Mine
<1>6. /\ \A x \in calls : x.form \in Nat /\ x.form <= forms /\ (x.op = "add" => x.form # 0)
      /\ forms \in Nat
      /\ \A x, e \in calls :
          x.op = "add" /\ e.op = "add" /\ x.form = e.form /\ x.form \notin broken => x = e
  BY PosBounds DEF PosInv, PosShape, CallType, Forms
<1>7. SettledForms \subseteq SettledForms'
  <2> SUFFICES ASSUME NEW f \in 1..forms, Settled(f), f \notin broken'
               PROVE  Settled(f)'
    BY <1>3 DEF SettledForms, Settled
  <2>1. /\ \A x \in calls : x.op = "add" /\ x.form = f => x.state = "ok"
        /\ \A t \in Tabs : at[t] # 0 /\ form[t] = f => Closing(t, f)
    BY <1>3 DEF Settled
  <2>2. ~(c.op = "add" /\ c.form = f)
    BY <1>4, <2>1
  <2>3. \A x \in calls' : x.op = "add" /\ x.form = f => x.state = "ok"
    BY <1>2, <1>3, <2>1, <2>2
  <2>4. \A t \in Tabs : Closing(t, f) => Closing(t, f)'
    BY <1>3, <1>5, <2>2 DEF Closing
  <2> QED BY <1>3, <2>1, <2>3, <2>4 DEF Settled
<1>8. ASSUME s = "ok", c.op = "add" PROVE c.form \in SettledForms'
  <2>1. c.form \in 1..forms
    BY <1>6, <1>8
  <2>2. CASE c.form \in broken
    BY <1>3, <2>1, <2>2 DEF SettledForms, Settled
  <2>3. CASE c.form \notin broken
    <3>1. \A x \in calls' : x.op = "add" /\ x.form = c.form => x.state = "ok"
      BY <1>2, <1>3, <1>6, <1>8, <2>3
    <3>2. ASSUME NEW t \in Tabs, at[t] # 0, form[t] = c.form PROVE Closing(t, c.form)'
      <4>1. c.tab = t /\ Mine(c)
        BY <1>8, <2>1, <2>3, <3>2 DEF PosInv, Forms
      <4>2. r \in calls' /\ r.tab = t /\ Mine(r)' /\ r.op = "add" /\ r.form = c.form /\ r.state = "ok"
        BY <1>2, <1>3, <1>5, <1>8, <4>1
      <4> QED BY <4>2 DEF Closing
    <3> QED BY <1>3, <2>1, <3>1, <3>2 DEF SettledForms, Settled
  <2> QED BY <2>2, <2>3
<1>9. Locks'
  <2>1. LockHasACommand'
    <3> SUFFICES ASSUME NEW t \in Tabs, busy[t], at[t] # 0
                 PROVE  \E x \in calls' : x.tab = t /\ Mine(x)
      BY <1>3, <1>5 DEF LockHasACommand
    <3>1. PICK x \in calls : x.tab = t /\ Mine(x)
      BY DEF PosInv, Locks, LockHasACommand
    <3> QED BY <1>2, <1>3, <1>5, <3>1
  <2>2. \A x \in calls' : x.mounted <= visits /\ (Mine(x) => busy[x.tab])
    BY <1>2, <1>3, <1>5 DEF PosInv, Locks
  <2>3. \A x, e \in calls' : Mine(x) /\ Mine(e) /\ x.tab = e.tab => x = e
    BY <1>2, <1>3, <1>5 DEF PosInv, Locks
  <2> QED BY <1>3, <1>5, <2>1, <2>2, <2>3 DEF PosInv, Locks
<1>10. Forms'
  <2>1. \A x \in calls' :
          /\ x.form <= forms
          /\ x.op = "add" => x.form # 0
          /\ x.op = "undo" => x.form \in SettledForms'
          /\ x.op = "remove" => x.line # NoLine
          /\ x.op = "discard" => x.line = NoLine
          /\ x.state = "ok" => x.view # Loading
          /\ x.op \in {"confirm", "conduce", "convert"} /\ ~Credit => x.price = x.reviewed
    BY <1>2, <1>3, <1>7 DEF PosInv, Forms
  <2>2. \A x, e \in calls' :
          x.op = "add" /\ e.op = "add" /\ x.form = e.form /\ x.form \notin broken' => x = e
    BY <1>2, <1>3, <1>6
  <2>3. ASSUME NEW t \in Tabs, at[t] # 0, form[t] # 0, form[t] \notin broken', NEW x \in calls',
               x.op = "add", x.form = form[t]
        PROVE  x.tab = t /\ Mine(x)
    BY <1>2, <1>3, <1>5, <2>3 DEF PosInv, Forms
  <2> QED BY <1>3, <1>5, <2>1, <2>2, <2>3 DEF PosInv, Forms
<1> QED BY <1>3, <1>7, <1>8, <1>9, <1>10

\* A line of a form that is not settled is nowhere yet.
LEMMA HoldersSettled ==
    ASSUME PosInv, NEW d \in Ids, NEW f, f # 0, f \notin SettledForms
    PROVE  Holders(d, f) = {}
<1>1. PICK n, F, B : n = created /\ F = SettledForms /\ B = broken
  OBVIOUS
<1>2. PosShape(n, F, B)
  BY <1>1 DEF PosInv
<1>3. ~InDraft(d, f)
  <2>1. drafts[d].lines \in Seq(LineType(F))
    BY <1>2 DEF PosShape, RowType, LinesType
  <2>2. \A k \in 1..Len(drafts[d].lines) : drafts[d].lines[k].form \in F
    <3> TAKE k \in 1..Len(drafts[d].lines)
    <3>1. drafts[d].lines[k] \in LineType(F)
      BY <2>1, ElementOfSeq
    <3> QED BY <3>1 DEF LineType
  <2> QED BY <1>1, <2>2 DEF InDraft
<1>4. ~InJob(d, f)
  <2>1. ASSUME NEW j \in jobs, NEW i \in 1..Len(j.back.lines) PROVE j.back.lines[i].form \in F
    <3>1. j.back \in BackType(F, B)
      BY <1>2 DEF PosShape, JobType
    <3>2. j.back.lines \in Seq(LineType(F))
      BY <3>1, BackIs
    <3>3. j.back.lines[i] \in LineType(F)
      BY <3>2, ElementOfSeq
    <3> QED BY <3>3 DEF LineType
  <2> QED BY <1>1, <2>1 DEF InJob
<1>5. \A c \in calls : ~Holds(c, f)
  <2> SUFFICES ASSUME NEW c \in calls, Holds(c, f) PROVE FALSE
    OBVIOUS
  <2>1. c.line \in {NoLine} \cup LineType(F)
    BY <1>2 DEF PosShape, CallType
  <2>2. (c.op = "undo" => c.form \in F) /\ (c.op = "remove" => c.line # NoLine)
    BY <1>1 DEF PosInv, Forms
  <2> QED BY <1>1, <2>1, <2>2 DEF Holds, LineType
<1>6. \A x \in toasts : x.line.form # f
  <2> TAKE x \in toasts
  <2>1. x.line \in {NoLine} \cup LineType(F)
    BY <1>2 DEF PosShape, ToastType
  <2>2. x.line.form = 0 \/ x.line.form \in F
    BY <2>1 DEF NoLine, LineType
  <2> QED BY <1>1, <2>2
<1> QED BY <1>3, <1>4, <1>5, <1>6 DEF Holders

\* What holds a line after a command was answered.
LEMMA ReplyHolders ==
    ASSUME PosInv, NEW c \in calls, NEW s, NEW v, Answered(c, s, v),
           UNCHANGED <<toasts, jobs>>, NEW d, NEW f, NEW m \in Holders(d, f)'
    PROVE  \/ m = TheDraft /\ InDraft(d, f)'
           \/ m # TheDraft /\ m # TheCall(c) /\ m \in Holders(d, f)
           \/ /\ s = "ok" /\ c.op = "remove" /\ d = c.draft /\ f = c.line.form
              /\ m = TheCall(Reply(c, s, v))
<1>1. PICK r : r = Reply(c, s, v)
  OBVIOUS
<1>2. r.state = s /\ r.op = c.op /\ r.draft = c.draft /\ r.form = c.form /\ r.line = c.line
  BY <1>1, ReplyIs
<1>3. calls' = (calls \ {c}) \cup {r} /\ c.state # s
  BY <1>1 DEF Answered
<1>4. CASE m = TheDraft
  <2>1. InDraft(d, f)'
    BY <1>4 DEF Holders, TheDraft, TheCall, TheToast, TheJob
  <2> QED BY <1>4, <2>1
<1>5. CASE m = TheJob /\ InJob(d, f)'
  <2>1. InJob(d, f)
    BY <1>5 DEF InJob
  <2>2. m \in Holders(d, f)
    BY <1>5, <2>1 DEF Holders
  <2>3. m # TheDraft /\ m # TheCall(c)
    BY <1>5 DEF TheDraft, TheJob, TheCall
  <2> QED BY <2>2, <2>3
<1>6. ASSUME NEW x \in toasts, m = TheToast(x), x.draft = d, x.line.form = f
      PROVE  m # TheDraft /\ m # TheCall(c) /\ m \in Holders(d, f)
  <2>1. m \in Holders(d, f)
    BY <1>6 DEF Holders
  <2>2. m # TheDraft /\ m # TheCall(c)
    BY <1>6 DEF TheDraft, TheToast, TheCall
  <2> QED BY <2>1, <2>2
<1>7. ASSUME NEW x \in calls', m = TheCall(x), x.draft = d, Holds(x, f)
      PROVE  \/ m # TheDraft /\ m # TheCall(c) /\ m \in Holders(d, f)
             \/ /\ s = "ok" /\ c.op = "remove" /\ d = c.draft /\ f = c.line.form
              /\ m = TheCall(Reply(c, s, v))
  <2>1. CASE x = r
    BY <1>1, <1>2, <1>7, <2>1 DEF Holds, Answered
  <2>2. CASE x \in calls /\ x # c
    <3>1. m \in Holders(d, f)
      BY <1>7, <2>2 DEF Holders
    <3>2. m # TheDraft /\ m # TheCall(c)
      BY <1>7, <2>2 DEF TheDraft, TheCall
    <3> QED BY <3>1, <3>2
  <2> QED BY <1>3, <2>1, <2>2
<1>8. \/ m = TheDraft
      \/ m = TheJob /\ InJob(d, f)'
      \/ \E x \in toasts : m = TheToast(x) /\ x.draft = d /\ x.line.form = f
      \/ \E x \in calls' : m = TheCall(x) /\ x.draft = d /\ Holds(x, f)
  BY DEF Holders
<1> QED BY <1>4, <1>5, <1>6, <1>7, <1>8

-----------------------------------------------------------------------------
(* A command is refused or lost *)

LEMMA NothingDone ==
    ASSUME PosInv, NEW c \in calls, NEW s \in {"refused", "broken"}, Answered(c, s, Loading),
           UNCHANGED <<drafts, created, shown, toasts, jobs, loads, sent, restored>>, lost' \in Nat
    PROVE  PosInv'
<1>1. PICK n, F, B : n = created /\ F = SettledForms' /\ B = broken'
  OBVIOUS
<1>2. /\ SettledForms \subseteq SettledForms' /\ broken \subseteq broken' /\ Locks' /\ Forms'
  BY ReplyForms
<1>3. PosShape(n, F, B) /\ n \in 0..MaxDrafts
  <2>1. created \in 0..MaxDrafts /\ PosShape(created, SettledForms, broken)
    BY DEF PosInv, PosShape
  <2>2. created \in Nat /\ created <= created
    BY <2>1, PosBounds
  <2> QED BY <1>1, <1>2, <2>1, <2>2, ShapeGrows
<1>4. /\ calls' = (calls \ {c}) \cup {Reply(c, s, Loading)}
      /\ UNCHANGED <<at, visit, form, busy, forms, visits>>
  BY DEF Answered
<1>5. Loading \in ViewType(n, F, B) /\ c \in CallType(n, F, B)
  BY <1>3 DEF ViewType, PosShape
<1>6. PICK r : r = Reply(c, s, Loading)
  OBVIOUS
<1>7. r \in CallType(n, F, B) /\ r.draft = c.draft
  <2>1. s \in {"sent", "ok", "refused", "broken"}
    OBVIOUS
  <2> QED BY <1>5, <1>6, <2>1, ReplyIs
<1>8. PosShape(n, F, B)'
  BY <1>3, <1>4, <1>6, <1>7 DEF PosShape
<1>9. PosShape(created, SettledForms, broken)'
  BY <1>1, <1>8
<1>10. OneHolder'
  <2> SUFFICES ASSUME NEW d \in Ids, NEW f \in (1..forms) \ broken
               PROVE  Holders(d, f)' \subseteq Holders(d, f)
    BY <1>2, <1>4 DEF PosInv, OneHolder
  <2>1. InDraft(d, f)' => TheDraft \in Holders(d, f)
    BY DEF InDraft, Holders
  <2> QED BY <2>1, ReplyHolders
<1>11. Restoring'
  BY <1>4, <1>6, <1>7 DEF PosInv, Restoring, Written
<1> QED BY <1>2, <1>9, <1>10, <1>11 DEF PosInv, CollectedIsReviewed, RestoredIsWhole

LEMMA RefusedStep == ASSUME PosInv, NEW c \in calls, ServerRefuses(c) PROVE PosInv'
<1>1. /\ c.state = "sent" /\ calls' = Replied(c, "refused", Loading)
      /\ UNCHANGED <<rows, tab, jobs, forms, sent, lost, broken, restored>>
  BY DEF ServerRefuses
<1>2. UNCHANGED <<drafts, created, at, visit, shown, busy, form, toasts, loads, visits, jobs,
                  forms, sent, lost, broken, restored>>
  BY <1>1 DEF rows, tab
<1>3. Answered(c, "refused", Loading)
  BY <1>1, <1>2 DEF Answered, Replied, Reply
<1>4. lost' \in Nat
  BY <1>2 DEF PosInv, PosShape
<1> QED BY <1>2, <1>3, <1>4, NothingDone

LEMMA LostStep == ASSUME PosInv, NEW c \in calls, Lose(c) PROVE PosInv'
<1>1. /\ c.state # "broken" /\ calls' = Replied(c, "broken", Loading)
      /\ broken' = broken \cup {c.form} /\ lost' = lost + 1
      /\ UNCHANGED <<rows, tab, jobs, forms, sent, restored>>
  BY DEF Lose
<1>2. UNCHANGED <<drafts, created, at, visit, shown, busy, form, toasts, loads, visits, jobs,
                  forms, sent, restored>>
  BY <1>1 DEF rows, tab
<1>3. Answered(c, "broken", Loading)
  BY <1>1, <1>2 DEF Answered, Replied, Reply
<1>4. lost' \in Nat
  BY <1>1 DEF PosInv, PosShape
<1> QED BY <1>2, <1>3, <1>4, NothingDone

-----------------------------------------------------------------------------
(* A command is executed *)

\* Where the lines of a form may go: into a new draft, or from the command into its draft.
Brings(c, d, f) ==
    \/ d > created
    \/ d = c.draft /\ f = c.form /\ (c.op = "undo" \/ (c.op = "add" /\ f \notin SettledForms))
\* A line that is removed was there, and is not there any more.
Takes(c) ==
    c.op = "remove" =>
        /\ InDraft(c.draft, c.line.form)
        /\ c.line.form \notin broken => ~InDraft(c.draft, c.line.form)'

LEMMA ExecutedHolders ==
    ASSUME PosInv, NEW c \in calls, c.state = "sent", NEW v, Answered(c, "ok", v),
           UNCHANGED <<toasts, jobs>>, Takes(c), NEW d \in Ids, NEW f \in (1..forms) \ broken,
           InDraft(d, f)' => InDraft(d, f) \/ Brings(c, d, f)
    PROVE  \A x, y \in Holders(d, f)' : x = y
<1>1. \A x, y \in Holders(d, f) : x = y
  BY DEF PosInv, OneHolder
<1>2. InDraft(d, f) <=> TheDraft \in Holders(d, f)
  BY DEF Holders, TheDraft, TheCall, TheToast, TheJob
<1>3. \A m \in Holders(d, f)' :
           \/ m = TheDraft /\ InDraft(d, f)'
           \/ m # TheDraft /\ m # TheCall(c) /\ m \in Holders(d, f)
           \/ /\ c.op = "remove" /\ d = c.draft /\ f = c.line.form
              /\ m = TheCall(Reply(c, "ok", v))
  BY ReplyHolders
<1>4. CASE d > created
  <2>1. \A c2 \in calls : c2.draft # d
    BY <1>4, NothingHolds
  <2>2. (\A x \in toasts : x.draft # d) /\ (\A x \in jobs : x.draft # d)
    BY <1>4, NothingHolds
  <2>3. Holders(d, f) \subseteq {TheDraft}
    BY <2>1, <2>2 DEF Holders, InJob
  <2> QED BY <1>3, <2>1, <2>3
<1>5. CASE c.op = "remove" /\ d = c.draft /\ f = c.line.form
  <2>1. InDraft(d, f) /\ ~InDraft(d, f)'
    BY <1>5 DEF Takes
  <2> QED BY <1>1, <1>2, <1>3, <2>1
<1>6. CASE d = c.draft /\ f = c.form /\ c.op = "undo"
  <2>1. TheCall(c) \in Holders(d, f)
    BY <1>6 DEF Holders, Holds
  <2> QED BY <1>1, <1>3, <1>6, <2>1
<1>7. CASE d = c.draft /\ f = c.form /\ c.op = "add" /\ f \notin SettledForms
  <2>1. Holders(d, f) = {}
    BY <1>7, HoldersSettled
  <2> QED BY <1>3, <1>7, <2>1
<1>8. CASE /\ ~Brings(c, d, f)
           /\ ~(c.op = "remove" /\ d = c.draft /\ f = c.line.form)
  <2>1. \A m \in Holders(d, f)' : m \in Holders(d, f)
    BY <1>2, <1>3, <1>8
  <2> QED BY <1>1, <2>1
<1> QED BY <1>4, <1>5, <1>6, <1>7, <1>8 DEF Brings

LEMMA Executed ==
    ASSUME PosInv, NEW c \in calls, c.state = "sent", NEW e \in 1..created',
           NEW v, v = [id |-> e, row |-> Content(drafts'[e])], Answered(c, "ok", v),
           UNCHANGED <<toasts, jobs, shown, loads, sent, lost, restored>>,
           created \in Nat, created' \in 0..MaxDrafts, created <= created',
           drafts' \in [Ids -> RowType(SettledForms', broken)],
           \A d \in Ids : drafts'[d].kind = "none" <=> d > created',
           CollectedIsReviewed',
           \A d \in 1..created : d # c.draft => drafts'[d] = drafts[d],
           \A d \in Ids, f \in (1..forms) \ broken :
              InDraft(d, f)' => InDraft(d, f) \/ Brings(c, d, f),
           Takes(c)
    PROVE  PosInv'
<1>1. PICK n, F, B : n = created' /\ F = SettledForms' /\ B = broken
  OBVIOUS
<1>2. /\ SettledForms \subseteq SettledForms' /\ Locks' /\ Forms'
  <2>1. v # Loading
    BY DEF Loading
  <2> QED BY <2>1, ReplyForms
<1>3. PosShape(n, F, B) /\ n \in 0..MaxDrafts
  <2>1. PosShape(created, SettledForms, broken)
    BY DEF PosInv
  <2>2. created' \in Nat
    BY PosBounds
  <2> QED BY <1>1, <1>2, <2>1, <2>2, ShapeGrows
<1>4. /\ calls' = (calls \ {c}) \cup {Reply(c, "ok", v)}
      /\ UNCHANGED <<at, visit, form, busy, forms, visits, broken>>
  BY DEF Answered
<1>5. v \in ViewType(n, F, B) /\ c \in CallType(n, F, B)
  <2>1. e \in Ids
    BY PosBounds DEF Ids
  <2>2. Content(drafts'[e]) \in ContentType(F, B)
    BY <1>1, <2>1, ContentOfARow
  <2> QED BY <1>1, <1>3, <2>2 DEF ViewType, PosShape
<1>6. PICK r : r = Reply(c, "ok", v)
  OBVIOUS
<1>7. r \in CallType(n, F, B) /\ r.draft = c.draft
  <2>1. "ok" \in {"sent", "ok", "refused", "broken"}
    OBVIOUS
  <2> QED BY <1>5, <1>6, <2>1, ReplyIs
<1>8. PosShape(n, F, B)'
  BY <1>1, <1>3, <1>4, <1>6, <1>7 DEF PosShape
<1>9. PosShape(created, SettledForms, broken)'
  BY <1>1, <1>4, <1>8
<1>10. OneHolder'
  BY <1>4, ExecutedHolders DEF OneHolder
<1>11. Restoring'
  <2>1. ASSUME NEW j \in jobs, j.alone
        PROVE  (\A x \in calls' : x.draft # j.draft) /\ Written(j, drafts[j.draft])'
    <3>1. (\A x \in calls : x.draft # j.draft) /\ Written(j, drafts[j.draft])
      BY <2>1 DEF PosInv, Restoring
    <3>2. j.draft \in 1..created
      BY DEF PosInv, PosShape, JobType
    <3>3. drafts'[j.draft] = drafts[j.draft]
      BY <3>1, <3>2
    <3> QED BY <1>4, <1>6, <1>7, <3>1, <3>3 DEF Written
  <2> QED BY <2>1 DEF PosInv, Restoring
<1> QED BY <1>2, <1>9, <1>10, <1>11 DEF PosInv, RestoredIsWhole

-----------------------------------------------------------------------------
(* The answer to a command that was executed, whatever it was *)
Answers(c, e) ==
    /\ c.state = "sent"
    /\ calls' = Replied(c, "ok", View(e))
    /\ UNCHANGED <<tab, jobs, forms, sent, lost, broken, restored>>

LEMMA AnswerForms ==
    ASSUME PosInv, NEW c \in calls, NEW e, Answers(c, e)
    PROVE  /\ Answered(c, "ok", View(e))
           /\ UNCHANGED <<toasts, jobs, shown, loads, sent, lost, broken, restored>>
           /\ SettledForms \subseteq SettledForms'
           /\ c.op \in {"add", "undo"} => c.form \in SettledForms'
           /\ c \in CallType(created, SettledForms, broken) /\ c.draft \in 1..created
<1>1. UNCHANGED <<at, visit, shown, busy, form, toasts, loads, visits, jobs, forms, sent, lost, broken, restored>>
  BY DEF Answers, tab
<1>2. Answered(c, "ok", View(e))
  BY <1>1 DEF Answers, Answered, Replied, Reply
<1>3. View(e) # Loading
  BY DEF View, Loading
<1>4. /\ SettledForms \subseteq SettledForms'
      /\ c.op = "add" => c.form \in SettledForms'
  BY <1>2, <1>3, ReplyForms
<1>5. c.op = "undo" => c.form \in SettledForms
  BY DEF PosInv, Forms
<1>6. c \in CallType(created, SettledForms, broken) /\ c.draft \in 1..created
  BY DEF PosInv, PosShape, CallType
<1> QED BY <1>1, <1>2, <1>4, <1>5, <1>6

LEMMA RowExecuted ==
    ASSUME PosInv, NEW c \in calls, Answers(c, c.draft),
           NEW row \in RowType(SettledForms', broken), Set(c.draft, row), row.kind # "none",
           (row.kind \in {"COMPLETED", "CONDUCE"} /\ ~Credit)
               => (row.paid = Gross(row) /\ row.paid = row.reviewed),
           \A f \in (1..forms) \ broken, k \in 1..Len(row.lines) :
              row.lines[k].form = f => InDraft(c.draft, f) \/ Brings(c, c.draft, f),
           c.op = "remove" =>
              /\ InDraft(c.draft, c.line.form)
              /\ c.line.form \notin broken => \A k \in 1..Len(row.lines) : row.lines[k].form # c.line.form
    PROVE  PosInv'
<1>1. /\ Answered(c, "ok", View(c.draft))
      /\ UNCHANGED <<toasts, jobs, shown, loads, sent, lost, broken, restored>>
      /\ SettledForms \subseteq SettledForms'
      /\ c.draft \in 1..created
      /\ c.state = "sent"
  BY AnswerForms DEF Answers
<1>2. c.draft \in Ids /\ c.draft <= created
  BY <1>1, RowIs
<1>3. /\ created' = created /\ created \in Nat /\ created \in 0..MaxDrafts
      /\ drafts' \in [Ids -> RowType(SettledForms', broken)]
      /\ drafts'[c.draft] = row
      /\ \A e \in Ids : e # c.draft => drafts'[e] = drafts[e]
      /\ \A e \in Ids : drafts'[e].kind = "none" <=> e > created'
      /\ CollectedIsReviewed'
  <2>1. broken \subseteq broken
    OBVIOUS
  <2> QED BY <1>1, <1>2, <2>1, RowChanges
<1>4. \A d \in 1..created : d # c.draft => drafts'[d] = drafts[d]
  BY <1>3, RowIs
<1>5. ASSUME NEW d \in Ids, NEW f \in (1..forms) \ broken, InDraft(d, f)'
      PROVE  InDraft(d, f) \/ Brings(c, d, f)
  <2>1. CASE d = c.draft
    BY <1>3, <1>5, <2>1 DEF InDraft
  <2>2. CASE d # c.draft
    BY <1>3, <1>5, <2>2 DEF InDraft
  <2> QED BY <2>1, <2>2
<1>6. Takes(c)
  BY <1>3 DEF Takes, InDraft
<1>7. PICK v : v = [id |-> c.draft, row |-> Content(drafts'[c.draft])]
  OBVIOUS
<1>8. Answered(c, "ok", v) /\ c.draft \in 1..created' /\ created' \in 0..MaxDrafts
      /\ created <= created'
  BY <1>1, <1>3, <1>7 DEF View
<1> QED BY <1>1, <1>3, <1>4, <1>5, <1>6, <1>7, <1>8, Executed

-----------------------------------------------------------------------------
(* The commands, one by one *)

LEMMA AddExecuted ==
    ASSUME PosInv, NEW c \in calls, Answers(c, c.draft), c.op \in {"add", "undo"}, AddLine(c)
    PROVE  PosInv'
<1> DEFINE new == [id |-> c.id, form |-> c.form, price |-> c.price]
           row == [Row(c.draft) EXCEPT !.lines = Append(Row(c.draft).lines, new)]
<1>1. PICK F : F = SettledForms'
  OBVIOUS
<1>2. /\ SettledForms \subseteq F /\ c.form \in F /\ c.draft \in 1..created
      /\ c \in CallType(created, SettledForms, broken)
  BY <1>1, AnswerForms
<1>3. /\ c.draft \in Ids /\ created \in Nat
      /\ Row(c.draft) \in RowType(SettledForms, broken)
      /\ Row(c.draft).lines \in LinesType(SettledForms, broken)
      /\ drafts[c.draft] = Row(c.draft)
  BY <1>2, RowIs
<1>4. Row(c.draft) \in RowType(F, broken) /\ Row(c.draft).lines \in LinesType(F, broken)
  <2>1. /\ RowType(SettledForms, broken) \subseteq RowType(F, broken)
        /\ LinesType(SettledForms, broken) \subseteq LinesType(F, broken)
    BY <1>2, RowsGrow
  <2> QED BY <1>3, <2>1
<1>5. new \in LineType(F) /\ new.form = c.form
  BY <1>2 DEF CallType, LineType
<1> HIDE DEF new
<1>6. Set(c.draft, row) /\ Row(c.draft).kind \in {"DRAFT", "QUOTE_DRAFT"}
  BY DEF AddLine, Editable, new
<1>7. ASSUME c.form \notin broken PROVE ~InDraft(c.draft, c.form)
  <2>1. c.form \in 1..forms
    <3>1. c.form \in 0..MaxForms /\ forms \in Nat /\ MaxForms \in Nat
      BY <1>2, PosBounds DEF PosInv, PosShape, CallType
    <3>2. c.form <= forms /\ (c.op = "add" => c.form # 0) /\ (c.op = "undo" => c.form \in SettledForms)
      BY DEF PosInv, Forms
    <3> QED BY <3>1, <3>2 DEF SettledForms
  <2>2. CASE c.op = "add"
    <3>1. c.form \notin SettledForms
      BY <1>7, <2>2 DEF SettledForms, Settled, Answers
    <3>2. Holders(c.draft, c.form) = {}
      BY <1>3, <2>1, <3>1, HoldersSettled
    <3> QED BY <3>2 DEF Holders
  <2>3. CASE c.op = "undo"
    <3>1. TheCall(c) \in Holders(c.draft, c.form)
      BY <2>3 DEF Holders, Holds, Answers
    <3>2. \A x, y \in Holders(c.draft, c.form) : x = y
      BY <1>3, <1>7, <2>1 DEF PosInv, OneHolder
    <3>3. InDraft(c.draft, c.form) => TheDraft \in Holders(c.draft, c.form)
      BY DEF Holders
    <3>4. TheDraft # TheCall(c)
      BY DEF TheDraft, TheCall
    <3> QED BY <3>1, <3>2, <3>3, <3>4
  <2> QED BY <2>2, <2>3
<1>8. new.form \in broken \/ \A k \in 1..Len(Row(c.draft).lines) : Row(c.draft).lines[k].form # new.form
  BY <1>3, <1>5, <1>7 DEF InDraft
<1>9. /\ Append(Row(c.draft).lines, new) \in LinesType(F, broken)
      /\ Len(Row(c.draft).lines) \in Nat
      /\ Len(Append(Row(c.draft).lines, new)) = Len(Row(c.draft).lines) + 1
      /\ Append(Row(c.draft).lines, new)[Len(Row(c.draft).lines) + 1] = new
      /\ \A k \in 1..Len(Row(c.draft).lines) :
           Append(Row(c.draft).lines, new)[k] = Row(c.draft).lines[k]
  BY <1>4, <1>5, <1>8, LineAdded
<1>10. row \in RowType(F, broken) /\ row.kind = Row(c.draft).kind
      /\ row.lines = Append(Row(c.draft).lines, new)
  BY <1>4, <1>9 DEF RowType
<1> HIDE DEF row
<1>11. ASSUME NEW f \in (1..forms) \ broken, NEW k \in 1..Len(row.lines), row.lines[k].form = f
       PROVE  InDraft(c.draft, f) \/ Brings(c, c.draft, f)
  <2>1. CASE k \in 1..Len(Row(c.draft).lines)
    BY <1>3, <1>9, <1>10, <1>11, <2>1 DEF InDraft
  <2>2. CASE k = Len(Row(c.draft).lines) + 1
    <3>1. f = c.form
      BY <1>5, <1>9, <1>10, <1>11, <2>2
    <3>2. c.op = "add" => f \notin SettledForms
      BY <1>11, <3>1 DEF SettledForms, Settled, Answers
    <3> QED BY <3>1, <3>2 DEF Brings
  <2> QED BY <1>9, <1>10, <2>1, <2>2
<1>12. row.kind # "none" /\ row.kind \notin {"COMPLETED", "CONDUCE"} /\ c.op # "remove"
  BY <1>6, <1>10
<1> QED BY <1>1, <1>6, <1>10, <1>11, <1>12, RowExecuted

LEMMA LineRemoved ==
    ASSUME NEW F, NEW B, NEW ls \in LinesType(F, B), NEW i \in 1..Len(ls)
    PROVE  /\ RemoveAt(ls, i) \in LinesType(F, B)
           /\ \A k \in 1..Len(RemoveAt(ls, i)) :
                 \E q \in 1..Len(ls) : q # i /\ RemoveAt(ls, i)[k] = ls[q]
<1> DEFINE rs == RemoveAt(ls, i)
           P(k) == IF k < i THEN k ELSE k + 1
<1>1. ls \in Seq(LineType(F)) /\ Len(ls) \in Nat
  BY DEF LinesType
<1>2. /\ SubSeq(ls, 1, i - 1) \in Seq(LineType(F)) /\ Len(SubSeq(ls, 1, i - 1)) = i - 1
      /\ \A k \in 1..(i - 1) : SubSeq(ls, 1, i - 1)[k] = ls[k]
  BY <1>1
<1>3. /\ SubSeq(ls, i + 1, Len(ls)) \in Seq(LineType(F)) /\ Len(SubSeq(ls, i + 1, Len(ls))) = Len(ls) - i
      /\ \A k \in 1..(Len(ls) - i) : SubSeq(ls, i + 1, Len(ls))[k] = ls[i + k]
  BY <1>1
<1>4. /\ rs \in Seq(LineType(F)) /\ Len(rs) = Len(ls) - 1
      /\ \A k \in 1..Len(rs) : rs[k] = ls[P(k)]
  <2>1. PICK a, b : a = SubSeq(ls, 1, i - 1) /\ b = SubSeq(ls, i + 1, Len(ls))
    OBVIOUS
  <2>2. a \in Seq(LineType(F)) /\ b \in Seq(LineType(F)) /\ Len(a) = i - 1 /\ Len(b) = Len(ls) - i
    BY <1>2, <1>3, <2>1
  <2>3. rs = a \o b
    BY <2>1 DEF RemoveAt
  <2>4. rs \in Seq(LineType(F)) /\ Len(rs) = Len(ls) - 1
    <3>1. a \o b \in Seq(LineType(F)) /\ Len(a \o b) = Len(a) + Len(b)
      BY <2>2, ConcatProperties
    <3> HIDE DEF rs
    <3> QED BY <1>1, <2>2, <2>3, <3>1
  <2>5. ASSUME NEW k \in 1..Len(rs) PROVE rs[k] = ls[P(k)]
    <3>1. CASE k < i
      <4>1. k \in 1..Len(a)
        BY <1>1, <2>2, <2>4, <3>1
      <4>2. rs[k] = a[k]
        BY <2>2, <2>3, <4>1
      <4>3. a[k] = ls[k]
        BY <1>2, <2>1, <2>2, <4>1
      <4> QED BY <3>1, <4>2, <4>3
    <3>2. CASE ~(k < i)
      <4>1. k - (i - 1) \in 1..(Len(ls) - i) /\ k \in Int /\ i \in Int
        BY <1>1, <2>4, <3>2
      <4>2. rs[k] = b[k - (i - 1)]
        BY <1>1, <2>2, <2>3, <2>4, <3>2, <4>1
      <4>3. b[k - (i - 1)] = ls[i + (k - (i - 1))]
        BY <1>3, <2>1, <4>1
      <4>4. i + (k - (i - 1)) = k + 1
        BY <4>1
      <4> QED BY <3>2, <4>2, <4>3, <4>4
    <3> QED BY <3>1, <3>2
  <2> QED BY <2>4, <2>5
<1>5. \A k \in 1..Len(rs) : P(k) \in 1..Len(ls) /\ P(k) # i
  BY <1>1, <1>4
<1>6. \A k, q \in 1..Len(rs) : P(k) = P(q) => k = q
  BY <1>4
<1> HIDE DEF rs, P
<1>7. \A k, q \in 1..Len(rs) : rs[k].form = rs[q].form /\ rs[k].form \notin B => k = q
  BY <1>4, <1>5, <1>6 DEF LinesType
<1>8. rs \in LinesType(F, B)
  BY <1>4, <1>7 DEF LinesType
<1>9. \A k \in 1..Len(rs) : \E q \in 1..Len(ls) : q # i /\ rs[k] = ls[q]
  BY <1>4, <1>5
<1> QED BY <1>8, <1>9 DEF rs

LEMMA RemoveExecuted ==
    ASSUME PosInv, NEW c \in calls, Answers(c, c.draft), c.op = "remove", RemoveLine(c)
    PROVE  PosInv'
<1>1. PICK F : F = SettledForms'
  OBVIOUS
<1>2. SettledForms \subseteq F /\ c.draft \in 1..created
  BY <1>1, AnswerForms
<1>3. /\ Row(c.draft) \in RowType(SettledForms, broken)
      /\ Row(c.draft).lines \in LinesType(SettledForms, broken)
      /\ drafts[c.draft] = Row(c.draft)
  BY <1>2, RowIs
<1>4. Row(c.draft) \in RowType(F, broken) /\ Row(c.draft).lines \in LinesType(F, broken)
  <2>1. /\ RowType(SettledForms, broken) \subseteq RowType(F, broken)
        /\ LinesType(SettledForms, broken) \subseteq LinesType(F, broken)
    BY <1>2, RowsGrow
  <2> QED BY <1>3, <2>1
<1>5. PICK i \in DOMAIN Row(c.draft).lines :
        /\ Row(c.draft).lines[i] = c.line
        /\ Set(c.draft, [Row(c.draft) EXCEPT !.lines = RemoveAt(Row(c.draft).lines, i)])
  BY DEF RemoveLine
<1> DEFINE row == [Row(c.draft) EXCEPT !.lines = RemoveAt(Row(c.draft).lines, i)]
<1>6. i \in 1..Len(Row(c.draft).lines)
  BY <1>4, <1>5 DEF LinesType
<1>7. /\ RemoveAt(Row(c.draft).lines, i) \in LinesType(F, broken)
      /\ \A k \in 1..Len(RemoveAt(Row(c.draft).lines, i)) : \E q \in 1..Len(Row(c.draft).lines) :
            q # i /\ RemoveAt(Row(c.draft).lines, i)[k] = Row(c.draft).lines[q]
  BY <1>4, <1>6, LineRemoved
<1>8. row \in RowType(F, broken) /\ row.kind = Row(c.draft).kind
      /\ row.lines = RemoveAt(Row(c.draft).lines, i)
  BY <1>4, <1>7 DEF RowType
<1>9. Row(c.draft).kind \in {"DRAFT", "QUOTE_DRAFT"} /\ Set(c.draft, row)
  BY <1>5 DEF RemoveLine, Editable
<1> HIDE DEF row
<1>10. ASSUME NEW f \in (1..forms) \ broken, NEW k \in 1..Len(row.lines), row.lines[k].form = f
      PROVE  InDraft(c.draft, f)
  BY <1>3, <1>7, <1>8, <1>10 DEF InDraft
<1>11. InDraft(c.draft, c.line.form)
  BY <1>3, <1>5, <1>6 DEF InDraft
<1>12. ASSUME c.line.form \notin broken, NEW k \in 1..Len(row.lines), row.lines[k].form = c.line.form
       PROVE  FALSE
  <2>1. PICK q \in 1..Len(Row(c.draft).lines) : q # i /\ row.lines[k] = Row(c.draft).lines[q]
    BY <1>7, <1>8
  <2> QED BY <1>4, <1>5, <1>6, <1>12, <2>1 DEF LinesType
<1>13. row.kind # "none" /\ row.kind \notin {"COMPLETED", "CONDUCE"}
  BY <1>8, <1>9
<1> QED BY <1>1, <1>8, <1>9, <1>10, <1>11, <1>12, <1>13, RowExecuted

LEMMA UpdateExecuted ==
    ASSUME PosInv, NEW c \in calls, Answers(c, c.draft), c.op = "update", UpdateLine(c)
    PROVE  PosInv'
<1> DEFINE ls == Row(c.draft).lines
           new == [c.line EXCEPT !.price = c.price]
           ns == ReplaceAll(Row(c.draft).lines, c.line, new)
           row == [Row(c.draft) EXCEPT !.lines = ns]
<1>1. PICK F : F = SettledForms'
  OBVIOUS
<1>2. SettledForms \subseteq F /\ c.draft \in 1..created /\ c \in CallType(created, SettledForms, broken)
  BY <1>1, AnswerForms
<1>3. /\ Row(c.draft) \in RowType(SettledForms, broken)
      /\ ls \in LinesType(SettledForms, broken)
      /\ drafts[c.draft] = Row(c.draft)
  BY <1>2, RowIs
<1>4. Row(c.draft) \in RowType(F, broken) /\ ls \in LinesType(F, broken)
  <2>1. /\ RowType(SettledForms, broken) \subseteq RowType(F, broken)
        /\ LinesType(SettledForms, broken) \subseteq LinesType(F, broken)
    BY <1>2, RowsGrow
  <2> QED BY <1>3, <2>1
<1>5. /\ c.line \in ToSet(ls) /\ Row(c.draft).kind \in {"DRAFT", "QUOTE_DRAFT"}
      /\ Set(c.draft, row)
  BY DEF UpdateLine, HasLine, Editable
<1>6. ls \in Seq(LineType(F)) /\ Len(ls) \in Nat
  BY <1>4 DEF LinesType
<1>7. c.line \in LineType(F)
  BY <1>5, <1>6 DEF ToSet
<1>8. new \in LineType(F) /\ new.form = c.line.form
  BY <1>2, <1>7 DEF LineType, CallType
<1> HIDE DEF new
<1>9. ns \in Seq(LineType(F)) /\ Len(ns) = Len(ls) /\ \A k \in 1..Len(ls) : ns[k].form = ls[k].form
  <2>1. ns = [k \in 1..Len(ls) |-> IF ls[k] = c.line THEN new ELSE ls[k]]
    BY DEF ReplaceAll
  <2>2. \A k \in 1..Len(ls) : ls[k] \in LineType(F)
    BY <1>6
  <2> HIDE DEF ls, ns
  <2> QED BY <1>6, <1>8, <2>1, <2>2
<1> HIDE DEF ns
<1>10. ns \in LinesType(F, broken)
  BY <1>4, <1>9 DEF LinesType
<1>11. row \in RowType(F, broken) /\ row.kind = Row(c.draft).kind /\ row.lines = ns
  BY <1>4, <1>10 DEF RowType
<1> HIDE DEF row
<1>12. ASSUME NEW f \in (1..forms) \ broken, NEW k \in 1..Len(row.lines), row.lines[k].form = f
       PROVE  InDraft(c.draft, f)
  BY <1>3, <1>9, <1>11, <1>12 DEF InDraft
<1>13. row.kind # "none" /\ row.kind \notin {"COMPLETED", "CONDUCE"} /\ c.op # "remove"
  BY <1>5, <1>11
<1> QED BY <1>1, <1>5, <1>11, <1>12, <1>13, RowExecuted

\* A command that leaves the lines of its draft as they are, or empties it.
LEMMA NoLineExecuted ==
    ASSUME PosInv, NEW c \in calls, Answers(c, c.draft), c.op # "remove",
           NEW row \in RowType(SettledForms, broken), Set(c.draft, row), row.kind # "none",
           (row.kind \in {"COMPLETED", "CONDUCE"} /\ ~Credit)
               => (row.paid = Gross(row) /\ row.paid = row.reviewed),
           row.lines = Row(c.draft).lines \/ row.lines = <<>>
    PROVE  PosInv'
<1>1. SettledForms \subseteq SettledForms' /\ c.draft \in 1..created
  BY AnswerForms
<1>2. row \in RowType(SettledForms', broken)
  BY <1>1, RowsGrow
<1>3. \A f \in (1..forms) \ broken, k \in 1..Len(row.lines) :
              row.lines[k].form = f => InDraft(c.draft, f) \/ Brings(c, c.draft, f)
  BY DEF InDraft, Row
<1> QED BY <1>2, <1>3, RowExecuted

LEMMA MetaExecuted ==
    ASSUME PosInv, NEW c \in calls, Answers(c, c.draft), c.op = "meta", UpdateMeta(c)
    PROVE  PosInv'
<1> DEFINE row == [Row(c.draft) EXCEPT !.meta = 1 - Row(c.draft).meta]
<1>1. Row(c.draft) \in RowType(SettledForms, broken)
  BY AnswerForms, RowIs
<1>2. Set(c.draft, row) /\ Row(c.draft).kind \in {"DRAFT", "QUOTE_DRAFT"}
  BY DEF UpdateMeta, Editable
<1>3. row \in RowType(SettledForms, broken) /\ row.kind = Row(c.draft).kind
      /\ row.lines = Row(c.draft).lines
  BY <1>1 DEF RowType
<1> HIDE DEF row
<1> QED BY <1>2, <1>3, NoLineExecuted

LEMMA IssueExecuted ==
    ASSUME PosInv, NEW c \in calls, Answers(c, c.draft), c.op = "issue", IssueQuote(c)
    PROVE  PosInv'
<1> DEFINE row == [Row(c.draft) EXCEPT !.kind = "QUOTE_ISSUED"]
<1>1. Row(c.draft) \in RowType(SettledForms, broken)
  BY AnswerForms, RowIs
<1>2. Set(c.draft, row)
  BY DEF IssueQuote
<1>3. row \in RowType(SettledForms, broken) /\ row.kind = "QUOTE_ISSUED"
      /\ row.lines = Row(c.draft).lines
  BY <1>1 DEF RowType, KindType
<1> HIDE DEF row
<1> QED BY <1>2, <1>3, NoLineExecuted

LEMMA RecogniseExecuted ==
    ASSUME PosInv, NEW c \in calls, Answers(c, c.draft), c.op \in {"confirm", "conduce", "convert"},
           NEW source, NEW target \in {"COMPLETED", "CONDUCE"}, Recognise(c, source, target)
    PROVE  PosInv'
<1>1. /\ Row(c.draft) \in RowType(SettledForms, broken) /\ c \in CallType(created, SettledForms, broken)
      /\ drafts[c.draft] = Row(c.draft) /\ c.draft \in Ids
  BY AnswerForms, RowIs
<1>2. CASE UNCHANGED rows /\ Row(c.draft).kind = target
  <2>1. drafts' = drafts /\ created' = created
    BY <1>2 DEF rows
  <2>2. drafts = [drafts EXCEPT ![c.draft] = Row(c.draft)]
    BY <1>1 DEF PosInv, PosShape
  <2>3. Set(c.draft, Row(c.draft))
    BY <2>1, <2>2 DEF Set
  <2>4. (Row(c.draft).kind \in {"COMPLETED", "CONDUCE"} /\ ~Credit)
            => (Row(c.draft).paid = Gross(Row(c.draft)) /\ Row(c.draft).paid = Row(c.draft).reviewed)
    BY <1>1 DEF PosInv, CollectedIsReviewed
  <2> QED BY <1>1, <1>2, <2>3, <2>4, NoLineExecuted
<1>3. CASE ~(UNCHANGED rows /\ Row(c.draft).kind = target)
  <2> DEFINE row == [Row(c.draft) EXCEPT !.kind = target, !.paid = c.price,
                                         !.reviewed = c.reviewed, !.from = c.seen]
  <2>1. Set(c.draft, row) /\ Settles(c)
    BY <1>3 DEF Recognise
  <2>2. /\ row \in RowType(SettledForms, broken) /\ row.kind = target
        /\ row.lines = Row(c.draft).lines /\ row.meta = Row(c.draft).meta
        /\ row.paid = c.price /\ row.reviewed = c.reviewed
    BY <1>1 DEF RowType, CallType, KindType
  <2> HIDE DEF row
  <2>3. ~Credit => c.price = c.reviewed /\ c.price = Gross(Row(c.draft))
    BY <2>1 DEF PosInv, Forms, Settles
  <2>4. Gross(row) = Gross(Row(c.draft))
    BY <2>2, GrossOfSame
  <2> QED BY <2>1, <2>2, <2>3, <2>4, NoLineExecuted
<1> QED BY <1>2, <1>3

LEMMA DiscardExecuted ==
    ASSUME PosInv, NEW c \in calls, Answers(c, c.draft), c.op = "discard", Discard(c)
    PROVE  PosInv'
<1> DEFINE row == [Unused EXCEPT !.kind = "gone"]
<1>1. Set(c.draft, row)
  BY DEF Discard
<1>2. row \in RowType(SettledForms, broken) /\ row.kind = "gone" /\ row.lines = <<>>
  BY NoLines DEF RowType, KindType, Unused
<1> HIDE DEF row
<1> QED BY <1>1, <1>2, NoLineExecuted

LEMMA LinesRenewed ==
    ASSUME NEW F, NEW B, NEW ls \in LinesType(F, B), NEW d \in Ids
    PROVE  [i \in 1..Len(ls) |-> Renewed(ls[i], d)] \in LinesType(F, B)
<1> DEFINE ns == [i \in 1..Len(ls) |-> Renewed(ls[i], d)]
<1>1. ls \in Seq(LineType(F)) /\ Len(ls) \in Nat
  BY DEF LinesType
<1>2. \A i \in 1..Len(ls) : Renewed(ls[i], d) \in LineType(F) /\ Renewed(ls[i], d).form = ls[i].form
  <2> TAKE i \in 1..Len(ls)
  <2>1. ls[i] \in LineType(F)
    BY <1>1, ElementOfSeq
  <2> QED BY <2>1, RenewedIsALine
<1>3. ns \in Seq(LineType(F)) /\ Len(ns) = Len(ls) /\ \A i \in 1..Len(ls) : ns[i].form = ls[i].form
  BY <1>1, <1>2
<1> HIDE DEF ns
<1>4. ns \in LinesType(F, B)
  BY <1>3 DEF LinesType
<1> QED BY <1>4 DEF ns

LEMMA DuplicateExecuted ==
    ASSUME PosInv, NEW c \in calls, Answers(c, created'), c.op = "duplicate", Duplicate(c)
    PROVE  PosInv'
<1> DEFINE ls == Row(c.draft).lines
           ns == [i \in 1..Len(ls) |-> Renewed(ls[i], created + 1)]
<1>1. PICK F : F = SettledForms'
  OBVIOUS
<1>2. /\ Answered(c, "ok", View(created'))
      /\ UNCHANGED <<toasts, jobs, shown, loads, sent, lost, broken, restored>>
      /\ SettledForms \subseteq SettledForms'
      /\ c.draft \in 1..created
      /\ c.state = "sent"
  BY AnswerForms DEF Answers
<1>3. /\ Row(c.draft) \in RowType(SettledForms, broken)
      /\ ls \in LinesType(SettledForms, broken) /\ created \in Nat
  BY <1>2, RowIs
<1>4. LinesType(SettledForms, broken) \subseteq LinesType(F, broken)
  BY <1>1, <1>2, RowsGrow
<1>5. created < MaxDrafts /\ Create("QUOTE_DRAFT", ns, Row(c.draft).meta)
  BY DEF Duplicate, Create
<1>6. created + 1 \in Ids
  BY <1>3, <1>5, PosBounds DEF Ids
<1>7. ns \in LinesType(F, broken)
  <2>1. ns \in LinesType(SettledForms, broken)
    BY <1>3, <1>6, LinesRenewed
  <2> HIDE DEF ns
  <2> QED BY <1>4, <2>1
<1> HIDE DEF ns
<1>8. Row(c.draft).meta \in {0, 1} /\ "QUOTE_DRAFT" \in KindType \ {"none", "COMPLETED", "CONDUCE"}
  BY <1>3 DEF RowType, KindType
<1>9. /\ created' = created + 1 /\ created' \in 0..MaxDrafts
      /\ drafts' \in [Ids -> RowType(F, broken)]
      /\ \A d \in Ids : d # created + 1 => drafts'[d] = drafts[d]
      /\ \A d \in Ids : drafts'[d].kind = "none" <=> d > created'
      /\ CollectedIsReviewed'
  <2>1. broken \subseteq broken
    OBVIOUS
  <2> QED BY <1>1, <1>2, <1>5, <1>7, <1>8, <2>1, CreateMakes
<1>10. PICK v : v = [id |-> created', row |-> Content(drafts'[created'])]
  OBVIOUS
<1>11. Answered(c, "ok", v) /\ created' \in 1..created' /\ created <= created'
  BY <1>2, <1>3, <1>9, <1>10 DEF View
<1>12. \A d \in 1..created : d # c.draft => drafts'[d] = drafts[d]
  <2> TAKE d \in 1..created
  <2>1. d # created + 1 /\ d \in Ids
    BY <1>3, RowIs
  <2> QED BY <1>9, <2>1
<1>13. ASSUME NEW d \in Ids, NEW f \in (1..forms) \ broken, InDraft(d, f)'
       PROVE  InDraft(d, f) \/ Brings(c, d, f)
  <2>1. CASE d = created + 1
    BY <1>3, <2>1 DEF Brings
  <2>2. CASE d # created + 1
    BY <1>9, <1>13, <2>2 DEF InDraft
  <2> QED BY <2>1, <2>2
<1>14. Takes(c)
  BY DEF Takes
<1> QED BY <1>1, <1>2, <1>3, <1>9, <1>10, <1>11, <1>12, <1>13, <1>14, Executed

LEMMA ExecuteStep == ASSUME PosInv, NEW c \in calls, ServerExecutes(c) PROVE PosInv'
<1>1. /\ c.state = "sent" /\ Executes(c)
      /\ UNCHANGED <<tab, jobs, forms, sent, lost, broken, restored>>
      /\ calls' = Replied(c, "ok", IF c.op = "duplicate" THEN View(created') ELSE View(c.draft))
  BY DEF ServerExecutes
<1>2. c.op \in {"add", "undo", "remove", "update", "meta", "issue", "confirm", "conduce", "convert",
                "duplicate", "discard"}
  BY DEF PosInv, PosShape, CallType
<1>3. c.op # "duplicate" => Answers(c, c.draft)
  BY <1>1 DEF Answers
<1>4. c.op = "duplicate" => Answers(c, created')
  BY <1>1 DEF Answers
<1>5. CASE c.op \in {"add", "undo"}
  BY <1>1, <1>3, <1>5, AddExecuted DEF Executes
<1>6. CASE c.op = "remove"
  BY <1>1, <1>3, <1>6, RemoveExecuted DEF Executes
<1>7. CASE c.op = "update"
  BY <1>1, <1>3, <1>7, UpdateExecuted DEF Executes
<1>8. CASE c.op = "meta"
  BY <1>1, <1>3, <1>8, MetaExecuted DEF Executes
<1>9. CASE c.op = "issue"
  BY <1>1, <1>3, <1>9, IssueExecuted DEF Executes
<1>10. CASE c.op \in {"confirm", "conduce", "convert"}
  <2>1. \/ Recognise(c, "DRAFT", "COMPLETED") \/ Recognise(c, "DRAFT", "CONDUCE")
        \/ Recognise(c, "QUOTE_ISSUED", "COMPLETED")
    BY <1>1, <1>10 DEF Executes
  <2> QED BY <1>3, <1>10, <2>1, RecogniseExecuted
<1>11. CASE c.op = "duplicate"
  BY <1>1, <1>4, <1>11, DuplicateExecuted DEF Executes
<1>12. CASE c.op = "discard"
  BY <1>1, <1>3, <1>12, DiscardExecuted DEF Executes
<1> QED BY <1>2, <1>5, <1>6, <1>7, <1>8, <1>9, <1>10, <1>11, <1>12

-----------------------------------------------------------------------------
(* A command leaves a page *)

LEMMA RunStep ==
    ASSUME PosInv, NEW t \in Tabs, at[t] # 0,
           NEW c \in CallType(created, SettledForms, broken), c.tab = t, c.mounted = visit[t].mounted,
           c.state = "sent", c.form <= forms,
           c.op = "add" => c.form = form[t] /\ c.form # 0,
           c.op = "undo" => c.form \in SettledForms,
           c.op = "remove" => c.line # NoLine,
           c.op = "discard" => c.line = NoLine,
           c.op \in {"confirm", "conduce", "convert"} /\ ~Credit => c.price = c.reviewed,
           Run(t, c), form' = form, forms' = forms, toasts' \subseteq toasts,
           c.op = "undo" => \E x \in toasts \ toasts' : x.draft = c.draft /\ x.line.form = c.form
    PROVE  PosInv'
<1> DEFINE Marked(j) == [j EXCEPT !.alone = @ /\ j.draft # c.draft]
<1>1. PICK n, F, B : n = created /\ F = SettledForms' /\ B = broken
  OBVIOUS
<1>2. /\ ~busy[t] /\ sent' = sent + 1 /\ busy' = [busy EXCEPT ![t] = TRUE]
      /\ calls' = calls \cup {c}
      /\ jobs' = {Marked(j) : j \in jobs}
      /\ UNCHANGED <<drafts, created, lost, broken, restored, at, visit, shown, loads, visits>>
  BY DEF Run, rows
<1>3. \A x : Mine(x)' = Mine(x)
  BY <1>2 DEF Mine
<1>4. /\ busy \in [Tabs -> BOOLEAN]
      /\ \A j \in jobs : j \in JobType(created, SettledForms, broken)
      /\ forms \in Nat
  BY PosBounds DEF PosInv, PosShape
<1>5. \A e \in calls : ~(Mine(e) /\ e.tab = t)
  BY <1>2 DEF PosInv, Locks
<1>6. \A j \in jobs : /\ Marked(j) \in JobType(created, SettledForms, broken)
                      /\ Marked(j).draft = j.draft /\ Marked(j).back = j.back /\ Marked(j).step = j.step
                      /\ Marked(j).alone => j.alone /\ j.draft # c.draft
  BY <1>4 DEF JobType
<1> HIDE DEF Marked
<1>7. SettledForms \subseteq SettledForms'
  <2> SUFFICES ASSUME NEW f \in 1..forms, Settled(f), f \notin broken PROVE Settled(f)'
    BY <1>2 DEF SettledForms, Settled
  <2>1. /\ \A x \in calls : x.op = "add" /\ x.form = f => x.state = "ok"
        /\ \A u \in Tabs : at[u] # 0 /\ form[u] = f => Closing(u, f)
    BY DEF Settled
  <2>2. ~(c.op = "add" /\ c.form = f)
    <3> SUFFICES ASSUME c.op = "add", form[t] = f PROVE FALSE
      OBVIOUS
    <3> QED BY <1>5, <2>1 DEF Closing
  <2>3. \A u \in Tabs : Closing(u, f) => Closing(u, f)'
    BY <1>2, <1>3 DEF Closing
  <2> QED BY <1>2, <2>1, <2>2, <2>3 DEF Settled
<1>8. PosShape(n, F, B) /\ n \in Nat
  <2>1. PosShape(created, SettledForms, broken)
    BY DEF PosInv
  <2>2. created \in Nat /\ created <= created
    BY <2>1, PosBounds DEF PosShape
  <2> QED BY <1>1, <1>7, <2>1, <2>2, ShapeGrows
<1>9. c \in CallType(n, F, B) /\ \A j \in jobs : Marked(j) \in JobType(n, F, B)
  <2>1. n <= n /\ B \subseteq B
    BY <1>8
  <2>2. CallType(n, SettledForms, B) \subseteq CallType(n, F, B)
        /\ JobType(n, SettledForms, B) \subseteq JobType(n, F, B)
    BY <1>1, <1>7, <1>8, <2>1, TypesGrow
  <2> QED BY <1>1, <1>6, <2>2
<1>10. PosShape(n, F, B)'
  BY <1>2, <1>4, <1>8, <1>9 DEF PosShape
<1>11. PosShape(created, SettledForms, broken)'
  BY <1>1, <1>2, <1>10
<1>12. Locks'
  <2>1. LockHasACommand'
    <3> SUFFICES ASSUME NEW u \in Tabs, busy'[u], at[u] # 0
                 PROVE  \E x \in calls' : x.tab = u /\ Mine(x)
      BY <1>2, <1>3 DEF LockHasACommand
    <3>1. CASE u = t
      BY <1>2, <3>1 DEF Mine
    <3>2. CASE u # t
      BY <1>2, <1>4, <3>2 DEF PosInv, Locks, LockHasACommand
    <3> QED BY <3>1, <3>2
  <2>2. \A x \in calls' : x.mounted <= visits /\ (Mine(x) => busy'[x.tab])
    BY <1>2, <1>4 DEF PosInv, Locks
  <2>3. \A x, e \in calls' : Mine(x) /\ Mine(e) /\ x.tab = e.tab => x = e
    BY <1>2, <1>5 DEF PosInv, Locks
  <2> QED BY <1>2, <1>3, <2>1, <2>2, <2>3 DEF PosInv, Locks
<1>13. Forms'
  <2>1. \A x \in calls' :
          /\ x.form <= forms
          /\ x.op = "add" => x.form # 0
          /\ x.op = "undo" => x.form \in SettledForms'
          /\ x.op = "remove" => x.line # NoLine
          /\ x.op = "discard" => x.line = NoLine
          /\ x.state = "ok" => x.view # Loading
          /\ x.op \in {"confirm", "conduce", "convert"} /\ ~Credit => x.price = x.reviewed
    BY <1>2, <1>7 DEF PosInv, Forms
  <2>2. ASSUME NEW e \in calls, c.op = "add", e.op = "add", e.form = c.form, c.form \notin broken
        PROVE  FALSE
    <3>1. e.tab = t /\ Mine(e)
      BY <2>2 DEF PosInv, Forms
    <3> QED BY <1>5, <3>1
  <2>3. \A x, e \in calls' :
          x.op = "add" /\ e.op = "add" /\ x.form = e.form /\ x.form \notin broken => x = e
    BY <1>2, <2>2 DEF PosInv, Forms
  <2>4. ASSUME NEW u \in Tabs, at[u] # 0, form[u] # 0, form[u] \notin broken, NEW x \in calls',
               x.op = "add", x.form = form[u]
        PROVE  x.tab = u /\ Mine(x)
    <3>1. CASE x = c
      <4>1. u = t
        BY <2>4, <3>1 DEF PosInv, Forms
      <4> QED BY <3>1, <4>1 DEF Mine
    <3>2. CASE x \in calls
      BY <2>4, <3>2 DEF PosInv, Forms
    <3> QED BY <1>2, <3>1, <3>2
  <2> QED BY <1>2, <1>3, <2>1, <2>3, <2>4 DEF PosInv, Forms
<1>14. OneHolder'
  <2> SUFFICES ASSUME NEW d \in Ids, NEW f \in (1..forms) \ broken
               PROVE  \A x, y \in Holders(d, f)' : x = y
    BY <1>2 DEF OneHolder
  <2>1. \A x, y \in Holders(d, f) : x = y
    BY DEF PosInv, OneHolder
  <2>2. InDraft(d, f)' = InDraft(d, f)
    BY <1>2 DEF InDraft
  <2>3. InJob(d, f)' => InJob(d, f)
    BY <1>2, <1>6 DEF InJob
  <2>4. CASE c.op = "undo" /\ c.draft = d /\ c.form = f
    <3>1. PICK x \in toasts \ toasts' : x.draft = d /\ x.line.form = f
      BY <2>4
    <3>2. TheToast(x) \in Holders(d, f)
      BY <3>1 DEF Holders
    <3>3. Holders(d, f)' \subseteq (Holders(d, f) \ {TheToast(x)}) \cup {TheCall(c)}
      <4>1. \A e : TheCall(e) # TheToast(x)
        BY DEF TheCall, TheToast
      <4>2. TheToast(x) # TheDraft /\ TheToast(x) # TheJob
        BY DEF TheDraft, TheToast, TheJob
      <4>3. \A y \in toasts' : TheToast(y) # TheToast(x)
        BY <3>1 DEF TheToast
      <4> QED BY <1>2, <2>2, <2>3, <4>1, <4>2, <4>3 DEF Holders
    <3> QED BY <2>1, <3>2, <3>3
  <2>5. CASE ~(c.op = "undo" /\ c.draft = d /\ c.form = f)
    <3>1. ~(c.draft = d /\ Holds(c, f))
      BY <2>5 DEF Holds
    <3>2. Holders(d, f)' \subseteq Holders(d, f)
      BY <1>2, <2>2, <2>3, <3>1 DEF Holders
    <3> QED BY <2>1, <3>2
  <2> QED BY <2>4, <2>5
<1>15. Restoring'
  <2>1. \A x, k \in jobs' : x.draft = k.draft => x = k
    BY <1>2, <1>6 DEF PosInv, Restoring
  <2>2. \A x \in jobs' : x.step <= Len(x.back.lines) + 1
    BY <1>2, <1>6 DEF PosInv, Restoring
  <2>3. ASSUME NEW x \in jobs', x.alone
        PROVE  (\A e \in calls' : e.draft # x.draft) /\ Written(x, drafts'[x.draft])
    <3>1. PICK j \in jobs : x = Marked(j)
      BY <1>2
    <3>2. /\ x.draft = j.draft /\ x.back = j.back /\ x.step = j.step
          /\ j.alone /\ j.draft # c.draft
      BY <1>6, <2>3, <3>1
    <3>3. (\A e \in calls : e.draft # j.draft) /\ Written(j, drafts[j.draft])
      BY <3>2 DEF PosInv, Restoring
    <3> QED BY <1>2, <3>2, <3>3 DEF Written
  <2>4. \A x \in jobs' : x.alone => (\A e \in calls' : e.draft # x.draft) /\ Written(x, drafts[x.draft])'
    BY <1>2, <2>3
  <2> QED BY <2>1, <2>2, <2>4 DEF Restoring
<1> QED BY <1>2, <1>11, <1>12, <1>13, <1>14, <1>15 DEF PosInv, CollectedIsReviewed, RestoredIsWhole

-----------------------------------------------------------------------------
(* The commands of a page *)

LEMMA CommandIs ==
    ASSUME PosInv, NEW t \in Tabs, Ready(t), NEW op
    PROVE  /\ at[t] # 0 /\ at[t] \in 1..created /\ form[t] <= forms
           /\ \A c, F, B : c = Command(t, op) =>
                 /\ c.tab = t /\ c.mounted = visit[t].mounted /\ c.state = "sent" /\ c.op = op
                 /\ c.draft = at[t] /\ c.form = form[t] /\ c.line = NoLine /\ c.price = 0
                 /\ c.seen = 0 /\ c.reviewed = 0 /\ c.back = Unused
           /\ op \in {"add", "undo", "remove", "update", "meta", "issue", "confirm", "conduce",
                      "convert", "duplicate", "discard"}
                => Command(t, op) \in CallType(created, SettledForms, broken)
           /\ shown[t].row \in ContentType(SettledForms, broken)
           /\ shown[t].id \in Nat
<1>1. PosShape(created, SettledForms, broken)
  BY DEF PosInv
<1>2. created \in Nat /\ at[t] \in 0..created /\ at[t] # 0 /\ form[t] \in 0..MaxForms
  BY <1>1, PosBounds DEF PosShape, Ready
<1>3. visit[t].mounted \in Nat /\ sent \in Nat
  BY <1>1 DEF PosShape
<1>4. op \in {"add", "undo", "remove", "update", "meta", "issue", "confirm", "conduce",
              "convert", "duplicate", "discard"}
         => Command(t, op) \in CallType(created, SettledForms, broken)
  BY <1>2, <1>3 DEF Command, CallType, BackType, ViewType
<1>5. shown[t] \in [id : 1..created, row : ContentType(SettledForms, broken)]
  BY <1>1 DEF PosShape, ViewType, Ready
<1>6. form[t] <= forms
  BY DEF PosInv, Forms
<1>7. \A c, F, B : c = Command(t, op) =>
                 /\ c.tab = t /\ c.mounted = visit[t].mounted /\ c.state = "sent" /\ c.op = op
                 /\ c.draft = at[t] /\ c.form = form[t] /\ c.line = NoLine /\ c.price = 0
                 /\ c.seen = 0 /\ c.reviewed = 0 /\ c.back = Unused
  BY DEF Command
<1> QED BY <1>2, <1>4, <1>5, <1>6, <1>7

\* What is on the screen: lines of settled forms, with a total.
LEMMA ShownIs ==
    ASSUME PosInv, NEW t \in Tabs, Ready(t)
    PROVE  /\ \A l \in ToSet(shown[t].row.lines) : l \in LineType(SettledForms) /\ l # NoLine
           /\ Gross(shown[t].row) \in Nat
<1>1. shown[t].row \in ContentType(SettledForms, broken)
  BY CommandIs
<1>2. shown[t].row.lines \in Seq(LineType(SettledForms)) /\ shown[t].row.meta \in Nat
  BY <1>1 DEF ContentType, LinesType
<1>3. ASSUME NEW l \in ToSet(shown[t].row.lines)
      PROVE  l \in LineType(SettledForms) /\ l # NoLine
  <2>1. PICK i \in DOMAIN shown[t].row.lines : l = shown[t].row.lines[i]
    BY DEF ToSet
  <2>2. i \in 1..Len(shown[t].row.lines)
    BY <1>2, <2>1
  <2>3. l \in LineType(SettledForms)
    BY <1>2, <2>1, <2>2, ElementOfSeq
  <2>4. l.form # 0
    BY <2>3 DEF LineType, SettledForms
  <2> QED BY <2>3, <2>4 DEF NoLine
<1>4. Gross(shown[t].row) \in Nat
  BY <1>2, GrossIsNatural
<1> QED BY <1>3, <1>4

LEMMA SubmitAddStep == ASSUME PosInv, NEW t \in Tabs, NEW p \in Prices, SubmitAdd(t, p) PROVE PosInv'
<1> DEFINE base == Command(t, "add")
           c == [base EXCEPT !.price = p]
<1>1. /\ Ready(t) /\ form[t] # 0 /\ Run(t, c)
      /\ form' = form /\ toasts' = toasts /\ forms' = forms
  BY DEF SubmitAdd
<1>2. /\ base.tab = t /\ base.mounted = visit[t].mounted /\ base.state = "sent" /\ base.op = "add"
      /\ base.form = form[t] /\ base \in CallType(created, SettledForms, broken)
      /\ at[t] # 0 /\ form[t] <= forms
  BY <1>1, CommandIs
<1> HIDE DEF base
<1>3. p \in Nat
  BY PosBounds
<1>4. /\ c \in CallType(created, SettledForms, broken)
      /\ c.tab = t /\ c.mounted = visit[t].mounted /\ c.state = "sent" /\ c.op = "add"
      /\ c.form = form[t]
  BY <1>2, <1>3 DEF CallType
<1> HIDE DEF c
<1> QED BY <1>1, <1>2, <1>4, RunStep

\* The commands sent with no form open.
LEMMA PlainStep ==
    ASSUME PosInv, NEW t \in Tabs, Ready(t), form[t] = 0,
           NEW op \in {"remove", "update", "meta", "issue", "duplicate", "discard"},
           NEW c \in CallType(created, SettledForms, broken),
           c.tab = t, c.mounted = visit[t].mounted, c.state = "sent", c.op = op, c.form = form[t],
           op = "remove" => c.line # NoLine, op = "discard" => c.line = NoLine,
           Run(t, c), UNCHANGED <<form, toasts, forms>>
    PROVE  PosInv'
<1>1. at[t] # 0 /\ form[t] <= forms
  BY CommandIs
<1> QED BY <1>1, RunStep

LEMMA EditStep == ASSUME PosInv, NEW t \in Tabs, Edit(t) PROVE PosInv'
<1>1. Ready(t) /\ form[t] = 0 /\ UNCHANGED <<form, toasts, forms>>
  BY DEF Edit
<1>2. /\ \A l \in ToSet(shown[t].row.lines) : l \in LineType(SettledForms) /\ l # NoLine
      /\ shown[t].row \in BackType(SettledForms, broken)
  BY <1>1, ShownIs, CommandIs DEF BackType
<1>3. ASSUME NEW op \in {"remove", "update", "meta", "discard"}, NEW base, base = Command(t, op)
      PROVE  /\ base \in CallType(created, SettledForms, broken)
             /\ base.tab = t /\ base.mounted = visit[t].mounted /\ base.state = "sent"
             /\ base.op = op /\ base.form = form[t] /\ base.line = NoLine
  BY <1>1, <1>3, CommandIs
<1>4. CASE Run(t, Command(t, "meta"))
  <2> DEFINE c == Command(t, "meta")
  <2>1. /\ c \in CallType(created, SettledForms, broken)
        /\ c.tab = t /\ c.mounted = visit[t].mounted /\ c.state = "sent"
        /\ c.op = "meta" /\ c.form = form[t]
    BY <1>3
  <2> HIDE DEF c
  <2>2. Run(t, c)
    BY <1>4 DEF c
  <2> QED BY <1>1, <2>1, <2>2, PlainStep
<1>5. ASSUME NEW l \in ToSet(shown[t].row.lines), Run(t, [Command(t, "remove") EXCEPT !.line = l])
      PROVE  PosInv'
  <2> DEFINE base == Command(t, "remove")
             c == [base EXCEPT !.line = l]
  <2>1. /\ base \in CallType(created, SettledForms, broken)
        /\ base.tab = t /\ base.mounted = visit[t].mounted /\ base.state = "sent"
        /\ base.op = "remove" /\ base.form = form[t]
    BY <1>3
  <2>2. Run(t, c)
    BY <1>5
  <2> HIDE DEF base
  <2>3. /\ c \in CallType(created, SettledForms, broken)
        /\ c.tab = t /\ c.mounted = visit[t].mounted /\ c.state = "sent"
        /\ c.op = "remove" /\ c.form = form[t] /\ c.line # NoLine
    BY <1>2, <2>1 DEF CallType
  <2> HIDE DEF c
  <2> QED BY <1>1, <2>2, <2>3, PlainStep
<1>6. ASSUME NEW l \in ToSet(shown[t].row.lines), NEW p \in Prices,
             Run(t, [Command(t, "update") EXCEPT !.line = l, !.price = p])
      PROVE  PosInv'
  <2> DEFINE base == Command(t, "update")
             c == [base EXCEPT !.line = l, !.price = p]
  <2>1. /\ base \in CallType(created, SettledForms, broken)
        /\ base.tab = t /\ base.mounted = visit[t].mounted /\ base.state = "sent"
        /\ base.op = "update" /\ base.form = form[t]
    BY <1>3
  <2>2. Run(t, c)
    BY <1>6
  <2>3. p \in Nat
    BY PosBounds
  <2> HIDE DEF base
  <2>4. /\ c \in CallType(created, SettledForms, broken)
        /\ c.tab = t /\ c.mounted = visit[t].mounted /\ c.state = "sent"
        /\ c.op = "update" /\ c.form = form[t]
    BY <1>2, <2>1, <2>3 DEF CallType
  <2> HIDE DEF c
  <2> QED BY <1>1, <2>2, <2>4, PlainStep
<1>7. CASE Run(t, [Command(t, "discard") EXCEPT !.back = shown[t].row])
  <2> DEFINE base == Command(t, "discard")
             c == [base EXCEPT !.back = shown[t].row]
  <2>1. /\ base \in CallType(created, SettledForms, broken)
        /\ base.tab = t /\ base.mounted = visit[t].mounted /\ base.state = "sent"
        /\ base.op = "discard" /\ base.form = form[t] /\ base.line = NoLine
    BY <1>3
  <2>2. Run(t, c)
    BY <1>7
  <2> HIDE DEF base
  <2>3. /\ c \in CallType(created, SettledForms, broken)
        /\ c.tab = t /\ c.mounted = visit[t].mounted /\ c.state = "sent"
        /\ c.op = "discard" /\ c.form = form[t] /\ c.line = NoLine
    BY <1>2, <2>1 DEF CallType
  <2> HIDE DEF c
  <2> QED BY <1>1, <2>2, <2>3, PlainStep
<1> QED BY <1>4, <1>5, <1>6, <1>7 DEF Edit

LEMMA ReviewedStep ==
    ASSUME PosInv, NEW t \in Tabs, Ready(t), form[t] = 0, NEW op \in {"confirm", "conduce", "convert"},
           Run(t, Reviewed(t, op)), UNCHANGED <<form, toasts, forms>>
    PROVE  PosInv'
<1>1. PICK g, s, c : g = Gross(shown[t].row) /\ s = shown[t].id /\ c = Reviewed(t, op)
  OBVIOUS
<1> DEFINE base == Command(t, op)
<1>2. g \in Nat /\ s \in Nat
  BY <1>1, ShownIs, CommandIs
<1>3. /\ base.tab = t /\ base.mounted = visit[t].mounted /\ base.state = "sent" /\ base.op = op
      /\ base.form = form[t] /\ base \in CallType(created, SettledForms, broken)
      /\ at[t] # 0 /\ form[t] <= forms
  BY CommandIs
<1>4. c = [base EXCEPT !.price = IF Credit THEN 0 ELSE g, !.reviewed = g, !.seen = s]
  BY <1>1 DEF Reviewed
<1> HIDE DEF base
<1>5. /\ c \in CallType(created, SettledForms, broken)
      /\ c.tab = t /\ c.mounted = visit[t].mounted /\ c.state = "sent" /\ c.op = op
      /\ c.form = form[t] /\ (~Credit => c.price = c.reviewed)
  <2>1. PICK p \in Nat : p = IF Credit THEN 0 ELSE g
    BY <1>2
  <2>2. c = [base EXCEPT !.price = p, !.reviewed = g, !.seen = s]
    BY <1>4, <2>1
  <2>3. c \in CallType(created, SettledForms, broken)
    BY <1>2, <1>3, <2>1, <2>2 DEF CallType
  <2>4. /\ c.tab = base.tab /\ c.mounted = base.mounted /\ c.state = base.state
        /\ c.op = base.op /\ c.form = base.form /\ c.price = p /\ c.reviewed = g
    BY <1>3, <2>2 DEF CallType
  <2> QED BY <1>3, <2>1, <2>3, <2>4
<1> QED BY <1>1, <1>3, <1>5, RunStep

LEMMA ConfirmStep == ASSUME PosInv, NEW t \in Tabs, Confirm(t) PROVE PosInv'
<1>1. Ready(t) /\ form[t] = 0 /\ UNCHANGED <<form, toasts, forms>>
  BY DEF Confirm
<1>2. ASSUME NEW op \in {"issue", "duplicate"}, Run(t, Command(t, op)) PROVE PosInv'
  <2> DEFINE c == Command(t, op)
  <2>1. /\ c \in CallType(created, SettledForms, broken)
        /\ c.tab = t /\ c.mounted = visit[t].mounted /\ c.state = "sent"
        /\ c.op = op /\ c.form = form[t]
    BY <1>1, CommandIs
  <2> HIDE DEF c
  <2>2. Run(t, c)
    BY <1>2 DEF c
  <2> QED BY <1>1, <2>1, <2>2, PlainStep
<1>3. ASSUME NEW op \in {"confirm", "conduce", "convert"}, Run(t, Reviewed(t, op)) PROVE PosInv'
  BY <1>1, <1>3, ReviewedStep
<1> QED BY <1>2, <1>3 DEF Confirm

LEMMA UndoRemoveStep == ASSUME PosInv, NEW toast \in toasts, UndoRemove(toast) PROVE PosInv'
<1>1. PICK t, n, F, B : t = toast.tab /\ n = created /\ F = SettledForms /\ B = broken
  OBVIOUS
<1> DEFINE base == Command(t, "undo")
           c == [base EXCEPT !.draft = toast.draft, !.form = toast.line.form, !.price = toast.line.price]
<1>2. /\ toast.line # NoLine /\ at[t] # 0 /\ visit[t].mounted = toast.mounted
      /\ toasts' = toasts \ {toast}
      /\ Run(t, c) /\ form' = form /\ forms' = forms
  BY <1>1 DEF UndoRemove
<1>3. PosShape(n, F, B) /\ n \in Nat
  BY <1>1, PosBounds DEF PosInv, PosShape
<1>4. toast \in ToastType(n, F, B)
  BY <1>3 DEF PosShape
<1>5. /\ t \in Tabs /\ toast.line \in LineType(F) /\ toast.draft \in 1..n
  BY <1>1, <1>2, <1>4 DEF ToastType
<1>6. /\ toast.line.form \in F /\ toast.line.price \in Nat /\ toast.line.form \in 0..MaxForms
      /\ toast.line.form <= forms
  <2>1. toast.line.form \in F /\ toast.line.price \in Nat
    BY <1>5 DEF LineType
  <2>2. forms \in 0..MaxForms
    BY <1>3 DEF PosShape
  <2> QED BY <1>1, <2>1, <2>2, PosBounds DEF SettledForms
<1>7. at[t] \in 1..n /\ form[t] \in 0..MaxForms /\ visit[t].mounted \in Nat /\ sent \in Nat
  BY <1>2, <1>3, <1>5 DEF PosShape
<1>8. base \in CallType(n, F, B)
  BY <1>5, <1>7 DEF Command, CallType, BackType, ViewType
<1>9. base.tab = t /\ base.mounted = visit[t].mounted /\ base.state = "sent" /\ base.op = "undo"
  BY DEF Command
<1> HIDE DEF base
<1>10. /\ c \in CallType(n, F, B)
      /\ c.tab = t /\ c.mounted = visit[t].mounted /\ c.state = "sent" /\ c.op = "undo"
      /\ c.form = toast.line.form /\ c.draft = toast.draft
  BY <1>5, <1>6, <1>8, <1>9 DEF CallType
<1> HIDE DEF c
<1>11. \E x \in toasts \ toasts' : x.draft = c.draft /\ x.line.form = c.form
  BY <1>2, <1>10
<1> QED BY <1>1, <1>2, <1>5, <1>6, <1>10, <1>11, RunStep

-----------------------------------------------------------------------------
(* Pages *)

PageShape(n, F, B) ==
    /\ at \in [Tabs -> 0..n]
    /\ visit \in [Tabs -> [mounted : Nat, load : Nat]]
    /\ shown \in [Tabs -> ViewType(n, F, B)]
    /\ loads \subseteq LoadType(n, F, B)
    /\ visits \in Nat

LEMMA OpenShape ==
    ASSUME NEW n \in Nat, NEW F, NEW B, PageShape(n, F, B),
           NEW t \in Tabs, NEW d \in 1..n, NEW m \in Nat, Open(t, d, m)
    PROVE  /\ PageShape(n, F, B)'
           /\ visits' = visits + 1
           /\ at' = [at EXCEPT ![t] = d]
           /\ visit'[t].mounted = m
           /\ \A u \in Tabs : u # t => visit'[u] = visit[u]
<1>1. Load(d, t) \in LoadType(n, F, B)
  BY DEF PageShape, Load, LoadType, ViewType
<1>2. Loading \in ViewType(n, F, B) /\ visits + 1 \in Nat /\ d \in 0..n
  BY DEF PageShape, ViewType
<1>3. /\ at' = [at EXCEPT ![t] = d] /\ visits' = visits + 1
      /\ visit' = [visit EXCEPT ![t] = [mounted |-> m, load |-> visits + 1]]
      /\ shown' = [shown EXCEPT ![t] = Loading]
      /\ loads' = {l \in loads: l.tab # t} \cup {Load(d, t)}
  BY DEF Open
<1>4. /\ at' \in [Tabs -> 0..n] /\ shown' \in [Tabs -> ViewType(n, F, B)]
      /\ loads' \subseteq LoadType(n, F, B) /\ visits' \in Nat
  BY <1>1, <1>2, <1>3 DEF PageShape
<1>5. visit' \in [Tabs -> [mounted : Nat, load : Nat]]
  BY <1>2, <1>3 DEF PageShape
<1>6. visit'[t].mounted = m /\ \A u \in Tabs : u # t => visit'[u] = visit[u]
  BY <1>3 DEF PageShape
<1> QED BY <1>3, <1>4, <1>5, <1>6 DEF PageShape

\* Commands are answered, and pages are left or go on as they were.
LEMMA PagesGoOn ==
    ASSUME PosInv, NEW D \in SUBSET calls, calls' = calls \ D,
           UNCHANGED <<forms, broken>>, visits' \in Nat, visits <= visits',
           \A u \in Tabs : visit'[u].mounted = visit[u].mounted /\ (at'[u] # 0 => at[u] # 0),
           \A u \in Tabs : busy'[u] => busy[u],
           \A u \in Tabs : busy[u] /\ ~busy'[u] => \E c \in D : c.tab = u /\ Mine(c),
           \A c \in D : Mine(c) => ~busy'[c.tab],
           \A u \in Tabs : form'[u] = form[u] \/ form'[u] = 0,
           \A c \in D : Mine(c) /\ c.op = "add" /\ c.state = "ok" => form'[c.tab] = 0
    PROVE  SettledForms \subseteq SettledForms' /\ Locks' /\ Forms'
<1>1. /\ \A c \in calls : c.tab \in Tabs /\ c.mounted \in Nat
      /\ \A u \in Tabs : form[u] \in Nat /\ visit[u].mounted \in Nat
      /\ visits \in Nat /\ forms \in Nat
  BY PosBounds DEF PosInv, PosShape, CallType
<1>2. \A c \in calls : Mine(c)' => Mine(c)
  BY <1>1 DEF Mine
<1>3. \A c \in calls : Mine(c) /\ at'[c.tab] # 0 => Mine(c)'
  BY <1>1 DEF Mine
<1>4. SettledForms \subseteq SettledForms'
  <2> SUFFICES ASSUME NEW f \in 1..forms, Settled(f), f \notin broken PROVE Settled(f)'
    BY DEF SettledForms, Settled
  <2>1. /\ \A x \in calls : x.op = "add" /\ x.form = f => x.state = "ok"
        /\ \A u \in Tabs : at[u] # 0 /\ form[u] = f => Closing(u, f)
    BY DEF Settled
  <2>2. ASSUME NEW u \in Tabs, at'[u] # 0, form'[u] = f PROVE Closing(u, f)'
    <3>1. at[u] # 0 /\ form[u] = f /\ form'[u] # 0
      BY <1>1, <2>2
    <3>2. PICK c \in calls : c.tab = u /\ Mine(c) /\ c.op = "add" /\ c.form = f /\ c.state = "ok"
      BY <2>1, <3>1 DEF Closing
    <3>3. c \in calls'
      BY <3>1, <3>2
    <3>4. Mine(c)'
      BY <1>3, <2>2, <3>2
    <3> QED BY <3>2, <3>3, <3>4 DEF Closing
  <2> QED BY <2>1, <2>2 DEF Settled
<1>5. Locks'
  <2>1. \A u \in Tabs : visit'[u].mounted <= visits'
    BY <1>1 DEF PosInv, Locks
  <2>2. \A c \in calls' : c.mounted <= visits'
    BY <1>1 DEF PosInv, Locks
  <2>3. \A c, e \in calls' : Mine(c)' /\ Mine(e)' /\ c.tab = e.tab => c = e
    BY <1>2 DEF PosInv, Locks
  <2>4. ASSUME NEW c \in calls', Mine(c)' PROVE busy'[c.tab]
    <3>1. Mine(c) /\ busy[c.tab] /\ c.tab \in Tabs
      BY <1>1, <1>2, <2>4 DEF PosInv, Locks
    <3>2. \A e \in D : Mine(e) /\ e.tab = c.tab => e = c
      BY <3>1 DEF PosInv, Locks
    <3> QED BY <3>1, <3>2
  <2>5. ASSUME NEW u \in Tabs, busy'[u], at'[u] # 0 PROVE \E c \in calls' : c.tab = u /\ Mine(c)'
    <3>1. PICK c \in calls : c.tab = u /\ Mine(c)
      BY <2>5 DEF PosInv, Locks, LockHasACommand
    <3>2. c \in calls' /\ Mine(c)'
      BY <1>3, <2>5, <3>1
    <3> QED BY <3>1, <3>2
  <2> QED BY <2>1, <2>2, <2>3, <2>4, <2>5 DEF Locks, LockHasACommand
<1>6. Forms'
  <2>1. \A t \in Tabs : form'[t] <= forms
    BY <1>1 DEF PosInv, Forms
  <2>2. \A t, u \in Tabs : form'[t] = form'[u] /\ form'[t] # 0 => t = u
    BY DEF PosInv, Forms
  <2>3. \A c \in calls' :
          /\ c.form <= forms
          /\ c.op = "add" => c.form # 0
          /\ c.op = "undo" => c.form \in SettledForms'
          /\ c.op = "remove" => c.line # NoLine
          /\ c.op = "discard" => c.line = NoLine
          /\ c.state = "ok" => c.view # Loading
          /\ c.op \in {"confirm", "conduce", "convert"} /\ ~Credit => c.price = c.reviewed
    BY <1>4 DEF PosInv, Forms
  <2>4. \A c, e \in calls' :
          c.op = "add" /\ e.op = "add" /\ c.form = e.form /\ c.form \notin broken => c = e
    BY DEF PosInv, Forms
  <2>5. ASSUME NEW t \in Tabs, at'[t] # 0, form'[t] # 0, form'[t] \notin broken, NEW c \in calls',
               c.op = "add", c.form = form'[t]
        PROVE  c.tab = t /\ Mine(c)'
    <3>1. at[t] # 0 /\ form[t] = form'[t]
      BY <2>5
    <3>2. c.tab = t /\ Mine(c)
      BY <2>5, <3>1 DEF PosInv, Forms
    <3> QED BY <1>3, <2>5, <3>2
  <2> QED BY <2>1, <2>2, <2>3, <2>4, <2>5 DEF Forms
<1> QED BY <1>4, <1>5, <1>6

\* A page is mounted in a tab that showed no draft.
LEMMA PageMounts ==
    ASSUME PosInv, NEW t \in Tabs, at[t] = 0, NEW d, at' = [at EXCEPT ![t] = d],
           busy' = [busy EXCEPT ![t] = FALSE], form' = [form EXCEPT ![t] = 0],
           visits' = visits + 1, visit'[t].mounted = visits + 1,
           \A u \in Tabs : u # t => visit'[u] = visit[u],
           UNCHANGED <<calls, forms, broken>>
    PROVE  SettledForms \subseteq SettledForms' /\ Locks' /\ Forms'
<1>1. /\ \A c \in calls : c.tab \in Tabs /\ c.mounted \in Nat /\ c.mounted <= visits
      /\ \A u \in Tabs : form[u] \in Nat /\ visit[u].mounted \in Nat
      /\ visits \in Nat /\ forms \in Nat
      /\ form \in [Tabs -> 0..MaxForms] /\ busy \in [Tabs -> BOOLEAN] /\ at \in [Tabs -> 0..created]
  BY PosBounds DEF PosInv, PosShape, CallType, Locks
<1>2. \A c \in calls : ~(c.tab = t /\ Mine(c)) /\ ~(c.tab = t /\ Mine(c)')
  BY <1>1 DEF Mine
<1>3. \A c \in calls : Mine(c)' = Mine(c)
  <2> TAKE c \in calls
  <2>1. CASE c.tab = t
    BY <1>1, <2>1 DEF Mine
  <2>2. CASE c.tab # t
    BY <1>1, <2>2 DEF Mine
  <2> QED BY <2>1, <2>2
<1>4. /\ \A u \in Tabs : u # t => at'[u] = at[u] /\ form'[u] = form[u] /\ busy'[u] = busy[u]
      /\ form'[t] = 0 /\ ~busy'[t]
  BY <1>1
<1>5. SettledForms \subseteq SettledForms'
  <2> SUFFICES ASSUME NEW f \in 1..forms, Settled(f), f \notin broken PROVE Settled(f)'
    BY DEF SettledForms, Settled
  <2>1. /\ \A x \in calls : x.op = "add" /\ x.form = f => x.state = "ok"
        /\ \A u \in Tabs : at[u] # 0 /\ form[u] = f => Closing(u, f)
    BY DEF Settled
  <2>2. ASSUME NEW u \in Tabs, at'[u] # 0, form'[u] = f PROVE Closing(u, f)'
    <3>1. u # t /\ at[u] # 0 /\ form[u] = f
      BY <1>1, <1>4, <2>2
    <3>2. Closing(u, f)
      BY <2>1, <3>1
    <3> QED BY <1>3, <3>2 DEF Closing
  <2> QED BY <2>1, <2>2 DEF Settled
<1>6. Locks'
  <2>1. \A u \in Tabs : visit'[u].mounted <= visits'
    <3> TAKE u \in Tabs
    <3>1. visit[u].mounted <= visits
      BY DEF PosInv, Locks
    <3> QED BY <1>1, <3>1
  <2>2. \A c \in calls' : c.mounted <= visits' /\ (Mine(c)' => busy'[c.tab])
    <3> TAKE c \in calls'
    <3>1. c.mounted <= visits /\ (Mine(c) => busy[c.tab])
      BY DEF PosInv, Locks
    <3>2. Mine(c) => c.tab # t
      BY <1>2
    <3> QED BY <1>1, <1>3, <1>4, <3>1, <3>2
  <2>3. \A c, e \in calls' : Mine(c)' /\ Mine(e)' /\ c.tab = e.tab => c = e
    BY <1>3 DEF PosInv, Locks
  <2>4. ASSUME NEW u \in Tabs, busy'[u], at'[u] # 0 PROVE \E c \in calls' : c.tab = u /\ Mine(c)'
    <3>1. u # t /\ busy[u] /\ at[u] # 0
      BY <1>4, <2>4
    <3>2. PICK c \in calls : c.tab = u /\ Mine(c)
      BY <3>1 DEF PosInv, Locks, LockHasACommand
    <3> QED BY <1>3, <3>2
  <2> QED BY <2>1, <2>2, <2>3, <2>4 DEF Locks, LockHasACommand
<1>7. Forms'
  <2>1. \A u \in Tabs : form'[u] <= forms
    BY <1>1, <1>4 DEF PosInv, Forms
  <2>2. \A u, w \in Tabs : form'[u] = form'[w] /\ form'[u] # 0 => u = w
    BY <1>4 DEF PosInv, Forms
  <2>3. \A c \in calls' :
          /\ c.form <= forms
          /\ c.op = "add" => c.form # 0
          /\ c.op = "undo" => c.form \in SettledForms'
          /\ c.op = "remove" => c.line # NoLine
          /\ c.op = "discard" => c.line = NoLine
          /\ c.state = "ok" => c.view # Loading
          /\ c.op \in {"confirm", "conduce", "convert"} /\ ~Credit => c.price = c.reviewed
    BY <1>5 DEF PosInv, Forms
  <2>4. \A c, e \in calls' :
          c.op = "add" /\ e.op = "add" /\ c.form = e.form /\ c.form \notin broken => c = e
    BY DEF PosInv, Forms
  <2>5. ASSUME NEW u \in Tabs, at'[u] # 0, form'[u] # 0, form'[u] \notin broken, NEW c \in calls',
               c.op = "add", c.form = form'[u]
        PROVE  c.tab = u /\ Mine(c)'
    <3>1. u # t /\ at[u] # 0 /\ form[u] = form'[u]
      BY <1>4, <2>5
    <3>2. c.tab = u /\ Mine(c)
      BY <2>5, <3>1 DEF PosInv, Forms
    <3> QED BY <1>3, <3>2
  <2> QED BY <2>1, <2>2, <2>3, <2>4, <2>5 DEF Forms
<1> QED BY <1>5, <1>6, <1>7

LEMMA OpenAddStep == ASSUME PosInv, NEW t \in Tabs, OpenAdd(t) PROVE PosInv'
<1>1. PICK n, F, B : n = created /\ F = SettledForms' /\ B = broken
  OBVIOUS
<1>2. /\ at[t] # 0 /\ ~busy[t] /\ form[t] = 0 /\ forms < MaxForms /\ forms' = forms + 1
      /\ form' = [form EXCEPT ![t] = forms + 1]
      /\ UNCHANGED <<drafts, created, at, visit, shown, busy, toasts, loads, visits,
                     jobs, calls, sent, lost, broken, restored>>
  BY DEF OpenAdd, Ready, rows
<1>3. /\ \A c \in calls : c.form \in Nat /\ c.form <= forms
      /\ forms \in Nat /\ forms \in 0..MaxForms /\ form \in [Tabs -> 0..MaxForms]
      /\ \A u \in Tabs : form[u] \in Nat /\ form[u] <= forms
      /\ MaxForms \in Nat /\ created \in Nat
  BY PosBounds DEF PosInv, PosShape, CallType, Forms
<1>4. \A c : Mine(c)' = Mine(c)
  BY <1>2 DEF Mine
<1>5. form'[t] = forms + 1 /\ \A u \in Tabs : u # t => form'[u] = form[u]
  BY <1>2, <1>3
<1>6. SettledForms \subseteq SettledForms'
  <2> SUFFICES ASSUME NEW f \in 1..forms, Settled(f), f \notin broken PROVE Settled(f)'
    BY <1>2, <1>3 DEF SettledForms, Settled
  <2>1. /\ \A x \in calls : x.op = "add" /\ x.form = f => x.state = "ok"
        /\ \A u \in Tabs : at[u] # 0 /\ form[u] = f => Closing(u, f)
    BY DEF Settled
  <2>2. \A u \in Tabs : at[u] # 0 /\ form'[u] = f => Closing(u, f)'
    <3> SUFFICES ASSUME NEW u \in Tabs, at[u] # 0, form'[u] = f PROVE Closing(u, f)'
      OBVIOUS
    <3>1. u # t /\ form[u] = f
      BY <1>3, <1>5
    <3>2. Closing(u, f)
      BY <2>1, <3>1
    <3> QED BY <1>2, <1>4, <3>2 DEF Closing
  <2> QED BY <1>2, <2>1, <2>2 DEF Settled
<1>7. PosShape(n, F, B)
  <2>1. PosShape(created, SettledForms, broken)
    BY DEF PosInv
  <2>2. created <= created
    BY <1>3
  <2> QED BY <1>1, <1>3, <1>6, <2>1, <2>2, ShapeGrows
<1>8. PosShape(n, F, B)'
  <2>1. forms + 1 \in 0..MaxForms
    BY <1>2, <1>3
  <2> QED BY <1>2, <1>3, <1>7, <2>1 DEF PosShape
<1>9. PosShape(created, SettledForms, broken)'
  BY <1>1, <1>2, <1>8
<1>10. Locks'
  BY <1>2, <1>4 DEF PosInv, Locks, LockHasACommand
<1>11. Forms'
  <2>1. \A u \in Tabs : form'[u] <= forms'
    BY <1>2, <1>3, <1>5
  <2>2. \A u, w \in Tabs : form'[u] = form'[w] /\ form'[u] # 0 => u = w
    <3> TAKE u, w \in Tabs
    <3>1. form[u] = form[w] /\ form[u] # 0 => u = w
      BY DEF PosInv, Forms
    <3> QED BY <1>3, <1>5, <3>1
  <2>3. \A c \in calls :
          /\ c.form <= forms'
          /\ c.op = "add" => c.form # 0
          /\ c.op = "undo" => c.form \in SettledForms'
          /\ c.op = "remove" => c.line # NoLine
          /\ c.op = "discard" => c.line = NoLine
          /\ c.state = "ok" => c.view # Loading
          /\ c.op \in {"confirm", "conduce", "convert"} /\ ~Credit => c.price = c.reviewed
    BY <1>2, <1>3, <1>6 DEF PosInv, Forms
  <2>4. ASSUME NEW u \in Tabs, at[u] # 0, form'[u] # 0, form'[u] \notin broken, NEW c \in calls,
               c.op = "add", c.form = form'[u]
        PROVE  c.tab = u /\ Mine(c)
    <3>1. u # t /\ form[u] = form'[u]
      BY <1>3, <1>5, <2>4
    <3> QED BY <2>4, <3>1 DEF PosInv, Forms
  <2> QED BY <1>2, <1>4, <2>1, <2>2, <2>3, <2>4 DEF PosInv, Forms
<1>12. OneHolder'
  <2> SUFFICES ASSUME NEW d \in Ids, NEW f \in (1..forms') \ broken
               PROVE  \A x, y \in Holders(d, f)' : x = y
    BY <1>2 DEF OneHolder
  <2>1. Holders(d, f)' \subseteq Holders(d, f)
    BY <1>2, HoldersStay
  <2>2. CASE f \in 1..forms
    BY <2>1, <2>2 DEF PosInv, OneHolder
  <2>3. CASE f \notin 1..forms
    <3>1. f # 0 /\ f \notin SettledForms
      BY <2>3 DEF SettledForms
    <3>2. Holders(d, f) = {}
      BY <3>1, HoldersSettled
    <3> QED BY <2>1, <3>2
  <2> QED BY <2>2, <2>3
<1> QED BY <1>2, <1>9, <1>10, <1>11, <1>12 DEF PosInv, Restoring, CollectedIsReviewed, RestoredIsWhole

LEMMA LeaveStep == ASSUME PosInv, NEW t \in Tabs, Leave(t) PROVE PosInv'
<1>1. PICK n, F, B : n = created /\ F = SettledForms' /\ B = broken
  OBVIOUS
<1>2. /\ at' = [at EXCEPT ![t] = 0]
      /\ UNCHANGED <<shown, loads, visit, visits, drafts, created, busy, form, toasts, jobs, calls,
                     forms, sent, lost, broken, restored>>
  BY DEF Leave, Elsewhere, rows
<1>3. at \in [Tabs -> 0..created] /\ created \in Nat /\ visits \in Nat /\ 0 \in 0..created
      /\ PosShape(created, SettledForms, broken)
  BY PosBounds DEF PosInv, PosShape
<1>4. SettledForms \subseteq SettledForms' /\ Locks' /\ Forms'
  <2>1. {} \in SUBSET calls /\ calls' = calls \ {} /\ visits <= visits'
    BY <1>2, <1>3
  <2>2. \A u \in Tabs : visit'[u].mounted = visit[u].mounted /\ (at'[u] # 0 => at[u] # 0)
    BY <1>2, <1>3
  <2>3. /\ \A u \in Tabs : busy'[u] => busy[u]
        /\ \A u \in Tabs : busy[u] /\ ~busy'[u] => \E c \in {} : c.tab = u /\ Mine(c)
        /\ \A c \in {} : Mine(c) => ~busy'[c.tab]
        /\ \A u \in Tabs : form'[u] = form[u] \/ form'[u] = 0
        /\ \A c \in {} : Mine(c) /\ c.op = "add" /\ c.state = "ok" => form'[c.tab] = 0
        /\ UNCHANGED <<forms, broken>> /\ visits' \in Nat
    BY <1>2, <1>3
  <2> QED BY <2>1, <2>2, <2>3, PagesGoOn
<1>5. PosShape(n, F, B)
  <2>1. created <= created
    BY <1>3
  <2> QED BY <1>1, <1>3, <1>4, <2>1, ShapeGrows
<1>6. PosShape(n, F, B)'
  BY <1>1, <1>2, <1>3, <1>5 DEF PosShape
<1>7. PosShape(created, SettledForms, broken)'
  BY <1>1, <1>2, <1>6
<1>8. OneHolder'
  BY <1>2, HoldersStay DEF PosInv, OneHolder
<1> QED BY <1>2, <1>4, <1>7, <1>8 DEF PosInv, Restoring, CollectedIsReviewed, RestoredIsWhole

\* A page is mounted; its draft may be new.
LEMMA MountShape ==
    ASSUME PosInv, NEW n \in Nat, NEW F, NEW B, PosShape(n, F, B),
           NEW t \in Tabs, at[t] = 0, NEW d \in 1..n, Mount(t, d), UNCHANGED <<calls, forms, broken>>
    PROVE  /\ PageShape(n, F, B)'
           /\ busy' \in [Tabs -> BOOLEAN] /\ form' \in [Tabs -> 0..MaxForms]
           /\ SettledForms \subseteq SettledForms' /\ Locks' /\ Forms'
<1>1. /\ Open(t, d, visits + 1)
      /\ busy' = [busy EXCEPT ![t] = FALSE] /\ form' = [form EXCEPT ![t] = 0]
  BY DEF Mount
<1>2. PageShape(n, F, B) /\ visits + 1 \in Nat
  BY DEF PosShape, PageShape
<1>3. /\ PageShape(n, F, B)' /\ visits' = visits + 1 /\ at' = [at EXCEPT ![t] = d]
      /\ visit'[t].mounted = visits + 1 /\ \A u \in Tabs : u # t => visit'[u] = visit[u]
  <2> PICK m \in Nat : m = visits + 1
    BY <1>2
  <2>1. Open(t, d, m)
    BY <1>1
  <2>2. /\ PageShape(n, F, B)' /\ visits' = visits + 1 /\ at' = [at EXCEPT ![t] = d]
        /\ visit'[t].mounted = m /\ \A u \in Tabs : u # t => visit'[u] = visit[u]
    BY <1>2, <2>1, OpenShape
  <2> QED BY <2>2
<1>4. busy' \in [Tabs -> BOOLEAN] /\ form' \in [Tabs -> 0..MaxForms]
  BY <1>1, PosBounds DEF PosShape
<1> QED BY <1>1, <1>3, <1>4, PageMounts

LEMMA VisitStep == ASSUME PosInv, NEW t \in Tabs, NEW d \in Ids, Visit(t, d) PROVE PosInv'
<1>1. PICK n, F, B : n = created /\ F = SettledForms' /\ B = broken
  OBVIOUS
<1>2. /\ at[t] = 0 /\ drafts[d].kind # "none" /\ Mount(t, d)
      /\ UNCHANGED <<drafts, created, toasts, jobs, calls, forms, sent, lost, broken, restored>>
  BY DEF Visit, rows
<1>3. created \in Nat /\ PosShape(created, SettledForms, broken) /\ created <= created
  BY PosBounds DEF PosInv, PosShape
<1>4. d \in 1..created
  BY <1>2, <1>3, PosBounds DEF PosShape, Ids
<1>5. SettledForms \subseteq SettledForms' /\ Locks' /\ Forms'
  BY <1>2, <1>3, <1>4, MountShape
<1>6. PosShape(n, F, B)
  BY <1>1, <1>3, <1>5, ShapeGrows
<1>7. PageShape(n, F, B)' /\ busy' \in [Tabs -> BOOLEAN] /\ form' \in [Tabs -> 0..MaxForms]
  BY <1>1, <1>2, <1>3, <1>4, <1>6, MountShape
<1>8. PosShape(n, F, B)'
  BY <1>2, <1>6, <1>7 DEF PosShape, PageShape
<1>9. PosShape(created, SettledForms, broken)'
  BY <1>1, <1>2, <1>8
<1>10. OneHolder'
  BY <1>2, HoldersStay DEF PosInv, OneHolder
<1> QED BY <1>2, <1>5, <1>9, <1>10 DEF PosInv, Restoring, CollectedIsReviewed, RestoredIsWhole

LEMMA NewStep == ASSUME PosInv, NEW t \in Tabs, NEW k \in Kinds, New(t, k) PROVE PosInv'
<1>1. PICK n, F, B : n = created /\ F = SettledForms' /\ B = broken
  OBVIOUS
<1>2. /\ at[t] = 0 /\ Create(k, <<>>, 0) /\ Mount(t, created + 1)
      /\ UNCHANGED <<toasts, jobs, calls, forms, sent, lost, broken, restored>>
  BY DEF New
<1>3. created \in Nat /\ PosShape(created, SettledForms, broken)
  BY PosBounds DEF PosInv, PosShape
<1>4. k \in KindType \ {"none", "COMPLETED", "CONDUCE"}
  BY PosAssumption DEF KindType
<1>5. PosShape(created + 1, SettledForms, broken)
  BY <1>3, ShapeGrows
<1>6. SettledForms \subseteq SettledForms' /\ Locks' /\ Forms'
  <2>1. created + 1 \in 1..(created + 1) /\ created + 1 \in Nat
    BY <1>3
  <2> QED BY <1>2, <1>5, <2>1, MountShape
<1>7. /\ created' = n + 1 /\ n + 1 \in 0..MaxDrafts /\ n + 1 \in Ids /\ n \in Nat
      /\ drafts' \in [Ids -> RowType(F, B)]
      /\ drafts'[n + 1].lines = <<>>
      /\ \A d \in Ids : d # n + 1 => drafts'[d] = drafts[d]
      /\ \A d \in Ids : drafts'[d].kind = "none" <=> d > created'
      /\ CollectedIsReviewed'
  BY <1>1, <1>2, <1>4, <1>6, NoLines, CreateMakes
<1>8. PosShape(n + 1, F, B)
  <2>1. n + 1 \in Nat /\ n <= n + 1
    BY <1>7
  <2> QED BY <1>1, <1>3, <1>6, <2>1, ShapeGrows
<1>9. PageShape(n + 1, F, B)' /\ busy' \in [Tabs -> BOOLEAN] /\ form' \in [Tabs -> 0..MaxForms]
  <2>1. n + 1 \in 1..(n + 1) /\ n + 1 \in Nat
    BY <1>7
  <2> QED BY <1>1, <1>2, <1>8, <2>1, MountShape
<1>10. PosShape(n + 1, F, B)'
  BY <1>2, <1>7, <1>8, <1>9 DEF PosShape, PageShape
<1>11. PosShape(created, SettledForms, broken)'
  BY <1>1, <1>2, <1>7, <1>10
<1>12. /\ \A c \in calls : c.draft # n + 1
       /\ \A x \in toasts : x.draft # n + 1
       /\ \A j \in jobs : j.draft # n + 1 /\ j.draft \in Ids
  <2>1. n + 1 > created
    BY <1>1, <1>7
  <2>2. \A j \in jobs : j.draft \in 1..created
    BY <1>3 DEF PosShape, JobType
  <2>3. 1..created \subseteq Ids
    BY <1>3, PosBounds DEF PosShape, Ids
  <2> QED BY <2>1, <2>2, <2>3, NothingHolds
<1>13. OneHolder'
  <2> SUFFICES ASSUME NEW d \in Ids, NEW f \in (1..forms) \ broken
               PROVE  \A x, y \in Holders(d, f)' : x = y
    BY <1>2 DEF OneHolder
  <2>1. CASE d = n + 1
    <3>1. ~InDraft(d, f)'
      BY <1>7, <2>1 DEF InDraft
    <3>2. ~InJob(d, f)'
      BY <1>2, <1>12, <2>1 DEF InJob
    <3> QED BY <1>2, <1>12, <2>1, <3>1, <3>2 DEF Holders
  <2>2. CASE d # n + 1
    <3>1. InDraft(d, f)' = InDraft(d, f) /\ InJob(d, f)' = InJob(d, f)
      BY <1>2, <1>7, <2>2 DEF InDraft, InJob
    <3>2. Holders(d, f)' \subseteq Holders(d, f)
      BY <1>2, <3>1 DEF Holders
    <3> QED BY <3>2 DEF PosInv, OneHolder
  <2> QED BY <2>1, <2>2
<1>14. Restoring'
  <2>1. \A j \in jobs : drafts'[j.draft] = drafts[j.draft]
    BY <1>7, <1>12
  <2> QED BY <1>2, <2>1 DEF PosInv, Restoring, Written
<1> QED BY <1>2, <1>6, <1>7, <1>11, <1>13, <1>14 DEF PosInv, RestoredIsWhole

\* The lock of a page is given back with the answer of its command, and with no other.
LEMMA LockGivenBack ==
    ASSUME PosInv, NEW c \in calls, busy' = Unlock(c)
    PROVE  /\ busy' \in [Tabs -> BOOLEAN] /\ c.tab \in Tabs
           /\ \A u \in Tabs : busy'[u] => busy[u]
           /\ \A u \in Tabs : busy[u] /\ ~busy'[u] => Mine(c) /\ c.tab = u
           /\ Mine(c) => ~busy'[c.tab]
<1>1. busy \in [Tabs -> BOOLEAN] /\ c.tab \in Tabs
  BY DEF PosInv, PosShape, CallType
<1>2. CASE Mine(c)
  <2>1. busy' = [busy EXCEPT ![c.tab] = FALSE]
    BY <1>2 DEF Unlock
  <2> QED BY <1>1, <1>2, <2>1
<1>3. CASE ~Mine(c)
  BY <1>1, <1>3 DEF Unlock
<1> QED BY <1>2, <1>3

LEMMA FailsStep == ASSUME PosInv, NEW c \in calls, DraftFails(c) PROVE PosInv'
<1>1. PICK n, F, B : n = created /\ F = SettledForms' /\ B = broken
  OBVIOUS
<1>2. /\ c.state \in {"refused", "broken"} /\ calls' = calls \ {c} /\ busy' = Unlock(c)
      /\ UNCHANGED <<drafts, created, jobs, forms, sent, lost, at, visit, shown, loads, visits,
                     form, toasts, broken, restored>>
  BY DEF DraftFails, Finish, rows
<1>3. /\ created \in Nat /\ visits \in Nat /\ created <= created /\ visits <= visits
      /\ PosShape(created, SettledForms, broken)
  BY PosBounds DEF PosInv, PosShape
<1>4. SettledForms \subseteq SettledForms' /\ Locks' /\ Forms'
  <2>1. {c} \in SUBSET calls
    OBVIOUS
  <2>2. /\ \A u \in Tabs : busy'[u] => busy[u]
        /\ \A u \in Tabs : busy[u] /\ ~busy'[u] => \E e \in {c} : e.tab = u /\ Mine(e)
        /\ \A e \in {c} : Mine(e) => ~busy'[e.tab]
    BY <1>2, LockGivenBack
  <2>3. /\ \A e \in {c} : Mine(e) /\ e.op = "add" /\ e.state = "ok" => form'[e.tab] = 0
        /\ \A u \in Tabs : visit'[u].mounted = visit[u].mounted /\ (at'[u] # 0 => at[u] # 0)
        /\ \A u \in Tabs : form'[u] = form[u] \/ form'[u] = 0
        /\ UNCHANGED <<forms, broken>> /\ visits' \in Nat /\ visits <= visits'
    BY <1>2, <1>3
  <2> QED BY <1>2, <2>1, <2>2, <2>3, PagesGoOn
<1>5. PosShape(n, F, B)
  BY <1>1, <1>3, <1>4, ShapeGrows
<1>6. busy' \in [Tabs -> BOOLEAN]
  BY <1>2, LockGivenBack
<1>7. PosShape(n, F, B)'
  BY <1>2, <1>5, <1>6 DEF PosShape
<1>8. PosShape(created, SettledForms, broken)'
  BY <1>1, <1>2, <1>7
<1>9. OneHolder'
  <2>1. ASSUME NEW d \in Ids, NEW f PROVE Holders(d, f)' \subseteq Holders(d, f)
    <3>1. InDraft(d, f)' = InDraft(d, f) /\ InJob(d, f)' = InJob(d, f)
      BY <1>2 DEF InDraft, InJob
    <3> QED BY <1>2, <3>1 DEF Holders
  <2> QED BY <1>2, <2>1 DEF PosInv, OneHolder
<1>10. Restoring'
  BY <1>2 DEF PosInv, Restoring, Written
<1> QED BY <1>2, <1>4, <1>8, <1>9, <1>10 DEF PosInv, CollectedIsReviewed, RestoredIsWhole

\* The answer is shown where its command was sent, or the page goes elsewhere.
LEMMA SuccessMoves ==
    ASSUME PosInv, NEW c \in calls, Succeeds(c), NEW n \in Nat, NEW F, NEW B, PosShape(n, F, B)
    PROVE  /\ PageShape(n, F, B)'
           /\ visits <= visits'
           /\ \A u \in Tabs : visit'[u].mounted = visit[u].mounted /\ (at'[u] # 0 => at[u] # 0)
<1>1. /\ PageShape(n, F, B) /\ visits \in Nat /\ c.tab \in Tabs /\ c.view \in ViewType(n, F, B)
  BY DEF PosShape, PageShape, CallType
<1>2. c.view # Loading
  BY DEF PosInv, Forms, Succeeds
<1>3. \/ /\ UNCHANGED <<at, visit, loads, visits>>
         /\ shown' = shown \/ shown' = [shown EXCEPT ![c.tab] = c.view]
      \/ Mine(c) /\ Open(c.tab, at[c.tab], visit[c.tab].mounted)
      \/ Mine(c) /\ Open(c.tab, c.view.id, visit[c.tab].mounted)
      \/ at' = [at EXCEPT ![c.tab] = 0] /\ UNCHANGED <<shown, loads, visit, visits>>
  <2>1. CASE Applies(c)
    BY <2>1 DEF Succeeds, ApplyDraftResult
  <2>2. CASE ~Applies(c)
    <3>1. Navigate(c)
      BY <2>2 DEF Succeeds
    <3>2. CASE ~Mine(c)
      BY <3>1, <3>2 DEF Navigate
    <3>3. CASE Mine(c)
      BY <3>1, <3>3 DEF Navigate, Elsewhere
    <3> QED BY <3>2, <3>3
  <2> QED BY <2>1, <2>2
<1>4. CASE /\ UNCHANGED <<at, visit, loads, visits>>
           /\ shown' = shown \/ shown' = [shown EXCEPT ![c.tab] = c.view]
  <2>1. PageShape(n, F, B)'
    BY <1>1, <1>4 DEF PageShape
  <2> QED BY <1>1, <1>4, <2>1
<1>5. ASSUME NEW d \in 1..n, Mine(c), Open(c.tab, d, visit[c.tab].mounted)
      PROVE  /\ PageShape(n, F, B)' /\ visits <= visits'
             /\ \A u \in Tabs : visit'[u].mounted = visit[u].mounted /\ (at'[u] # 0 => at[u] # 0)
  <2>1. visit[c.tab].mounted \in Nat /\ at[c.tab] # 0
    BY <1>1, <1>5 DEF PageShape, Mine
  <2>2. /\ PageShape(n, F, B)' /\ visits' = visits + 1 /\ at' = [at EXCEPT ![c.tab] = d]
        /\ visit'[c.tab].mounted = visit[c.tab].mounted
        /\ \A u \in Tabs : u # c.tab => visit'[u] = visit[u]
    BY <1>1, <1>5, <2>1, OpenShape
  <2> QED BY <1>1, <2>1, <2>2 DEF PageShape
<1>6. Mine(c) => at[c.tab] \in 1..n
  BY <1>1 DEF Mine, PageShape
<1>7. c.view.id \in 1..n
  BY <1>1, <1>2 DEF ViewType
<1>8. CASE at' = [at EXCEPT ![c.tab] = 0] /\ UNCHANGED <<shown, loads, visit, visits>>
  <2>1. PageShape(n, F, B)' /\ \A u \in Tabs : at'[u] # 0 => at[u] # 0
    BY <1>1, <1>8 DEF PageShape
  <2> QED BY <1>1, <1>8, <2>1
<1> QED BY <1>3, <1>4, <1>5, <1>6, <1>7, <1>8

LEMMA NoticeIs ==
    ASSUME PosInv, NEW c \in calls, NEW n, NEW F, NEW B, c \in CallType(n, F, B), NEW x \in Notice(c)
    PROVE  /\ x \in ToastType(n, F, B)
           /\ x.draft = c.draft /\ x.line = c.line
           /\ c.op = "remove" \/ x.line.form = 0
<1>1. /\ x.tab = c.tab /\ x.mounted = c.mounted /\ x.draft = c.draft /\ x.line = c.line
      /\ x.back = Unused \/ x.back = c.back
      /\ x = [tab |-> x.tab, mounted |-> x.mounted, draft |-> x.draft, line |-> x.line, back |-> x.back]
      /\ c.op \in {"remove", "discard"}
  <2>1. CASE c.op = "remove"
    BY <2>1 DEF Notice
  <2>2. CASE c.op = "discard"
    BY <2>2 DEF Notice
  <2>3. CASE c.op \notin {"remove", "discard"}
    BY <2>3 DEF Notice
  <2> QED BY <2>1, <2>2, <2>3
<1>2. /\ c.tab \in Tabs /\ c.mounted \in Nat /\ c.draft \in 1..n
      /\ c.line \in {NoLine} \cup LineType(F) /\ c.back \in BackType(F, B)
  BY DEF CallType
<1>3. Unused \in BackType(F, B)
  BY DEF BackType
<1>4. x \in ToastType(n, F, B)
  BY <1>1, <1>2, <1>3 DEF ToastType
<1>5. c.op = "discard" => c.line.form = 0
  BY DEF PosInv, Forms, NoLine
<1> QED BY <1>1, <1>4, <1>5

LEMMA SucceedsStep == ASSUME PosInv, NEW c \in calls, Succeeds(c) PROVE PosInv'
<1>1. PICK n, F, B : n = created /\ F = SettledForms' /\ B = broken
  OBVIOUS
<1>2. /\ c.state = "ok" /\ calls' = calls \ {c} /\ busy' = Unlock(c) /\ form' = CloseForm(c)
      /\ toasts' = toasts \cup Notice(c)
      /\ UNCHANGED <<drafts, created, jobs, forms, sent, lost, broken, restored>>
  BY DEF Succeeds, Finish, rows
<1>3. /\ created \in Nat /\ created <= created
      /\ PosShape(created, SettledForms, broken)
      /\ c.tab \in Tabs /\ form \in [Tabs -> 0..MaxForms]
  BY PosBounds DEF PosInv, PosShape, CallType
<1>4. /\ visits' \in Nat /\ visits <= visits'
      /\ \A u \in Tabs : visit'[u].mounted = visit[u].mounted /\ (at'[u] # 0 => at[u] # 0)
  BY <1>3, SuccessMoves DEF PageShape
<1>5. /\ form' \in [Tabs -> 0..MaxForms]
      /\ \A u \in Tabs : form'[u] = form[u] \/ form'[u] = 0
      /\ Mine(c) /\ c.op = "add" => form'[c.tab] = 0
  BY <1>2, <1>3, PosBounds DEF CloseForm
<1>6. SettledForms \subseteq SettledForms' /\ Locks' /\ Forms'
  <2>1. {c} \in SUBSET calls
    OBVIOUS
  <2>2. /\ \A u \in Tabs : busy'[u] => busy[u]
        /\ \A u \in Tabs : busy[u] /\ ~busy'[u] => \E e \in {c} : e.tab = u /\ Mine(e)
        /\ \A e \in {c} : Mine(e) => ~busy'[e.tab]
    BY <1>2, LockGivenBack
  <2>3. \A e \in {c} : Mine(e) /\ e.op = "add" /\ e.state = "ok" => form'[e.tab] = 0
    BY <1>5
  <2> QED BY <1>2, <1>4, <1>5, <2>1, <2>2, <2>3, PagesGoOn
<1>7. PosShape(n, F, B)
  BY <1>1, <1>3, <1>6, ShapeGrows
<1>8. PageShape(n, F, B)'
  BY <1>1, <1>3, <1>7, SuccessMoves
<1>9. busy' \in [Tabs -> BOOLEAN]
  BY <1>2, LockGivenBack
<1>10. c \in CallType(n, F, B)
  BY <1>7 DEF PosShape
<1>11. Notice(c) \subseteq ToastType(n, F, B)
  BY <1>10, NoticeIs
<1>12. PosShape(n, F, B)'
  BY <1>2, <1>5, <1>7, <1>8, <1>9, <1>11 DEF PosShape, PageShape
<1>13. PosShape(created, SettledForms, broken)'
  BY <1>1, <1>2, <1>12
<1>14. OneHolder'
  <2> SUFFICES ASSUME NEW d \in Ids, NEW f \in (1..forms) \ broken
               PROVE  \A x, y \in Holders(d, f)' : x = y
    BY <1>2 DEF OneHolder
  <2>1. \A x, y \in Holders(d, f) : x = y
    BY DEF PosInv, OneHolder
  <2>2. InDraft(d, f)' = InDraft(d, f) /\ InJob(d, f)' = InJob(d, f)
    BY <1>2 DEF InDraft, InJob
  <2>3. CASE \E x \in Notice(c) : x.draft = d /\ x.line.form = f
    <3>1. PICK y \in Notice(c) : y.draft = d /\ y.line.form = f
      BY <2>3
    <3>2. /\ c.op = "remove" /\ c.draft = d /\ c.line.form = f
          /\ Notice(c) = {y}
      <4>1. c.op = "remove" /\ c.draft = d /\ c.line.form = f
        BY <1>10, <3>1, NoticeIs
      <4> QED BY <3>1, <4>1 DEF Notice
    <3>3. TheCall(c) \in Holders(d, f)
      BY <1>2, <3>2 DEF Holders, Holds
    <3>4. Holders(d, f)' \subseteq (Holders(d, f) \ {TheCall(c)}) \cup {TheToast(y)}
      <4>1. \A e \in calls' : TheCall(e) # TheCall(c)
        BY <1>2 DEF TheCall
      <4>2. TheDraft # TheCall(c) /\ TheJob # TheCall(c) /\ \A x : TheToast(x) # TheCall(c)
        BY DEF TheDraft, TheJob, TheToast, TheCall
      <4> QED BY <1>2, <2>2, <3>2, <4>1, <4>2 DEF Holders
    <3> QED BY <2>1, <3>3, <3>4
  <2>4. CASE ~\E x \in Notice(c) : x.draft = d /\ x.line.form = f
    <3>1. Holders(d, f)' \subseteq Holders(d, f)
      BY <1>2, <2>2, <2>4 DEF Holders
    <3> QED BY <2>1, <3>1
  <2> QED BY <2>3, <2>4
<1>15. Restoring'
  BY <1>2 DEF PosInv, Restoring, Written
<1> QED BY <1>2, <1>6, <1>13, <1>14, <1>15 DEF PosInv, CollectedIsReviewed, RestoredIsWhole

LEMMA RestoreEndsStep == ASSUME PosInv, NEW j \in jobs, RestoreEnds(j) PROVE PosInv'
<1>1. PICK n, F, B, t : n = created /\ F = SettledForms' /\ B = broken /\ t = j.tab
  OBVIOUS
<1>2. /\ j.step = Len(j.back.lines) + 1 /\ jobs' = jobs \ {j}
      /\ IF at[t] = 0 THEN Mount(t, j.draft)
         ELSE Open(t, j.draft, visit[t].mounted) /\ UNCHANGED <<busy, form>>
      /\ restored' = restored \cup {[back |-> j.back, row |-> Content(Row(j.draft)), alone |-> j.alone]}
      /\ UNCHANGED <<drafts, created, toasts, calls, forms, sent, lost, broken>>
  BY <1>1 DEF RestoreEnds, rows
<1>3. /\ created \in Nat /\ created <= created
      /\ PosShape(created, SettledForms, broken)
      /\ t \in Tabs /\ j.draft \in 1..created /\ j.draft \in Ids
  <2>1. /\ created \in Nat /\ created \in 0..MaxDrafts /\ PosShape(created, SettledForms, broken)
        /\ j \in JobType(created, SettledForms, broken)
    BY PosBounds DEF PosInv, PosShape
  <2>2. t \in Tabs /\ j.draft \in 1..created
    BY <1>1, <2>1 DEF JobType
  <2> QED BY <2>1, <2>2, PosBounds DEF Ids
<1>4. ASSUME NEW m \in Nat, NEW G, NEW C, PosShape(m, G, C), j.draft \in 1..m
      PROVE  /\ PageShape(m, G, C)' /\ busy' \in [Tabs -> BOOLEAN] /\ form' \in [Tabs -> 0..MaxForms]
             /\ SettledForms \subseteq SettledForms' /\ Locks' /\ Forms'
  <2>1. CASE at[t] = 0
    BY <1>2, <1>3, <1>4, <2>1, MountShape
  <2>2. CASE at[t] # 0
    <3>1. Open(t, j.draft, visit[t].mounted) /\ UNCHANGED <<busy, form>>
      BY <1>2, <2>2
    <3>2. PageShape(m, G, C) /\ visit[t].mounted \in Nat /\ visits \in Nat
      BY <1>3, <1>4 DEF PosShape, PageShape
    <3>3. /\ PageShape(m, G, C)' /\ visits' = visits + 1 /\ at' = [at EXCEPT ![t] = j.draft]
          /\ visit'[t].mounted = visit[t].mounted
          /\ \A u \in Tabs : u # t => visit'[u] = visit[u]
      BY <1>3, <1>4, <3>1, <3>2, OpenShape
    <3>4. \A u \in Tabs : visit'[u].mounted = visit[u].mounted /\ (at'[u] # 0 => at[u] # 0)
      BY <1>3, <2>2, <3>3 DEF PosShape
    <3>5. {} \in SUBSET calls /\ calls' = calls \ {} /\ visits' \in Nat /\ visits <= visits'
      BY <1>2, <3>2, <3>3
    <3>6. /\ \A u \in Tabs : busy'[u] => busy[u]
          /\ \A u \in Tabs : busy[u] /\ ~busy'[u] => \E c \in {} : c.tab = u /\ Mine(c)
          /\ \A c \in {} : Mine(c) => ~busy'[c.tab]
          /\ \A u \in Tabs : form'[u] = form[u] \/ form'[u] = 0
          /\ \A c \in {} : Mine(c) /\ c.op = "add" /\ c.state = "ok" => form'[c.tab] = 0
      BY <3>1
    <3>7. SettledForms \subseteq SettledForms' /\ Locks' /\ Forms'
      BY <1>2, <3>4, <3>5, <3>6, PagesGoOn
    <3>8. busy' \in [Tabs -> BOOLEAN] /\ form' \in [Tabs -> 0..MaxForms]
      BY <1>3, <3>1 DEF PosShape
    <3> QED BY <3>3, <3>7, <3>8
  <2> QED BY <2>1, <2>2
<1>5. SettledForms \subseteq SettledForms' /\ Locks' /\ Forms'
  BY <1>3, <1>4
<1>6. PosShape(n, F, B) /\ n \in Nat /\ j.draft \in 1..n
  BY <1>1, <1>3, <1>5, ShapeGrows
<1>7. PageShape(n, F, B)' /\ busy' \in [Tabs -> BOOLEAN] /\ form' \in [Tabs -> 0..MaxForms]
  BY <1>4, <1>6
<1>8. PosShape(n, F, B)'
  BY <1>2, <1>6, <1>7 DEF PosShape, PageShape
<1>9. PosShape(created, SettledForms, broken)'
  BY <1>1, <1>2, <1>8
<1>10. OneHolder'
  <2>1. ASSUME NEW d \in Ids, NEW f PROVE Holders(d, f)' \subseteq Holders(d, f)
    <3>1. InDraft(d, f)' = InDraft(d, f) /\ (InJob(d, f)' => InJob(d, f))
      BY <1>2 DEF InDraft, InJob
    <3> QED BY <1>2, <3>1 DEF Holders
  <2> QED BY <1>2, <2>1 DEF PosInv, OneHolder
<1>11. Restoring'
  BY <1>2 DEF PosInv, Restoring, Written
<1>12. RestoredIsWhole'
  <2> DEFINE r == [back |-> j.back, row |-> Content(Row(j.draft)), alone |-> j.alone]
  <2>1. ASSUME j.alone
        PROVE  /\ drafts[j.draft].meta = j.back.meta
               /\ Len(drafts[j.draft].lines) = Len(j.back.lines)
               /\ \A i \in 1..Len(j.back.lines) :
                      drafts[j.draft].lines[i].price = j.back.lines[i].price
    <3>1. Written(j, drafts[j.draft])
      BY <2>1 DEF PosInv, Restoring
    <3>2. Len(j.back.lines) \in Nat
      <4>1. j.back \in BackType(F, B)
        BY <1>6 DEF PosShape, JobType
      <4>2. j.back.lines \in Seq(LineType(F))
        BY <4>1, BackIs
      <4> QED BY <4>2
    <3> QED BY <1>2, <3>1, <3>2 DEF Written
  <2>2. /\ r.alone = j.alone /\ r.back = j.back
        /\ r.row.meta = drafts[j.draft].meta /\ r.row.lines = drafts[j.draft].lines
    BY DEF Content, Row
  <2>3. restored' = restored \cup {r}
    BY <1>2
  <2> HIDE DEF r
  <2>4. ASSUME NEW q \in restored', q.alone
        PROVE  /\ q.row.meta = q.back.meta
               /\ Len(q.row.lines) = Len(q.back.lines)
               /\ \A i \in 1..Len(q.back.lines) : q.row.lines[i].price = q.back.lines[i].price
    <3>1. CASE q = r
      BY <2>1, <2>2, <2>4, <3>1
    <3>2. CASE q \in restored
      BY <2>4, <3>2 DEF PosInv, RestoredIsWhole
    <3> QED BY <2>3, <3>1, <3>2
  <2> QED BY <2>4 DEF RestoredIsWhole
<1> QED BY <1>2, <1>5, <1>9, <1>10, <1>11, <1>12 DEF PosInv, CollectedIsReviewed

LEMMA StartHasPosInv == PosInit => PosInv
<1> SUFFICES ASSUME PosInit PROVE PosInv
  OBVIOUS
<1>1. MaxDrafts \in Nat /\ MaxForms \in Nat /\ 0 \in 0..MaxDrafts /\ 0 \in 0..MaxForms
  BY PosBounds
<1>2. PICK n, F, B : n = created /\ F = SettledForms /\ B = broken
  OBVIOUS
<1>3. Unused \in RowType(F, B) /\ Unused.kind = "none"
  BY NoLines DEF RowType, KindType, Unused
<1>4. /\ drafts = [d \in Ids |-> Unused] /\ created = 0 /\ \A d \in Ids : d > 0
  BY PosBounds DEF PosInit, Ids
<1>5. Loading \in ViewType(n, F, B)
  BY DEF ViewType
<1>6. /\ drafts \in [Ids -> RowType(F, B)]
      /\ \A d \in Ids : drafts[d].kind = "none" <=> d > created
  BY <1>3, <1>4
<1>7. PosShape(n, F, B)
  BY <1>1, <1>2, <1>5, <1>6 DEF PosInit, PosShape
<1>8. Locks /\ Forms
  BY DEF PosInit, Locks, Forms, LockHasACommand
<1>9. OneHolder /\ Restoring /\ RestoredIsWhole
  BY DEF PosInit, OneHolder, Restoring, RestoredIsWhole
<1>10. CollectedIsReviewed
  BY <1>3, <1>4 DEF CollectedIsReviewed
<1> QED BY <1>2, <1>7, <1>8, <1>9, <1>10 DEF PosInv

LEMMA StillStep == ASSUME PosInv, UNCHANGED posVars PROVE PosInv'
<1>1. /\ UNCHANGED <<calls, at, visit, form, busy, broken, forms, visits>>
      /\ UNCHANGED <<drafts, created, shown, toasts, jobs, loads, sent, lost, restored>>
  BY DEF posVars, rows, tab
<1>2. SettledForms' = SettledForms /\ Locks' /\ Forms'
  BY <1>1, FormsStay
<1>3. PosShape(created, SettledForms, broken)'
  BY <1>1, <1>2 DEF PosInv, PosShape
<1>4. OneHolder'
  BY <1>1, HoldersStay DEF PosInv, OneHolder
<1> QED BY <1>1, <1>2, <1>3, <1>4 DEF PosInv, Restoring, Written, CollectedIsReviewed, RestoredIsWhole

LEMMA StepKeepsPosInv == PosInv /\ [PosNext]_posVars => PosInv'
<1> SUFFICES ASSUME PosInv, [PosNext]_posVars PROVE PosInv'
  OBVIOUS
<1>1. CASE UNCHANGED posVars
  BY <1>1, StillStep
<1>2. ASSUME NEW t \in Tabs, Leave(t) \/ OpenAdd(t) \/ Edit(t) \/ Confirm(t) PROVE PosInv'
  BY <1>2, LeaveStep, OpenAddStep, EditStep, ConfirmStep
<1>3. ASSUME NEW t \in Tabs, NEW k \in Kinds, New(t, k) PROVE PosInv'
  BY <1>3, NewStep
<1>4. ASSUME NEW t \in Tabs, NEW d \in Ids, Visit(t, d) PROVE PosInv'
  BY <1>4, VisitStep
<1>5. ASSUME NEW t \in Tabs, NEW p \in Prices, SubmitAdd(t, p) PROVE PosInv'
  BY <1>5, SubmitAddStep
<1>6. ASSUME NEW l \in loads, LoadIsRead(l) \/ LoadArrives(l) PROVE PosInv'
  BY <1>6, ReadLoadStep, LoadStep
<1>7. ASSUME NEW c \in calls, ServerExecutes(c) \/ ServerRefuses(c) \/ Lose(c) PROVE PosInv'
  BY <1>7, ExecuteStep, RefusedStep, LostStep
<1>8. ASSUME NEW c \in calls, Succeeds(c) \/ DraftFails(c) \/ LookupFails(c) PROVE PosInv'
  BY <1>8, SucceedsStep, FailsStep DEF LookupFails
<1>9. ASSUME NEW toast \in toasts, ToastExpires(toast) \/ UndoRemove(toast) \/ UndoDiscard(toast)
      PROVE  PosInv'
  BY <1>9, ExpireStep, UndoRemoveStep, UndoDiscardStep
<1>10. ASSUME NEW j \in jobs, RestoreStep(j) \/ RestoreFails(j) \/ RestoreEnds(j) PROVE PosInv'
  BY <1>10, RestoreOneStep, RestoreFailsStep, RestoreEndsStep
<1> QED BY <1>1, <1>2, <1>3, <1>4, <1>5, <1>6, <1>7, <1>8, <1>9, <1>10 DEF PosNext

LEMMA PosInvSuffices == PosInv => DraftsAreAsReviewed
<1> SUFFICES ASSUME PosInv PROVE DraftsAreAsReviewed
  OBVIOUS
<1>1. PICK n, F, B : n = created /\ F = SettledForms /\ B = broken
  OBVIOUS
<1>2. PosShape(n, F, B) /\ n \in 0..MaxDrafts /\ MaxDrafts \in Nat
  BY <1>1, PosBounds DEF PosInv, PosShape
<1>3. 0..n \subseteq 0..MaxDrafts /\ 1..n \subseteq Ids
  BY <1>2 DEF Ids
<1>4. PosTypeOK
  <2>1. at \in [Tabs -> 0..MaxDrafts]
    BY <1>2, <1>3 DEF PosShape
  <2>2. \A t \in Tabs : shown[t] = Loading \/ shown[t].id \in Ids
    <3> TAKE t \in Tabs
    <3>1. shown[t] \in ViewType(n, F, B)
      BY <1>2 DEF PosShape
    <3> QED BY <1>3, <3>1 DEF ViewType
  <2>3. \A c \in calls : c.draft \in Ids /\ c.state \in {"sent", "ok", "refused", "broken"}
    BY <1>2, <1>3 DEF PosShape, CallType
  <2> QED BY <1>2, <2>1, <2>2, <2>3 DEF PosTypeOK, PosShape
<1>5. OneLinePerForm
  <2>1. \A d \in Ids : drafts[d].lines \in LinesType(F, B)
    BY <1>2 DEF PosShape, RowType
  <2> QED BY <1>1, <2>1 DEF OneLinePerForm, LinesType
<1> QED BY <1>4, <1>5 DEF PosInv, Locks, DraftsAreAsReviewed

\* A form none of whose answers was lost adds one line at most, what is collected is what was
\* reviewed, a draft that an undo alone restored is whole, and no page stays locked, whatever
\* the tabs do at once and however the answers come (PosPage, usePos, mutateDraft,
\* restoreDiscardedDraft).
THEOREM DraftsAreReviewed == PosSpec => []DraftsAreAsReviewed
BY StartHasPosInv, StepKeepsPosInv, PosInvSuffices, PTL DEF PosSpec

-----------------------------------------------------------------------------
(* THE ASSISTANT PANEL                                                     *)

(* What ties the panel to the conversations *)

Heard == {"posted", "running", "refused", "answered"}
StreamPlaces == Heard \cup {"late", "left", "over"}
TurnStatuses == {"PENDING", "COMPLETED", "FAILED"}

StreamType ==
    [conv : Convs, ask : Nat \ {0}, id : Nat, at : StreamPlaces,
     end : TurnStatuses \cup {"none"}, told : TurnStatuses \cup {"none", "nothing"}, stopped : BOOLEAN]
StoredTurn == [id : Nat, ask : Nat, status : TurnStatuses]
ShownTurn == [conv : Convs, id : Nat]
ListType ==
    [conv : Convs \cup {NoConv}, kind : {"latest", "older", "none"},
     at : {"asked", "read", "failed", "over"}, page : Seq(ShownTurn)]
AttemptType == [ask : Nat, id : Nat, ambiguous : BOOLEAN, retry : BOOLEAN]
DeletionType == [conv : Convs \cup {NoConv}, selected : Convs \cup {NoConv}]

ChatShape ==
    /\ conv \in [Convs -> {"none", "live", "deleted"}]
    /\ store \in [Convs -> Seq(StoredTurn)]
    /\ selected \in Convs \cup {NoConv} /\ oldest \in 0 .. 2
    /\ typed \in 0 .. MaxQuestions /\ draft \in 0 .. typed
    /\ stream \in Seq(StreamType)
    /\ active \in 0 .. Len(stream)
    /\ phase = "idle" <=> active = 0
    /\ attempt \in AttemptType
    /\ load \in Seq(ListType)
    /\ creating \subseteq [conv : Convs, ask : 0 .. typed]
    /\ deleting \in DeletionType

\* A conversation that is selected or deleted exists, one being created does not yet.
Conversations ==
    /\ \A p \in creating : conv[p.conv] = "none"
    /\ \A p, q \in creating : p.conv = q.conv => p = q
    /\ deleting # NoDeletion => deleting.conv \in Convs /\ conv[deleting.conv] # "none"
    /\ selected # NoConv => conv[selected] # "none"

\* The user stopped an attempt of this identifier, or was told how it ended.
Said(i) == \E n \in Streams : stream[n].id = i /\ (stream[n].stopped \/ stream[n].told # "nothing")

\* The last identifier a question was sent with in a conversation.
IsLast(c, a, i) ==
    /\ \E n \in Streams : stream[n].conv = c /\ stream[n].ask = a /\ stream[n].id = i
    /\ \A n \in Streams : stream[n].conv = c /\ stream[n].ask = a => stream[n].id <= i

StreamsAreOfConversations ==
    /\ \A n \in Streams :
          /\ conv[stream[n].conv] # "none"
          /\ stream[n].ask <= typed /\ stream[n].ask # draft
          /\ stream[n].id <= Len(stream)
          /\ stream[n].at \in Heard => active = n
    /\ active # 0 =>
          /\ selected # NoConv => stream[active].conv = selected
          /\ IsLast(stream[active].conv, stream[active].ask, stream[active].id)

AttemptIsLast ==
    /\ attempt.retry => attempt.ask # 0
    /\ attempt.ask # 0 =>
          /\ selected # NoConv => IsLast(selected, attempt.ask, attempt.id)
          /\ ~attempt.ambiguous => Said(attempt.id)

AskedAgainWhenSaid ==
    \A m, n \in Streams :
        stream[m].conv = stream[n].conv /\ stream[m].ask = stream[n].ask /\ stream[m].id < stream[n].id
            => Said(stream[m].id)

TurnsWereSent ==
    \A c \in Convs : \A k \in DOMAIN store[c] :
        \E n \in Streams : /\ stream[n].conv = c
                          /\ stream[n].ask = store[c][k].ask /\ stream[n].id = store[c][k].id

ChatInv ==
    /\ ChatShape /\ Conversations /\ StreamsAreOfConversations /\ AttemptIsLast
    /\ AskedAgainWhenSaid /\ TurnsWereSent

LEMMA ChatBounds == MaxQuestions \in Nat
BY ChatAssumption

LEMMA StreamIs ==
    ASSUME ChatInv, NEW n \in Streams
    PROVE  /\ stream[n] \in StreamType /\ n \in 1 .. Len(stream) /\ Len(stream) \in Nat
           /\ Streams = 1 .. Len(stream) /\ n # 0
<1>1. stream \in Seq(StreamType)
  BY DEF ChatInv, ChatShape
<1>2. Len(stream) \in Nat /\ Streams = 1 .. Len(stream)
  BY <1>1 DEF Streams
<1>3. stream[n] \in StreamType
  BY <1>1, <1>2, ElementOfSeq
<1> QED BY <1>2, <1>3

\* A sequence keeps its length when one of its elements is rewritten.
LEMMA OneRewritten ==
    ASSUME NEW S, NEW s \in Seq(S), NEW i \in DOMAIN s, NEW x \in S
    PROVE  /\ [s EXCEPT ![i] = x] \in Seq(S) /\ Len([s EXCEPT ![i] = x]) = Len(s)
           /\ DOMAIN [s EXCEPT ![i] = x] = DOMAIN s
           /\ \A j \in DOMAIN s : [s EXCEPT ![i] = x][j] = IF j = i THEN x ELSE s[j]
<1>1. DOMAIN s = 1 .. Len(s) /\ Len(s) \in Nat
  OBVIOUS
<1>2. i \in 1 .. Len(s)
  BY <1>1
<1>3. [s EXCEPT ![i] = x] \in Seq(S) /\ Len([s EXCEPT ![i] = x]) = Len(s)
  BY <1>2, ExceptSeq
<1> QED BY <1>1, <1>3

-----------------------------------------------------------------------------
(* The calls of runStream so far go on: what they were about does not change, and what was  *)
(* said is not taken back                                                                    *)

GoesOn ==
    /\ stream' \in Seq(StreamType) /\ Streams' = Streams /\ Len(stream') = Len(stream)
    /\ \A n \in Streams :
          /\ stream'[n].conv = stream[n].conv /\ stream'[n].ask = stream[n].ask
          /\ stream'[n].id = stream[n].id
          /\ stream[n].stopped => stream'[n].stopped
          /\ stream[n].told # "nothing" => stream'[n].told # "nothing"

LEMMA RewrittenGoesOn ==
    ASSUME ChatInv, NEW n \in Streams, NEW x \in StreamType, stream' = [stream EXCEPT ![n] = x],
           x.conv = stream[n].conv, x.ask = stream[n].ask, x.id = stream[n].id,
           stream[n].stopped => x.stopped, stream[n].told # "nothing" => x.told # "nothing"
    PROVE  GoesOn /\ stream'[n] = x /\ \A m \in Streams : m # n => stream'[m] = stream[m]
<1>1. stream \in Seq(StreamType)
  BY DEF ChatInv, ChatShape
<1>2. /\ stream' \in Seq(StreamType) /\ Len(stream') = Len(stream) /\ DOMAIN stream' = DOMAIN stream
      /\ \A j \in DOMAIN stream : stream'[j] = IF j = n THEN x ELSE stream[j]
  BY <1>1, OneRewritten DEF Streams
<1> QED BY <1>2 DEF GoesOn, Streams

LEMMA UnchangedGoesOn == ASSUME ChatInv, stream' = stream PROVE GoesOn
BY DEF GoesOn, ChatInv, ChatShape, Streams

LEMMA SaidStays ==
    ASSUME GoesOn
    PROVE  /\ \A i : Said(i) => Said(i)'
           /\ \A c, a, i : IsLast(c, a, i) => IsLast(c, a, i)'
           /\ AskedAgainWhenSaid => AskedAgainWhenSaid'
<1>1. \A i : Said(i) => Said(i)'
  BY DEF GoesOn, Said
<1>2. \A c, a, i : IsLast(c, a, i) => IsLast(c, a, i)'
  BY DEF GoesOn, IsLast
<1>3. AskedAgainWhenSaid => AskedAgainWhenSaid'
  BY <1>1 DEF GoesOn, AskedAgainWhenSaid
<1> QED BY <1>1, <1>2, <1>3

\* Every action but a call of runStream.
LEMMA ChatGoesOn ==
    ASSUME ChatInv, ChatShape', Conversations', GoesOn,
           \A c \in Convs : conv[c] # "none" => conv'[c] # "none",
           draft' = draft \/ draft' = 0 \/ draft' > typed, typed <= typed',
           \A n \in Streams : stream'[n].at \in Heard => stream[n].at \in Heard /\ active' = active,
           active' = 0 \/ (active' = active /\ selected' \in {selected, NoConv}),
           \/ attempt' = attempt /\ selected' = selected
           \/ attempt' = NoAttempt
           \/ /\ selected' = selected /\ active # 0
              /\ attempt'.ask = stream[active].ask /\ attempt'.id = stream[active].id
              /\ attempt'.ambiguous
                    \/ stream'[active].stopped \/ stream'[active].told # "nothing",
           \A c \in Convs : \A k \in DOMAIN store'[c] :
              \/ \E j \in DOMAIN store[c] : store'[c][k].ask = store[c][j].ask
                                            /\ store'[c][k].id = store[c][j].id
              \/ \E n \in Streams : /\ stream[n].conv = c
                                    /\ store'[c][k].ask = stream[n].ask
                                    /\ store'[c][k].id = stream[n].id
    PROVE  ChatInv'
<1>1. /\ \A i : Said(i) => Said(i)'
      /\ \A c, a, i : IsLast(c, a, i) => IsLast(c, a, i)'
      /\ AskedAgainWhenSaid'
  BY SaidStays DEF ChatInv
<1>2. \A n \in Streams : /\ stream[n] \in StreamType /\ stream'[n] \in StreamType
                         /\ stream[n].ask \in Nat /\ stream[n].ask # 0 /\ stream[n].conv \in Convs
  <2> TAKE n \in Streams
  <2>1. stream[n] \in StreamType
    BY StreamIs
  <2>2. stream'[n] \in StreamType
    BY ElementOfSeq DEF GoesOn, Streams
  <2> QED BY <2>1, <2>2 DEF StreamType
<1>3. active # 0 => active \in Streams
  BY DEF ChatInv, ChatShape, Streams
<1>4. typed \in Nat /\ draft \in Nat /\ typed' \in Nat /\ draft' \in Nat
  BY ChatBounds DEF ChatInv, ChatShape
<1>5. StreamsAreOfConversations'
  <2>1. ASSUME NEW n \in Streams
        PROVE  /\ conv'[stream'[n].conv] # "none"
               /\ stream'[n].ask <= typed' /\ stream'[n].ask # draft'
               /\ stream'[n].id <= Len(stream')
               /\ stream'[n].at \in Heard => active' = n
    <3>1. /\ conv[stream[n].conv] # "none" /\ stream[n].ask <= typed /\ stream[n].ask # draft
          /\ stream[n].id <= Len(stream) /\ (stream[n].at \in Heard => active = n)
      BY DEF ChatInv, StreamsAreOfConversations
    <3>2. stream'[n].ask <= typed' /\ stream'[n].ask # draft'
      BY <1>2, <1>4, <3>1 DEF GoesOn
    <3> QED BY <1>2, <3>1, <3>2 DEF GoesOn
  <2>2. ASSUME active' # 0
        PROVE  /\ selected' # NoConv => stream'[active'].conv = selected'
               /\ IsLast(stream[active].conv, stream[active].ask, stream[active].id)'
    <3>1. active' = active /\ active # 0 /\ active \in Streams
          /\ (selected' # NoConv => selected' = selected)
      BY <1>3, <2>2
    <3>2. /\ selected # NoConv => stream[active].conv = selected
          /\ IsLast(stream[active].conv, stream[active].ask, stream[active].id)
      BY <3>1 DEF ChatInv, StreamsAreOfConversations
    <3>3. PICK c, a, i : c = stream[active].conv /\ a = stream[active].ask /\ i = stream[active].id
      OBVIOUS
    <3>4. stream'[active'].conv = c /\ stream'[active'].ask = a /\ stream'[active'].id = i
      BY <3>1, <3>3 DEF GoesOn
    <3>5. IsLast(c, a, i)'
      BY <1>1, <3>2, <3>3
    <3> QED BY <3>1, <3>2, <3>3, <3>4, <3>5
  <2> QED BY <2>1, <2>2 DEF StreamsAreOfConversations, GoesOn
<1>6. AttemptIsLast'
  <2>1. CASE attempt' = attempt /\ selected' = selected
    BY <1>1, <2>1 DEF ChatInv, AttemptIsLast
  <2>2. CASE attempt' = NoAttempt
    BY <2>2 DEF AttemptIsLast, NoAttempt
  <2>3. CASE /\ selected' = selected /\ active # 0
             /\ attempt'.ask = stream[active].ask /\ attempt'.id = stream[active].id
             /\ attempt'.ambiguous
                    \/ stream'[active].stopped \/ stream'[active].told # "nothing"
    <3>1. attempt'.ask # 0
      BY <1>2, <1>3, <2>3
    <3>2. ASSUME selected' # NoConv
          PROVE  IsLast(selected, stream[active].ask, stream[active].id)
      BY <2>3, <3>2 DEF ChatInv, StreamsAreOfConversations
    <3>3. selected' # NoConv => IsLast(selected, attempt.ask, attempt.id)'
      BY <1>1, <2>3, <3>2
    <3>4. ASSUME ~attempt'.ambiguous PROVE Said(attempt.id)'
      <4>1. active \in Streams' /\ stream'[active].id = attempt'.id
        BY <1>3, <2>3 DEF GoesOn
      <4> QED BY <2>3, <3>4, <4>1 DEF Said
    <3> QED BY <3>1, <3>3, <3>4 DEF AttemptIsLast
  <2> QED BY <2>1, <2>2, <2>3
<1>7. TurnsWereSent'
  <2> SUFFICES ASSUME NEW c \in Convs, NEW k \in DOMAIN store'[c]
               PROVE  \E n \in Streams : /\ stream[n].conv = c
                                         /\ stream[n].ask = store'[c][k].ask
                                         /\ stream[n].id = store'[c][k].id
    BY DEF TurnsWereSent, GoesOn
  <2> QED BY DEF ChatInv, TurnsWereSent
<1> QED BY <1>1, <1>5, <1>6, <1>7 DEF ChatInv

LEMMA AbortedIs ==
    ASSUME ChatInv, NEW n \in Streams, NEW x, x = Aborted(n)
    PROVE  /\ x \in StreamType /\ x.conv = stream[n].conv /\ x.ask = stream[n].ask
           /\ x.id = stream[n].id /\ x.stopped = stream[n].stopped /\ x.told = stream[n].told
           /\ x.at \notin Heard
<1>1. stream[n] \in StreamType
  BY StreamIs
<1>2. PICK p : p = CASE stream[n].at = "running" -> "left"
                     [] stream[n].at = "posted" -> "late"
                     [] OTHER -> "over"
  OBVIOUS
<1>3. p \in StreamPlaces /\ p \notin Heard
  BY <1>2 DEF StreamPlaces, Heard
<1>4. x = [stream[n] EXCEPT !.at = p]
  BY <1>2 DEF Aborted
<1> QED BY <1>1, <1>3, <1>4 DEF StreamType

-----------------------------------------------------------------------------
(* A question is sent: every earlier time it was, in this conversation, it was heard of     *)

LEMMA RunStreamStep ==
    ASSUME ChatInv, ChatShape', Conversations', NEW c \in Convs, NEW ask \in Nat \ {0}, NEW id \in Nat,
           RunStream(c, ask, id), ask <= typed, id <= Len(stream) + 1,
           \A x \in Convs : conv[x] # "none" => conv'[x] # "none",
           conv'[c] # "none", selected' = c,
           draft' = 0 \/ (draft' = draft /\ ask # draft), typed' = typed, store' = store,
           \A m \in Streams : stream[m].conv = c /\ stream[m].ask = ask =>
              stream[m].id <= id /\ (stream[m].id < id => Said(stream[m].id))
    PROVE  ChatInv'
<1> DEFINE new == [conv |-> c, ask |-> ask, id |-> id, at |-> "posted", end |-> "none",
                   told |-> "nothing", stopped |-> FALSE]
<1>1. PICK old, k : /\ old = IF active # 0 THEN [stream EXCEPT ![active] = Aborted(active)] ELSE stream
                    /\ k = Len(stream)
  OBVIOUS
<1>2. /\ stream \in Seq(StreamType) /\ k \in Nat /\ Streams = 1 .. k
      /\ active # 0 => active \in Streams
  BY <1>1 DEF ChatInv, ChatShape, Streams
<1>3. /\ old \in Seq(StreamType) /\ Len(old) = k /\ DOMAIN old = 1 .. k
      /\ \A n \in 1 .. k :
            /\ old[n] \in StreamType
            /\ old[n].conv = stream[n].conv /\ old[n].ask = stream[n].ask /\ old[n].id = stream[n].id
            /\ old[n].stopped = stream[n].stopped /\ old[n].told = stream[n].told
            /\ old[n].at \notin Heard
  <2>1. \A n \in 1 .. k : stream[n] \in StreamType /\ (stream[n].at \in Heard => active = n)
    BY <1>2, StreamIs DEF ChatInv, StreamsAreOfConversations
  <2>2. CASE active = 0
    BY <1>1, <1>2, <2>1, <2>2
  <2>3. CASE active # 0
    <3>1. PICK x : x = Aborted(active)
      OBVIOUS
    <3>2. /\ x \in StreamType /\ x.conv = stream[active].conv /\ x.ask = stream[active].ask
          /\ x.id = stream[active].id /\ x.stopped = stream[active].stopped
          /\ x.told = stream[active].told /\ x.at \notin Heard
      BY <1>2, <2>3, <3>1, AbortedIs
    <3>3. /\ old \in Seq(StreamType) /\ Len(old) = Len(stream) /\ DOMAIN old = DOMAIN stream
          /\ \A j \in DOMAIN stream : old[j] = IF j = active THEN x ELSE stream[j]
      BY <1>1, <1>2, <2>3, <3>1, <3>2, OneRewritten DEF Streams
    <3> QED BY <1>1, <1>2, <2>1, <3>2, <3>3
  <2> QED BY <2>2, <2>3
<1>4. /\ stream' = Append(old, new) /\ active' = k + 1 /\ new \in StreamType
      /\ attempt' = [ask |-> ask, id |-> id, ambiguous |-> TRUE, retry |-> FALSE]
  BY <1>1 DEF RunStream, StreamType, StreamPlaces, Heard
<1>5. /\ stream' \in Seq(StreamType) /\ Len(stream') = k + 1 /\ Streams' = 1 .. (k + 1)
      /\ stream'[k + 1] = new /\ \A n \in 1 .. k : stream'[n] = old[n]
  BY <1>2, <1>3, <1>4 DEF Streams
<1>6. /\ new.conv = c /\ new.ask = ask /\ new.id = id /\ new.at = "posted"
      /\ ~new.stopped /\ new.told = "nothing"
  OBVIOUS
<1> HIDE DEF new
<1>7. \A i : Said(i) => Said(i)'
  <2> SUFFICES ASSUME NEW i, NEW n \in Streams, stream[n].id = i,
                      stream[n].stopped \/ stream[n].told # "nothing"
               PROVE  \E m \in Streams' : /\ stream'[m].id = i
                                          /\ (stream'[m].stopped \/ stream'[m].told # "nothing")
    BY DEF Said
  <2>1. n \in 1 .. k /\ n \in Streams'
    BY <1>2, <1>5
  <2>2. stream'[n] = old[n]
    BY <1>5, <2>1
  <2> QED BY <1>3, <2>1, <2>2
<1>8. IsLast(c, ask, id)'
  <2>1. k + 1 \in Streams'
    BY <1>2, <1>5
  <2>2. ASSUME NEW n \in 1 .. k, stream'[n].conv = c, stream'[n].ask = ask PROVE stream'[n].id <= id
    <3>1. stream'[n] = old[n]
      BY <1>5
    <3>2. /\ n \in Streams /\ stream[n].conv = c /\ stream[n].ask = ask
          /\ stream'[n].id = stream[n].id
      BY <1>2, <1>3, <2>2, <3>1
    <3> QED BY <3>2
  <2>3. \A n \in Streams' : n \in 1 .. k \/ n = k + 1
    BY <1>2, <1>5
  <2> QED BY <1>5, <1>6, <2>1, <2>2, <2>3 DEF IsLast
<1>9. /\ typed \in Nat /\ draft \in Nat
      /\ \A n \in 1 .. k : /\ stream[n].conv \in Convs /\ stream[n].ask \in Nat /\ stream[n].ask # 0
                           /\ stream[n].id \in Nat
  <2>1. \A n \in 1 .. k : stream[n] \in StreamType
    BY <1>2, StreamIs
  <2>2. typed \in Nat /\ draft \in Nat
    BY ChatBounds DEF ChatInv, ChatShape
  <2> QED BY <2>1, <2>2 DEF StreamType
<1>10. StreamsAreOfConversations'
  <2>1. ASSUME NEW n \in 1 .. k
        PROVE  /\ conv'[stream'[n].conv] # "none"
               /\ stream'[n].ask <= typed' /\ stream'[n].ask # draft'
               /\ stream'[n].id <= Len(stream')
               /\ stream'[n].at \in Heard => active' = n
    <3>1. /\ conv[stream[n].conv] # "none" /\ stream[n].ask <= typed /\ stream[n].ask # draft
          /\ stream[n].id <= k
      BY <1>1, <1>2 DEF ChatInv, StreamsAreOfConversations
    <3>2. /\ stream'[n].conv = stream[n].conv /\ stream'[n].ask = stream[n].ask
          /\ stream'[n].id = stream[n].id /\ stream'[n].at \notin Heard
      BY <1>3, <1>5
    <3>3. /\ stream[n].conv \in Convs /\ stream[n].ask \in Nat /\ stream[n].ask # 0
          /\ stream[n].id \in Nat /\ k \in Nat /\ Len(stream') = k + 1
      BY <1>2, <1>5, <1>9
    <3>4. conv'[stream[n].conv] # "none"
      BY <1>2, <3>1, <3>3
    <3>5. stream[n].ask <= typed' /\ stream[n].ask # draft'
      BY <1>2, <3>1, <3>3
    <3>6. stream[n].id <= Len(stream')
      BY <3>1, <3>3
    <3> QED BY <3>2, <3>4, <3>5, <3>6
  <2>2. /\ conv'[stream'[k + 1].conv] # "none"
        /\ stream'[k + 1].ask <= typed' /\ stream'[k + 1].ask # draft'
        /\ stream'[k + 1].id <= Len(stream')
        /\ stream'[k + 1].at \in Heard => active' = k + 1
    BY <1>1, <1>4, <1>5, <1>6
  <2>3. \A n \in Streams' : n \in 1 .. k \/ n = k + 1
    BY <1>2, <1>5
  <2>4. /\ stream'[active'].conv = c /\ selected' = c
        /\ stream'[active'].ask = ask /\ stream'[active'].id = id
    BY <1>4, <1>5, <1>6
  <2>5. IsLast(stream[active].conv, stream[active].ask, stream[active].id)'
    BY <1>8, <2>4
  <2> QED BY <2>1, <2>2, <2>3, <2>4, <2>5 DEF StreamsAreOfConversations
<1>11. AttemptIsLast'
  BY <1>4, <1>8 DEF AttemptIsLast
<1>12. AskedAgainWhenSaid'
  <2> SUFFICES ASSUME NEW m \in Streams', NEW n \in Streams',
                      stream'[m].conv = stream'[n].conv, stream'[m].ask = stream'[n].ask,
                      stream'[m].id < stream'[n].id
               PROVE  Said(stream[m].id)'
    BY DEF AskedAgainWhenSaid
  <2>1. (m \in 1 .. k \/ m = k + 1) /\ (n \in 1 .. k \/ n = k + 1)
    BY <1>2, <1>5
  <2>2. CASE m \in 1 .. k /\ n \in 1 .. k
    <3>1. Said(stream[m].id)
      BY <1>2, <1>3, <1>5, <2>2 DEF ChatInv, AskedAgainWhenSaid
    <3>2. stream'[m].id = stream[m].id
      BY <1>3, <1>5, <2>2
    <3> QED BY <1>7, <3>1, <3>2
  <2>3. CASE m \in 1 .. k /\ n = k + 1
    <3>1. /\ stream'[m].conv = stream[m].conv /\ stream'[m].ask = stream[m].ask
          /\ stream'[m].id = stream[m].id /\ stream'[n] = new /\ m \in Streams
      BY <1>2, <1>3, <1>5, <2>3
    <3>2. stream[m].conv = c /\ stream[m].ask = ask /\ stream[m].id < id
      BY <1>6, <3>1
    <3>3. Said(stream[m].id)
      BY <3>1, <3>2
    <3> QED BY <1>7, <3>1, <3>3
  <2>4. CASE m = k + 1
    <3>1. CASE n = k + 1
      BY <1>5, <1>6, <2>4, <3>1
    <3>2. CASE n \in 1 .. k
      <4>1. /\ stream'[n].conv = stream[n].conv /\ stream'[n].ask = stream[n].ask
            /\ stream'[n].id = stream[n].id /\ stream'[m] = new /\ n \in Streams
        BY <1>2, <1>3, <1>5, <2>4, <3>2
      <4>2. stream[n].conv = c /\ stream[n].ask = ask /\ id < stream[n].id
        BY <1>6, <4>1
      <4>3. stream[n].id <= id
        BY <4>1, <4>2
      <4> QED BY <1>9, <3>2, <4>2, <4>3
    <3> QED BY <2>1, <3>1, <3>2
  <2> QED BY <2>1, <2>2, <2>3, <2>4
<1>13. TurnsWereSent'
  <2> SUFFICES ASSUME NEW x \in Convs, NEW j \in DOMAIN store[x]
               PROVE  \E n \in Streams' : /\ stream'[n].conv = x
                                          /\ stream'[n].ask = store[x][j].ask
                                          /\ stream'[n].id = store[x][j].id
    BY DEF TurnsWereSent
  <2>1. PICK n \in Streams : /\ stream[n].conv = x /\ stream[n].ask = store[x][j].ask
                             /\ stream[n].id = store[x][j].id
    BY DEF ChatInv, TurnsWereSent
  <2> QED BY <1>2, <1>3, <1>5, <2>1
<1> QED BY <1>10, <1>11, <1>12, <1>13 DEF ChatInv

LEMMA NoConvIsNone == NoConv \notin Convs
BY ChatAssumption DEF NoConv

\* What becomes of the lists of messages and of the thread matters to nothing else.
LEMMA ListsStep ==
    ASSUME ChatInv, load' \in Seq(ListType), oldest' \in 0 .. 2,
           UNCHANGED <<conv, store, selected, draft, typed, stream, active, phase, attempt,
                       creating, deleting>>
    PROVE  ChatInv'
<1>1. ChatShape'
  BY DEF ChatInv, ChatShape
<1>2. Conversations'
  BY DEF ChatInv, Conversations
<1>3. GoesOn
  BY UnchangedGoesOn
<1>4. typed <= typed'
  BY ChatBounds DEF ChatInv, ChatShape
<1>5. active' = 0 \/ (active' = active /\ selected' \in {selected, NoConv})
  OBVIOUS
<1>6. TurnsWereSent
  BY DEF ChatInv
<1> QED BY <1>1, <1>2, <1>3, <1>4, <1>5, ChatGoesOn

LEMMA OneMoreList ==
    ASSUME ChatInv, NEW c \in Convs, NEW kind \in {"latest", "older"}
    PROVE  /\ Asked(c, kind) \in ListType
           /\ NewLoad(c, kind) \in Seq(ListType)
           /\ NewLoad(c, kind) \o <<Asked(c, kind)>> \in Seq(ListType)
<1>1. Asked(c, kind) \in ListType
  BY DEF Asked, ListType
<1>2. load \in Seq(ListType)
  BY DEF ChatInv, ChatShape
<1>3. NewLoad(c, kind) \in Seq(ListType)
  BY <1>1, <1>2 DEF NewLoad
<1>4. <<Asked(c, kind)>> \in Seq(ListType)
  BY <1>1
<1>5. NewLoad(c, kind) \o <<Asked(c, kind)>> \in Seq(ListType)
  BY <1>3, <1>4, ConcatProperties
<1> QED BY <1>1, <1>3, <1>5

LEMMA PageIs == ASSUME ChatInv, NEW c \in Convs PROVE Page(c) \in Seq(ShownTurn)
<1>1. store[c] \in Seq(StoredTurn)
  BY DEF ChatInv, ChatShape
<1>2. DOMAIN store[c] = 1 .. Len(store[c]) /\ Len(store[c]) \in Nat
  BY <1>1
<1>3. \A k \in 1 .. Len(store[c]) : [conv |-> c, id |-> store[c][k].id] \in ShownTurn
  <2> TAKE k \in 1 .. Len(store[c])
  <2>1. store[c][k] \in StoredTurn
    BY <1>1, ElementOfSeq
  <2> QED BY <2>1 DEF StoredTurn, ShownTurn
<1>4. Page(c) = [k \in 1 .. Len(store[c]) |-> [conv |-> c, id |-> store[c][k].id]]
  BY <1>2 DEF Page
<1> QED BY <1>2, <1>3, <1>4

LEMMA LoadAnsweredStep == ASSUME ChatInv, NEW l \in Loads, LoadIsAnswered(l) PROVE ChatInv'
<1>1. load \in Seq(ListType) /\ l \in 1 .. Len(load) /\ DOMAIN load = 1 .. Len(load) /\ oldest \in 0 .. 2
  BY DEF ChatInv, ChatShape, Loads
<1>2. load[l] \in ListType
  BY <1>1, ElementOfSeq
<1>3. PICK pg : pg = Page(load[l].conv)
  OBVIOUS
<1>4. CASE load[l].conv \in Live /\ load' = [load EXCEPT ![l].at = "read", ![l].page = Page(load[l].conv)]
  <2>1. load[l].conv \in Convs
    BY <1>4 DEF Live
  <2>2. pg \in Seq(ShownTurn)
    BY <1>3, <2>1, PageIs
  <2> DEFINE x == [load[l] EXCEPT !.at = "read", !.page = pg]
  <2>3. x \in ListType
    BY <1>2, <2>2 DEF ListType
  <2>4. load' = [load EXCEPT ![l] = x]
    BY <1>1, <1>3, <1>4
  <2> HIDE DEF x
  <2>5. load' \in Seq(ListType)
    BY <1>1, <2>3, <2>4, OneRewritten
  <2> QED BY <1>1, <2>5, ListsStep DEF LoadIsAnswered, panel
<1>5. CASE load' = [load EXCEPT ![l].at = "failed"]
  <2> DEFINE x == [load[l] EXCEPT !.at = "failed"]
  <2>1. x \in ListType
    BY <1>2 DEF ListType
  <2>2. load' = [load EXCEPT ![l] = x]
    BY <1>1, <1>5
  <2> HIDE DEF x
  <2>3. load' \in Seq(ListType)
    BY <1>1, <2>1, <2>2, OneRewritten
  <2> QED BY <1>1, <2>3, ListsStep DEF LoadIsAnswered, panel
<1> QED BY <1>4, <1>5 DEF LoadIsAnswered

LEMMA DeliverStep == ASSUME ChatInv, NEW l \in Loads, DeliverEvent(l) PROVE ChatInv'
<1>1. load \in Seq(ListType) /\ l \in 1 .. Len(load) /\ DOMAIN load = 1 .. Len(load) /\ oldest \in 0 .. 2
  BY DEF ChatInv, ChatShape, Loads
<1>2. QuestionAnswered \in ListType
  <2>1. <<>> \in Seq(ShownTurn)
    OBVIOUS
  <2> QED BY <2>1 DEF QuestionAnswered, ListType
<1>3. load' \in Seq(ListType)
  BY <1>1, <1>2, OneRewritten DEF DeliverEvent
<1>4. oldest' \in 0 .. 2
  BY <1>1 DEF DeliverEvent
<1> QED BY <1>3, <1>4, ListsStep DEF DeliverEvent

LEMMA LoadMoreStep == ASSUME ChatInv, LoadMore PROVE ChatInv'
<1>1. selected \in Convs
  BY DEF LoadMore, ChatInv, ChatShape
<1>2. load' \in Seq(ListType) /\ oldest' \in 0 .. 2
  BY <1>1, OneMoreList DEF LoadMore, ChatInv, ChatShape
<1> QED BY <1>2, ListsStep DEF LoadMore

LEMMA OpenPanelStep == ASSUME ChatInv, OpenPanel PROVE ChatInv'
<1>1. load \in Seq(ListType) /\ oldest' \in 0 .. 2
  BY DEF OpenPanel, ChatInv, ChatShape
<1>2. load' = load \/ (selected \in Convs /\ load' = NewLoad(selected, "latest"))
  BY DEF OpenPanel, ChatInv, ChatShape
<1>3. load' \in Seq(ListType)
  BY <1>1, <1>2, OneMoreList
<1> QED BY <1>1, <1>3, ListsStep DEF OpenPanel

LEMMA ClosePanelStep == ASSUME ChatInv, ClosePanel PROVE ChatInv'
BY ListsStep DEF ClosePanel, ChatInv, ChatShape

LEMMA ThreadIs ==
    ASSUME ChatInv
    PROVE  /\ conv \in [Convs -> {"none", "live", "deleted"}]
           /\ store \in [Convs -> Seq(StoredTurn)]
           /\ selected \in Convs \cup {NoConv} /\ oldest \in 0 .. 2
           /\ typed \in Nat /\ typed \in 0 .. MaxQuestions /\ draft \in Nat /\ draft \in 0 .. typed
           /\ stream \in Seq(StreamType) /\ active \in 0 .. Len(stream)
           /\ (active # 0 => active \in Streams)
           /\ (phase = "idle" <=> active = 0)
           /\ attempt \in AttemptType /\ NoAttempt \in AttemptType
           /\ load \in Seq(ListType)
           /\ creating \subseteq [conv : Convs, ask : 0 .. typed]
           /\ deleting \in DeletionType /\ NoDeletion \in DeletionType
BY ChatBounds DEF ChatInv, ChatShape, Streams, NoAttempt, AttemptType, NoDeletion, DeletionType

LEMMA Detached ==
    ASSUME ChatInv, DetachActiveStream
    PROVE  /\ GoesOn /\ active' = 0 /\ phase' = "idle" /\ stream' \in Seq(StreamType)
           /\ \A n \in Streams : stream'[n].at \notin Heard
<1>1. \A n \in Streams : stream[n].at \in Heard => active = n
  BY DEF ChatInv, StreamsAreOfConversations
<1>2. CASE active = 0
  <2>1. stream' = stream /\ active' = 0 /\ phase' = "idle"
    BY <1>2 DEF DetachActiveStream
  <2>2. \A n \in Streams : n # 0
    BY StreamIs
  <2> QED BY <1>1, <1>2, <2>1, <2>2, UnchangedGoesOn, ThreadIs
<1>3. CASE active # 0
  <2>1. active \in Streams
    BY <1>3, ThreadIs
  <2>2. PICK x : x = Aborted(active)
    OBVIOUS
  <2>3. /\ x \in StreamType /\ x.conv = stream[active].conv /\ x.ask = stream[active].ask
        /\ x.id = stream[active].id /\ x.stopped = stream[active].stopped
        /\ x.told = stream[active].told /\ x.at \notin Heard
    BY <2>1, <2>2, AbortedIs
  <2>4. stream' = [stream EXCEPT ![active] = x] /\ active' = 0 /\ phase' = "idle"
    BY <1>3, <2>2 DEF DetachActiveStream
  <2>5. GoesOn /\ stream'[active] = x /\ \A m \in Streams : m # active => stream'[m] = stream[m]
    BY <2>1, <2>3, <2>4, RewrittenGoesOn
  <2> QED BY <1>1, <2>3, <2>4, <2>5 DEF GoesOn
<1> QED BY <1>2, <1>3

\* Nobody reads a stream any more, and what could be retried is kept with its conversation.
LEMMA DetachedStep ==
    ASSUME ChatInv, DetachActiveStream,
           conv' \in [Convs -> {"none", "live", "deleted"}],
           selected' \in Convs \cup {NoConv}, oldest' \in 0 .. 2,
           load' \in Seq(ListType), creating' \subseteq [conv : Convs, ask : 0 .. typed],
           deleting' \in DeletionType,
           Conversations', \A c \in Convs : conv[c] # "none" => conv'[c] # "none",
           draft' = draft, typed' = typed, store' = store,
           attempt' = NoAttempt \/ (attempt' = attempt /\ selected' = selected)
    PROVE  ChatInv'
<1>1. /\ GoesOn /\ active' = 0 /\ phase' = "idle" /\ stream' \in Seq(StreamType)
      /\ \A n \in Streams : stream'[n].at \notin Heard
  BY Detached
<1>2. Len(stream') \in Nat
  BY <1>1
<1>3. ChatShape'
  BY <1>1, <1>2, ThreadIs DEF ChatShape
<1>4. typed <= typed'
  BY ThreadIs
<1> QED BY <1>1, <1>3, <1>4, ChatGoesOn

LEMMA SelectConversationStep ==
    ASSUME ChatInv, NEW c \in Convs, SelectConversation(c) PROVE ChatInv'
<1>1. load' \in Seq(ListType)
  BY OneMoreList DEF SelectConversation, Select
<1>2. conv[c] # "none"
  BY DEF SelectConversation, Live
<1>3. /\ selected' = c /\ oldest' = 0 /\ attempt' = NoAttempt
      /\ UNCHANGED <<conv, store, draft, typed, creating, deleting>>
  BY DEF SelectConversation, Select
<1>4. Conversations'
  BY <1>2, <1>3 DEF ChatInv, Conversations
<1> QED BY <1>1, <1>3, <1>4, DetachedStep, ThreadIs DEF SelectConversation

LEMMA StartConversationStep == ASSUME ChatInv, StartConversation PROVE ChatInv'
<1>1. PICK c \in UnusedConvs : creating' = creating \cup {[conv |-> c, ask |-> 0]}
  BY DEF StartConversation
<1>2. /\ c \in Convs /\ conv[c] = "none" /\ \A p \in creating : p.conv # c
  BY DEF UnusedConvs
<1>3. UNCHANGED <<conv, store, selected, oldest, draft, typed, load, deleting>>
  BY DEF StartConversation
<1>4. creating' \subseteq [conv : Convs, ask : 0 .. typed]
  BY <1>1, <1>2, ThreadIs
<1>5. Conversations'
  BY <1>1, <1>2, <1>3 DEF ChatInv, Conversations
<1>6. attempt' = NoAttempt \/ attempt' = attempt
  BY DEF StartConversation
<1> QED BY <1>3, <1>4, <1>5, <1>6, DetachedStep, ThreadIs DEF StartConversation

LEMMA CreatedConversation ==
    ASSUME ChatInv, NEW p \in creating, conv' = [conv EXCEPT ![p.conv] = "live"]
    PROVE  /\ p.conv \in Convs /\ p.ask \in 0 .. typed /\ conv[p.conv] = "none"
           /\ conv' \in [Convs -> {"none", "live", "deleted"}]
           /\ conv'[p.conv] # "none" /\ \A c \in Convs : conv[c] # "none" => conv'[c] # "none"
           /\ \A q \in creating \ {p} : conv'[q.conv] = "none"
<1>1. p.conv \in Convs /\ p.ask \in 0 .. typed /\ \A q \in creating : q.conv \in Convs
  BY ThreadIs
<1>2. /\ conv[p.conv] = "none" /\ \A q \in creating : conv[q.conv] = "none"
      /\ \A q \in creating : p.conv = q.conv => p = q
  BY DEF ChatInv, Conversations
<1> QED BY <1>1, <1>2, ThreadIs

LEMMA ConversationCreatedStep ==
    ASSUME ChatInv, NEW p \in creating, ConversationCreated(p) PROVE ChatInv'
<1>1. /\ p.conv \in Convs /\ p.ask \in 0 .. typed /\ conv[p.conv] = "none"
      /\ conv' \in [Convs -> {"none", "live", "deleted"}]
      /\ conv'[p.conv] # "none" /\ \A c \in Convs : conv[c] # "none" => conv'[c] # "none"
      /\ \A q \in creating \ {p} : conv'[q.conv] = "none"
  BY CreatedConversation DEF ConversationCreated
<1>2. load' \in Seq(ListType)
  BY <1>1, OneMoreList DEF ConversationCreated, Select
<1>3. /\ selected' = p.conv /\ oldest' = 0 /\ attempt' = NoAttempt /\ creating' = creating \ {p}
      /\ UNCHANGED <<store, draft, typed, deleting>>
  BY DEF ConversationCreated, Select
<1>4. Conversations'
  BY <1>1, <1>3 DEF ChatInv, Conversations
<1> QED BY <1>1, <1>2, <1>3, <1>4, DetachedStep, ThreadIs DEF ConversationCreated

\* Nothing happens to the stream being read.
LEMMA SameStreamStep ==
    ASSUME ChatInv,
           conv' \in [Convs -> {"none", "live", "deleted"}],
           store' \in [Convs -> Seq(StoredTurn)],
           selected' = selected \/ (attempt' = NoAttempt /\ selected' = NoConv),
           oldest' \in 0 .. 2, typed' \in typed .. MaxQuestions,
           draft' = draft \/ draft' = typed',
           draft' = draft \/ draft' > typed,
           creating' \subseteq [conv : Convs, ask : 0 .. typed'],
           deleting' \in DeletionType,
           UNCHANGED <<stream, active, phase, load>>,
           attempt' = NoAttempt \/ attempt' = attempt,
           Conversations', \A c \in Convs : conv[c] # "none" => conv'[c] # "none",
           \A c \in Convs : store'[c] = store[c] \/ store'[c] = <<>>
    PROVE  ChatInv'
<1>1. GoesOn
  BY UnchangedGoesOn
<1>2. typed' \in 0 .. MaxQuestions /\ draft' \in 0 .. typed' /\ typed <= typed'
  BY ChatBounds, ThreadIs
<1>3. ChatShape'
  BY <1>2, ThreadIs DEF ChatShape
<1>4. \A c \in Convs : \A k \in DOMAIN store'[c] :
        \E j \in DOMAIN store[c] : store'[c][k].ask = store[c][j].ask
                                   /\ store'[c][k].id = store[c][j].id
  <2> SUFFICES ASSUME NEW c \in Convs, NEW k \in DOMAIN store'[c] PROVE store'[c] = store[c]
    OBVIOUS
  <2>1. DOMAIN <<>> = {}
    OBVIOUS
  <2> QED BY <2>1
<1>5. active' = 0 \/ (active' = active /\ selected' \in {selected, NoConv})
  OBVIOUS
<1> QED BY <1>1, <1>2, <1>3, <1>4, <1>5, ChatGoesOn

LEMMA CreationFailsStep == ASSUME ChatInv, NEW p \in creating, CreationFails(p) PROVE ChatInv'
<1>1. /\ creating' = creating \ {p}
      /\ UNCHANGED <<conv, store, selected, oldest, draft, typed, stream, active, phase, attempt,
                     load, deleting>>
  BY DEF CreationFails
<1>2. Conversations'
  BY <1>1 DEF ChatInv, Conversations
<1>3. typed' \in typed .. MaxQuestions
  BY <1>1, ChatBounds, ThreadIs
<1> QED BY <1>1, <1>2, <1>3, SameStreamStep, ThreadIs

LEMMA RemoveConversationStep ==
    ASSUME ChatInv, NEW c \in Convs, RemoveConversation(c) PROVE ChatInv'
<1>1. /\ deleting' = [conv |-> c, selected |-> selected] /\ conv[c] # "none"
      /\ UNCHANGED <<conv, store, selected, oldest, draft, typed, load, creating>>
  BY DEF RemoveConversation, Live
<1>2. Conversations' /\ deleting' \in DeletionType
  BY <1>1, ThreadIs DEF ChatInv, Conversations, DeletionType
<1>3. CASE active # 0 /\ stream[active].conv = c
  <2>1. DetachActiveStream /\ attempt' = NoAttempt
    BY <1>3 DEF RemoveConversation
  <2> QED BY <1>1, <1>2, <2>1, DetachedStep, ThreadIs
<1>4. CASE ~(active # 0 /\ stream[active].conv = c)
  <2>1. UNCHANGED <<stream, active, phase, attempt>>
    BY <1>4 DEF RemoveConversation
  <2>2. typed' \in typed .. MaxQuestions
    BY <1>1, ChatBounds, ThreadIs
  <2> QED BY <1>1, <1>2, <2>1, <2>2, SameStreamStep, ThreadIs
<1> QED BY <1>3, <1>4

LEMMA DeletedStep == ASSUME ChatInv, Deleted PROVE ChatInv'
<1>1. PICK d : d = deleting.conv
  OBVIOUS
<1>2. /\ d \in Convs /\ conv[d] # "none" /\ deleting' = NoDeletion /\ deleting' \in DeletionType
      /\ UNCHANGED <<draft, typed, stream, active, phase, load, creating>>
      /\ \A p \in creating : p.conv \in Convs /\ conv[p.conv] = "none" /\ p.conv # d
  BY <1>1, ThreadIs DEF Deleted, ChatInv, Conversations
<1>3. typed' \in typed .. MaxQuestions
  BY <1>2, ChatBounds, ThreadIs
<1>4. CASE UNCHANGED <<conv, store, selected, messages, oldest, attempt>>
  <2>1. Conversations'
    BY <1>2, <1>4 DEF ChatInv, Conversations
  <2> QED BY <1>2, <1>3, <1>4, <2>1, SameStreamStep, ThreadIs
<1>5. CASE /\ conv' = [conv EXCEPT ![d] = "deleted"]
           /\ store' = [store EXCEPT ![d] = <<>>]
           /\ IF deleting.selected = d
              THEN selected' = NoConv /\ messages' = <<>> /\ oldest' = 0 /\ attempt' = NoAttempt
              ELSE UNCHANGED <<selected, messages, oldest, attempt>>
  <2>1. /\ conv' \in [Convs -> {"none", "live", "deleted"}]
        /\ \A c \in Convs : conv'[c] = IF c = d THEN "deleted" ELSE conv[c]
    BY <1>2, <1>5, ThreadIs
  <2>2. store' \in [Convs -> Seq(StoredTurn)] /\ \A c \in Convs : store'[c] = store[c] \/ store'[c] = <<>>
    <3>1. <<>> \in Seq(StoredTurn)
      OBVIOUS
    <3> QED BY <1>2, <1>5, <3>1, ThreadIs
  <2>3. selected' = selected \/ (attempt' = NoAttempt /\ selected' = NoConv)
    BY <1>5
  <2>4. oldest' \in 0 .. 2 /\ (attempt' = NoAttempt \/ attempt' = attempt)
    BY <1>5, ThreadIs
  <2>5. Conversations'
    <3>1. selected' # NoConv => selected' \in Convs /\ conv[selected'] # "none"
      BY <2>3, ThreadIs DEF ChatInv, Conversations
    <3> QED BY <1>2, <2>1, <3>1 DEF ChatInv, Conversations
  <2> QED BY <1>2, <1>3, <2>1, <2>2, <2>3, <2>4, <2>5, SameStreamStep, ThreadIs
<1> QED BY <1>1, <1>4, <1>5 DEF Deleted

LEMMA TypeStep == ASSUME ChatInv, Type PROVE ChatInv'
<1>1. /\ typed' = typed + 1 /\ draft' = typed + 1 /\ typed < MaxQuestions
      /\ UNCHANGED <<conv, store, selected, oldest, stream, active, phase, attempt, load, creating,
                     deleting>>
  BY DEF Type
<1>2. /\ typed' \in typed .. MaxQuestions /\ draft' > typed /\ 0 .. typed \subseteq 0 .. typed'
  BY <1>1, ChatBounds, ThreadIs
<1>3. creating' \subseteq [conv : Convs, ask : 0 .. typed']
  <2>1. creating \subseteq [conv : Convs, ask : 0 .. typed]
    BY ThreadIs
  <2> QED BY <1>1, <1>2, <2>1
<1>4. Conversations'
  BY <1>1 DEF ChatInv, Conversations
<1> QED BY <1>1, <1>2, <1>3, <1>4, SameStreamStep, ThreadIs

\* What the server or the reader does to one stream; the tab keeps its conversation.
LEMMA OneStreamStep ==
    ASSUME ChatInv, NEW n \in Streams, NEW x \in StreamType, stream' = [stream EXCEPT ![n] = x],
           x.conv = stream[n].conv, x.ask = stream[n].ask, x.id = stream[n].id,
           stream[n].stopped => x.stopped, stream[n].told # "nothing" => x.told # "nothing",
           UNCHANGED <<conv, selected, oldest, draft, typed, load, creating, deleting>>,
           store' \in [Convs -> Seq(StoredTurn)],
           active' = active \/ (active' = 0 /\ active = n),
           phase' = "idle" <=> active' = 0,
           x.at \in Heard => stream[n].at \in Heard /\ active' = active,
           attempt' \in AttemptType,
           \/ attempt' = attempt
           \/ attempt' = NoAttempt
           \/ /\ active = n /\ attempt'.ask = stream[n].ask /\ attempt'.id = stream[n].id
              /\ attempt'.ambiguous \/ x.stopped \/ x.told # "nothing",
           \A c \in Convs : \A k \in DOMAIN store'[c] :
              \/ \E j \in DOMAIN store[c] : store'[c][k].ask = store[c][j].ask
                                            /\ store'[c][k].id = store[c][j].id
              \/ /\ stream[n].conv = c /\ store'[c][k].ask = stream[n].ask
                 /\ store'[c][k].id = stream[n].id
    PROVE  ChatInv'
<1>1. GoesOn /\ stream'[n] = x /\ \A m \in Streams : m # n => stream'[m] = stream[m]
  BY RewrittenGoesOn
<1>2. ChatShape'
  <2>1. active' \in 0 .. Len(stream')
    BY <1>1, ThreadIs DEF GoesOn
  <2> QED BY <1>1, <2>1, ThreadIs DEF ChatShape, GoesOn
<1>3. Conversations'
  BY DEF ChatInv, Conversations
<1>4. typed <= typed' /\ n # 0
  BY ThreadIs, StreamIs
<1>5. \A m \in Streams : stream[m].at \in Heard => active = m
  BY DEF ChatInv, StreamsAreOfConversations
<1>6. \A m \in Streams : stream'[m].at \in Heard => stream[m].at \in Heard /\ active' = active
  BY <1>1, <1>5
<1>7. active' = 0 \/ (active' = active /\ selected' \in {selected, NoConv})
  OBVIOUS
<1>8. \/ attempt' = attempt /\ selected' = selected
      \/ attempt' = NoAttempt
      \/ /\ selected' = selected /\ active # 0
         /\ attempt'.ask = stream[active].ask /\ attempt'.id = stream[active].id
         /\ attempt'.ambiguous \/ stream'[active].stopped \/ stream'[active].told # "nothing"
  BY <1>1, <1>4
<1>9. \A c \in Convs : \A k \in DOMAIN store'[c] :
         \/ \E j \in DOMAIN store[c] : store'[c][k].ask = store[c][j].ask
                                       /\ store'[c][k].id = store[c][j].id
         \/ \E m \in Streams : /\ stream[m].conv = c
                               /\ store'[c][k].ask = stream[m].ask
                               /\ store'[c][k].id = stream[m].id
  OBVIOUS
<1>10. \A c \in Convs : conv[c] # "none" => conv'[c] # "none"
  OBVIOUS
<1> QED BY <1>1, <1>2, <1>3, <1>4, <1>6, <1>7, <1>8, <1>9, <1>10, ChatGoesOn

LEMMA StopStep == ASSUME ChatInv, StopStreaming PROVE ChatInv'
<1>1. active \in Streams /\ stream[active] \in StreamType
  BY ThreadIs, StreamIs DEF StopStreaming
<1> DEFINE x == [stream[active] EXCEPT !.stopped = TRUE]
<1>2. /\ x \in StreamType /\ x.conv = stream[active].conv /\ x.ask = stream[active].ask
      /\ x.id = stream[active].id /\ x.stopped /\ x.told = stream[active].told
      /\ x.at = stream[active].at
  BY <1>1 DEF StreamType
<1>3. stream' = [stream EXCEPT ![active] = x]
  BY <1>1, ThreadIs DEF StopStreaming
<1> HIDE DEF x
<1>4. UNCHANGED <<conv, store, selected, oldest, draft, typed, load, creating, deleting, active, phase,
                  attempt>>
  BY DEF StopStreaming, panel
<1> QED BY <1>1, <1>2, <1>3, <1>4, OneStreamStep, ThreadIs

LEMMA ServerReceivesStep == ASSUME ChatInv, NEW n \in Streams, ServerReceives(n) PROVE ChatInv'
<1>1. stream[n] \in StreamType /\ n \in Streams
  BY StreamIs
<1>2. PICK c, id, heard : /\ c = stream[n].conv /\ id = stream[n].id
                          /\ heard = (stream[n].at = "posted")
  OBVIOUS
<1>3. /\ c \in Convs /\ id \in Nat /\ stream[n].ask \in Nat
      /\ UNCHANGED <<conv, selected, oldest, draft, typed, load, creating, deleting, active, phase,
                     attempt>>
  BY <1>1, <1>2 DEF ServerReceives, panel, StreamType
<1>4. ASSUME NEW p \in StreamPlaces, NEW e \in TurnStatuses \cup {"none"},
             stream' = [stream EXCEPT ![n] = [stream[n] EXCEPT !.at = p, !.end = e]],
             p \in Heard => stream[n].at = "posted",
             store' \in [Convs -> Seq(StoredTurn)],
             \A y \in Convs : \A k \in DOMAIN store'[y] :
              \/ \E j \in DOMAIN store[y] : store'[y][k].ask = store[y][j].ask
                                            /\ store'[y][k].id = store[y][j].id
              \/ /\ stream[n].conv = y /\ store'[y][k].ask = stream[n].ask
                 /\ store'[y][k].id = stream[n].id
      PROVE  ChatInv'
  <2> DEFINE x == [stream[n] EXCEPT !.at = p, !.end = e]
  <2>1. /\ x \in StreamType /\ x.conv = stream[n].conv /\ x.ask = stream[n].ask
        /\ x.id = stream[n].id /\ x.stopped = stream[n].stopped /\ x.told = stream[n].told /\ x.at = p
    BY <1>1, <1>4 DEF StreamType
  <2>2. stream' = [stream EXCEPT ![n] = x]
    BY <1>4
  <2> HIDE DEF x
  <2>3. x.at \in Heard => stream[n].at \in Heard /\ active' = active
    BY <1>3, <1>4, <2>1 DEF Heard
  <2>4. /\ phase' = "idle" <=> active' = 0
        /\ attempt' \in AttemptType /\ attempt' = attempt /\ active' = active
    BY <1>3, ThreadIs
  <2>5. /\ stream[n].stopped => x.stopped
        /\ stream[n].told # "nothing" => x.told # "nothing"
    BY <2>1
  <2>6. UNCHANGED <<conv, selected, oldest, draft, typed, load, creating, deleting>>
    BY <1>3
  <2>7. /\ x \in StreamType /\ x.conv = stream[n].conv /\ x.ask = stream[n].ask
        /\ x.id = stream[n].id
    BY <2>1
  <2> QED BY <1>4, <2>2, <2>3, <2>4, <2>5, <2>6, <2>7, OneStreamStep
<1>5. {"posted", "late", "refused", "running", "left", "answered", "over"} = StreamPlaces
  BY DEF StreamPlaces, Heard
<1>6. stream[n].end \in TurnStatuses \cup {"none"}
  BY <1>1 DEF StreamType
<1>7. ASSUME store' = store
      PROVE  /\ store' \in [Convs -> Seq(StoredTurn)]
             /\ \A y \in Convs : \A k \in DOMAIN store'[y] :
                  \E j \in DOMAIN store[y] : store'[y][k].ask = store[y][j].ask
                                             /\ store'[y][k].id = store[y][j].id
  BY <1>7, ThreadIs
<1>8. CASE /\ stream' = [stream EXCEPT ![n].at = IF heard THEN "refused" ELSE "over"]
           /\ UNCHANGED store
  <2>1. PICK p : p = IF heard THEN "refused" ELSE "over"
    OBVIOUS
  <2>2. p \in StreamPlaces /\ (p \in Heard => stream[n].at = "posted")
    BY <1>2, <1>5, <2>1 DEF Heard
  <2>3. stream' = [stream EXCEPT ![n] = [stream[n] EXCEPT !.at = p, !.end = stream[n].end]]
    BY <1>1, <1>8, <2>1, ThreadIs DEF StreamType
  <2> QED BY <1>4, <1>6, <1>7, <1>8, <2>2, <2>3
<1>9. CASE /\ TurnOf(c, id) # {}
           /\ stream' = [stream EXCEPT ![n].at = IF heard THEN "answered" ELSE "over",
                                   ![n].end = store[c][CHOOSE k \in TurnOf(c, id) : TRUE].status]
           /\ UNCHANGED store
  <2>1. PICK p, e : /\ p = IF heard THEN "answered" ELSE "over"
                    /\ e = store[c][CHOOSE k \in TurnOf(c, id) : TRUE].status
    OBVIOUS
  <2>2. p \in StreamPlaces /\ (p \in Heard => stream[n].at = "posted")
    BY <1>2, <1>5, <2>1 DEF Heard
  <2>3. e \in TurnStatuses
    <3>1. PICK k : k = CHOOSE j \in TurnOf(c, id) : TRUE
      OBVIOUS
    <3>2. k \in DOMAIN store[c] /\ e = store[c][k].status /\ store[c] \in Seq(StoredTurn)
      BY <1>3, <1>9, <2>1, <3>1, ThreadIs DEF TurnOf
    <3>3. store[c][k] \in StoredTurn
      BY <3>2, ElementOfSeq
    <3> QED BY <3>2, <3>3 DEF StoredTurn
  <2>4. stream' = [stream EXCEPT ![n] = [stream[n] EXCEPT !.at = p, !.end = e]]
    BY <1>1, <1>9, <2>1, ThreadIs DEF StreamType
  <2> QED BY <1>4, <1>7, <1>9, <2>2, <2>3, <2>4
<1>10. CASE /\ stream' = [stream EXCEPT ![n].at = IF heard THEN "running" ELSE "left"]
            /\ store' = [store EXCEPT ![c] = Append(@, [id |-> id, ask |-> stream[n].ask,
                                                        status |-> "PENDING"])]
  <2>1. PICK p : p = IF heard THEN "running" ELSE "left"
    OBVIOUS
  <2>2. p \in StreamPlaces /\ (p \in Heard => stream[n].at = "posted")
    BY <1>2, <1>5, <2>1 DEF Heard
  <2>3. stream' = [stream EXCEPT ![n] = [stream[n] EXCEPT !.at = p, !.end = stream[n].end]]
    BY <1>1, <1>10, <2>1, ThreadIs DEF StreamType
  <2> DEFINE t == [id |-> id, ask |-> stream[n].ask, status |-> "PENDING"]
  <2>4. t \in StoredTurn /\ t.id = id /\ t.ask = stream[n].ask
    BY <1>3 DEF StoredTurn, TurnStatuses
  <2>5. store' = [store EXCEPT ![c] = Append(store[c], t)] /\ store \in [Convs -> Seq(StoredTurn)]
    BY <1>10, ThreadIs
  <2> HIDE DEF t
  <2>6. store' \in [Convs -> Seq(StoredTurn)]
    BY <1>3, <2>4, <2>5
  <2>7. ASSUME NEW y \in Convs, NEW k \in DOMAIN store'[y]
        PROVE  \/ \E j \in DOMAIN store[y] : store'[y][k].ask = store[y][j].ask
                                            /\ store'[y][k].id = store[y][j].id
               \/ /\ stream[n].conv = y /\ store'[y][k].ask = stream[n].ask
                  /\ store'[y][k].id = stream[n].id
    <3>1. CASE y # c
      BY <1>3, <2>5, <2>7, <3>1
    <3>2. CASE y = c
      <4>1. store'[y] = Append(store[c], t) /\ store[c] \in Seq(StoredTurn)
        BY <1>3, <2>5, <3>2
      <4>2. \/ k \in DOMAIN store[c] /\ store'[y][k] = store[c][k]
            \/ store'[y][k] = t
        BY <2>4, <2>7, <4>1
      <4> QED BY <1>2, <2>4, <3>2, <4>2
    <3> QED BY <3>1, <3>2
  <2> QED BY <1>4, <1>6, <2>2, <2>3, <2>6, <2>7
<1> QED BY <1>2, <1>8, <1>9, <1>10 DEF ServerReceives

LEMMA ServerEndsStep ==
    ASSUME ChatInv, NEW n \in Streams, NEW how \in {"COMPLETED", "FAILED"}, ServerEnds(n, how)
    PROVE  ChatInv'
<1>1. stream[n] \in StreamType /\ n \in Streams
  BY StreamIs
<1>2. PICK c, id, p : /\ c = stream[n].conv /\ id = stream[n].id
                      /\ p = IF stream[n].at = "left" THEN "over" ELSE "answered"
  OBVIOUS
<1>3. /\ c \in Convs /\ stream[n].at \in {"running", "left"}
      /\ UNCHANGED <<conv, selected, oldest, draft, typed, load, creating, deleting, active, phase,
                     attempt>>
  BY <1>1, <1>2 DEF ServerEnds, panel, StreamType
<1> DEFINE x == [stream[n] EXCEPT !.at = p, !.end = how]
<1>4. /\ x \in StreamType /\ x.conv = stream[n].conv /\ x.ask = stream[n].ask
      /\ x.id = stream[n].id /\ x.stopped = stream[n].stopped /\ x.told = stream[n].told
      /\ x.at \in Heard => stream[n].at \in Heard
  BY <1>1, <1>2, <1>3 DEF StreamType, StreamPlaces, Heard, TurnStatuses
<1>5. stream' = [stream EXCEPT ![n] = x]
  BY <1>1, <1>2, ThreadIs DEF ServerEnds, StreamType
<1> HIDE DEF x
<1>6. store[c] \in Seq(StoredTurn) /\ \A k \in DOMAIN store[c] : store[c][k] \in StoredTurn
  <2>1. store[c] \in Seq(StoredTurn)
    BY <1>3, ThreadIs
  <2> QED BY <2>1, ElementOfSeq
<1> DEFINE ended(t) == IF t.id = id THEN [t EXCEPT !.status = how] ELSE t
           turns == [k \in DOMAIN store[c] |-> ended(store[c][k])]
<1>7. \A t \in StoredTurn : ended(t) \in StoredTurn /\ ended(t).id = t.id /\ ended(t).ask = t.ask
  BY DEF StoredTurn, TurnStatuses
<1>8. store' = [store EXCEPT ![c] = turns]
  BY <1>2, <1>3, ThreadIs DEF ServerEnds
<1> HIDE DEF ended
<1>9. turns \in Seq(StoredTurn) /\ DOMAIN turns = DOMAIN store[c]
      /\ \A k \in DOMAIN store[c] : turns[k].id = store[c][k].id /\ turns[k].ask = store[c][k].ask
  <2>1. DOMAIN store[c] = 1 .. Len(store[c]) /\ Len(store[c]) \in Nat
    BY <1>6
  <2>2. \A k \in 1 .. Len(store[c]) : ended(store[c][k]) \in StoredTurn
    BY <1>6, <1>7, <2>1
  <2>3. turns = [k \in 1 .. Len(store[c]) |-> ended(store[c][k])]
    BY <2>1
  <2>4. turns \in Seq(StoredTurn)
    BY <2>1, <2>2, <2>3
  <2> QED BY <1>6, <1>7, <2>4
<1> HIDE DEF turns
<1>10. store' \in [Convs -> Seq(StoredTurn)]
  BY <1>3, <1>8, <1>9, ThreadIs
<1>11. \A y \in Convs : \A k \in DOMAIN store'[y] :
         \E j \in DOMAIN store[y] : store'[y][k].ask = store[y][j].ask
                                    /\ store'[y][k].id = store[y][j].id
  <2> SUFFICES ASSUME NEW y \in Convs, NEW k \in DOMAIN store'[y]
               PROVE  \E j \in DOMAIN store[y] : store'[y][k].ask = store[y][j].ask
                                                 /\ store'[y][k].id = store[y][j].id
    OBVIOUS
  <2>1. store'[y] = IF y = c THEN turns ELSE store[y]
    BY <1>3, <1>8, ThreadIs
  <2> QED BY <1>9, <2>1
<1> QED BY <1>3, <1>4, <1>5, <1>10, <1>11, OneStreamStep, ThreadIs

LEMMA ReadTerminalStep == ASSUME ChatInv, NEW n \in Streams, ReadTerminal(n) PROVE ChatInv'
<1>1. /\ stream[n] \in StreamType /\ n \in Streams /\ n # 0 /\ n = active
      /\ stream[n].at = "answered" /\ stream[n].told = "nothing"
  BY StreamIs DEF ReadTerminal
<1> DEFINE x == [stream[n] EXCEPT !.told = stream[n].end]
<1>2. /\ x \in StreamType /\ x.conv = stream[n].conv /\ x.ask = stream[n].ask
      /\ x.id = stream[n].id /\ x.stopped = stream[n].stopped
      /\ x.told = stream[n].end /\ x.told # "nothing" /\ x.at = stream[n].at
  BY <1>1 DEF StreamType, TurnStatuses
<1>3. stream' = [stream EXCEPT ![n] = x]
  BY <1>1, ThreadIs DEF ReadTerminal
<1> HIDE DEF x
<1>4. /\ UNCHANGED <<conv, store, selected, oldest, draft, typed, load, creating, deleting, active>>
      /\ phase' = "streaming"
  BY DEF ReadTerminal
<1>5. /\ attempt' \in AttemptType
      /\ \/ attempt' = attempt
         \/ attempt'.ask = stream[n].ask /\ attempt'.id = stream[n].id
  BY <1>1, ThreadIs DEF ReadTerminal, AttemptType, StreamType
<1> QED BY <1>1, <1>2, <1>3, <1>4, <1>5, OneStreamStep, ThreadIs

\* The reader is done with the stream: it is not the one being read any more.
LEMMA SettledStep ==
    ASSUME ChatInv, NEW n \in Streams, n = active, Settle(n),
           UNCHANGED <<conv, store, selected, oldest, draft, typed, load, creating, deleting>>,
           NEW b \in BOOLEAN, NEW r \in BOOLEAN, b \/ stream[n].stopped \/ stream[n].told # "nothing",
           \/ attempt' = attempt
           \/ attempt' = NoAttempt
           \/ attempt' = [ask |-> stream[n].ask, id |-> stream[n].id, ambiguous |-> b, retry |-> r]
    PROVE  ChatInv'
<1>1. PICK x : x = Aborted(n)
  OBVIOUS
<1>2. /\ x \in StreamType /\ x.conv = stream[n].conv /\ x.ask = stream[n].ask
      /\ x.id = stream[n].id /\ x.stopped = stream[n].stopped /\ x.told = stream[n].told
      /\ x.at \notin Heard
  BY <1>1, AbortedIs
<1>3. stream' = [stream EXCEPT ![n] = x] /\ active' = 0 /\ phase' = "idle"
  BY <1>1 DEF Settle
<1>4. stream[n].ask \in Nat /\ stream[n].id \in Nat
  BY StreamIs DEF StreamType
<1>5. attempt' \in AttemptType
  <2>1. [ask |-> stream[n].ask, id |-> stream[n].id, ambiguous |-> b, retry |-> r] \in AttemptType
    BY <1>4 DEF AttemptType
  <2>2. attempt \in AttemptType /\ NoAttempt \in AttemptType
    BY ThreadIs
  <2> QED BY <2>1, <2>2
<1>6. \/ attempt' = attempt
      \/ attempt' = NoAttempt
      \/ /\ active = n /\ attempt'.ask = stream[n].ask /\ attempt'.id = stream[n].id
         /\ attempt'.ambiguous \/ x.stopped \/ x.told # "nothing"
  BY <1>2
<1> QED BY <1>2, <1>3, <1>5, <1>6, OneStreamStep, ThreadIs

LEMMA StreamEndsStep == ASSUME ChatInv, NEW n \in Streams, StreamEnds(n) PROVE ChatInv'
<1>1. UNCHANGED <<conv, store, selected, oldest, draft, typed, load, creating, deleting>>
  BY DEF StreamEnds
<1>2. n = active /\ Settle(n) /\ (attempt' = attempt \/ attempt' = NoAttempt)
  BY DEF StreamEnds
<1> QED BY <1>1, <1>2, SettledStep

LEMMA StreamBreaksStep == ASSUME ChatInv, NEW n \in Streams, StreamBreaks(n) PROVE ChatInv'
<1>1. UNCHANGED <<conv, store, selected, oldest, draft, typed, load, creating, deleting>>
  BY DEF StreamBreaks
<1>2. /\ n = active /\ Settle(n)
      /\ attempt' = [ask |-> stream[n].ask, id |-> stream[n].id, ambiguous |-> TRUE, retry |-> TRUE]
  BY DEF StreamBreaks
<1> QED BY <1>1, <1>2, SettledStep

LEMMA StreamIsCutStep == ASSUME ChatInv, NEW n \in Streams, StreamIsCut(n) PROVE ChatInv'
<1>1. UNCHANGED <<conv, store, selected, oldest, draft, typed, load, creating, deleting>>
  BY DEF StreamIsCut
<1>2. /\ n = active /\ Settle(n) /\ (stream[n].stopped \/ stream[n].told # "nothing")
      /\ attempt' = [ask |-> stream[n].ask, id |-> stream[n].id, ambiguous |-> FALSE, retry |-> TRUE]
  BY DEF StreamIsCut
<1> QED BY <1>1, <1>2, SettledStep

\* A stream is posted in the conversation that is then selected.
LEMMA PostedShape ==
    ASSUME ChatInv, NEW c \in Convs, NEW ask \in Nat \ {0}, NEW id \in Nat, RunStream(c, ask, id)
    PROVE  /\ stream' \in Seq(StreamType) /\ active' \in 0 .. Len(stream')
           /\ phase' = "idle" <=> active' = 0
           /\ attempt' \in AttemptType
<1>1. PICK old : old = IF active # 0 THEN [stream EXCEPT ![active] = Aborted(active)] ELSE stream
  OBVIOUS
<1>2. old \in Seq(StreamType) /\ Len(old) = Len(stream)
  <2>1. CASE active = 0
    BY <1>1, <2>1, ThreadIs
  <2>2. CASE active # 0
    <3>1. PICK x : x = Aborted(active)
      OBVIOUS
    <3>2. active \in Streams /\ x \in StreamType
      BY <2>2, <3>1, AbortedIs, ThreadIs
    <3>3. old = [stream EXCEPT ![active] = x]
      BY <1>1, <2>2, <3>1
    <3> QED BY <3>2, <3>3, OneRewritten, ThreadIs DEF Streams
  <2> QED BY <2>1, <2>2
<1> DEFINE new == [conv |-> c, ask |-> ask, id |-> id, at |-> "posted", end |-> "none",
                   told |-> "nothing", stopped |-> FALSE]
<1>3. new \in StreamType /\ stream' = Append(old, new) /\ active' = Len(stream) + 1
      /\ phase' = "consulting"
      /\ attempt' = [ask |-> ask, id |-> id, ambiguous |-> TRUE, retry |-> FALSE]
  BY <1>1 DEF RunStream, StreamType, StreamPlaces, Heard
<1> HIDE DEF new
<1>4. stream' \in Seq(StreamType) /\ Len(stream') = Len(stream) + 1 /\ Len(stream) \in Nat
  BY <1>2, <1>3, ThreadIs
<1> QED BY <1>3, <1>4 DEF AttemptType

LEMMA SendMessageStep == ASSUME ChatInv, SendMessage PROVE ChatInv'
<1>1. /\ draft # 0 /\ phase = "idle" /\ active = 0
      /\ UNCHANGED <<conv, store, selected, oldest, typed, load, deleting>>
  BY ThreadIs DEF SendMessage
<1>2. CASE selected # NoConv
  <2>1. /\ draft' = 0 /\ RunStream(selected, draft, NewId) /\ creating' = creating
        /\ selected \in Convs /\ draft \in Nat \ {0} /\ draft <= typed
        /\ NewId \in Nat /\ NewId <= Len(stream) + 1
    BY <1>1, <1>2, ThreadIs DEF SendMessage, NewId
  <2>2. /\ stream' \in Seq(StreamType) /\ active' \in 0 .. Len(stream')
        /\ phase' = "idle" <=> active' = 0
        /\ attempt' \in AttemptType
    BY <2>1, PostedShape
  <2>3. ChatShape'
    BY <1>1, <2>1, <2>2, ThreadIs DEF ChatShape
  <2>4. Conversations' /\ conv'[selected] # "none"
    BY <1>1, <1>2, <2>1 DEF ChatInv, Conversations
  <2>5. \A m \in Streams : ~(stream[m].conv = selected /\ stream[m].ask = draft)
    BY DEF ChatInv, StreamsAreOfConversations
  <2> QED BY <1>1, <2>1, <2>3, <2>4, <2>5, RunStreamStep
<1>3. CASE selected = NoConv
  <2>1. PICK c \in UnusedConvs : creating' = creating \cup {[conv |-> c, ask |-> draft]}
    BY <1>3 DEF SendMessage
  <2>2. c \in Convs /\ conv[c] = "none" /\ \A p \in creating : p.conv # c
    BY DEF UnusedConvs
  <2>3. UNCHANGED <<draft, stream, active, phase, attempt>>
    BY <1>3 DEF SendMessage
  <2>4. creating' \subseteq [conv : Convs, ask : 0 .. typed]
    BY <2>1, <2>2, ThreadIs
  <2>5. Conversations'
    BY <1>1, <2>1, <2>2 DEF ChatInv, Conversations
  <2>6. typed' \in typed .. MaxQuestions
    BY <1>1, ChatBounds, ThreadIs
  <2> QED BY <1>1, <2>3, <2>4, <2>5, <2>6, SameStreamStep, ThreadIs
<1> QED BY <1>2, <1>3

LEMMA SendInNewStep == ASSUME ChatInv, NEW p \in creating, SendInNewConversation(p) PROVE ChatInv'
<1>1. /\ p.conv \in Convs /\ p.ask \in 0 .. typed /\ conv[p.conv] = "none"
      /\ conv' \in [Convs -> {"none", "live", "deleted"}]
      /\ conv'[p.conv] # "none" /\ \A c \in Convs : conv[c] # "none" => conv'[c] # "none"
      /\ \A q \in creating \ {p} : conv'[q.conv] = "none"
  BY CreatedConversation DEF SendInNewConversation
<1>2. /\ creating' = creating \ {p} /\ selected' = p.conv /\ oldest' = 1 /\ draft' = 0
      /\ RunStream(p.conv, p.ask, NewId)
      /\ UNCHANGED <<store, typed, load, deleting>>
  BY DEF SendInNewConversation
<1>3. p.ask \in Nat \ {0} /\ p.ask <= typed /\ NewId \in Nat /\ NewId <= Len(stream) + 1
  BY <1>1, ThreadIs DEF SendInNewConversation, NewId
<1>4. /\ stream' \in Seq(StreamType) /\ active' \in 0 .. Len(stream')
      /\ phase' = "idle" <=> active' = 0
      /\ attempt' \in AttemptType
  BY <1>1, <1>2, <1>3, PostedShape
<1>5. ChatShape'
  BY <1>1, <1>2, <1>4, ThreadIs DEF ChatShape
<1>6. Conversations'
  BY <1>1, <1>2 DEF ChatInv, Conversations
<1>7. \A m \in Streams : stream[m].conv # p.conv
  BY <1>1 DEF ChatInv, StreamsAreOfConversations
<1> QED BY <1>1, <1>2, <1>3, <1>5, <1>6, <1>7, RunStreamStep

LEMMA RetryLastStep == ASSUME ChatInv, RetryLast PROVE ChatInv'
<1>1. PICK id : id = IF attempt.ambiguous THEN attempt.id ELSE NewId
  OBVIOUS
<1>2. /\ selected \in Convs /\ selected # NoConv /\ attempt.retry
      /\ RunStream(selected, attempt.ask, id)
      /\ UNCHANGED <<conv, store, selected, oldest, draft, typed, load, creating, deleting>>
  BY <1>1, ThreadIs DEF RetryLast
<1>3. /\ attempt.ask \in Nat \ {0} /\ attempt.id \in Nat
      /\ IsLast(selected, attempt.ask, attempt.id)
      /\ (~attempt.ambiguous => Said(attempt.id))
  BY <1>2, ThreadIs DEF ChatInv, AttemptIsLast, AttemptType
<1>4. PICK n \in Streams : /\ stream[n].conv = selected /\ stream[n].ask = attempt.ask
                           /\ stream[n].id = attempt.id
  BY <1>3 DEF IsLast
<1>5. stream[n].ask <= typed /\ stream[n].ask # draft /\ stream[n].id <= Len(stream)
  BY DEF ChatInv, StreamsAreOfConversations
<1>6. /\ id \in Nat /\ id <= Len(stream) + 1 /\ attempt.ask <= typed /\ attempt.ask # draft
      /\ Len(stream) \in Nat
  BY <1>1, <1>3, <1>4, <1>5, ThreadIs DEF NewId
<1>7. \A m \in Streams : stream[m].conv = selected /\ stream[m].ask = attempt.ask =>
         stream[m].id <= id /\ (stream[m].id < id => Said(stream[m].id))
  <2> SUFFICES ASSUME NEW m \in Streams, stream[m].conv = selected, stream[m].ask = attempt.ask
               PROVE  stream[m].id <= id /\ (stream[m].id < id => Said(stream[m].id))
    OBVIOUS
  <2>1. stream[m].id \in Nat /\ stream[m].id <= attempt.id
    BY <1>3, StreamIs DEF IsLast, StreamType
  <2>2. stream[m].id < attempt.id => Said(stream[m].id)
    BY <1>4 DEF ChatInv, AskedAgainWhenSaid
  <2>3. CASE attempt.ambiguous
    BY <1>1, <2>1, <2>2, <2>3
  <2>4. CASE ~attempt.ambiguous
    <3>1. id = Len(stream) + 1
      BY <1>1, <2>4 DEF NewId
    <3>2. stream[m].id = attempt.id \/ stream[m].id < attempt.id
      BY <1>3, <2>1
    <3>3. Said(stream[m].id)
      BY <1>3, <2>2, <2>4, <3>2
    <3>4. stream[m].id <= Len(stream) + 1
      BY <1>3, <1>4, <1>5, <1>6, <2>1
    <3> QED BY <3>1, <3>3, <3>4
  <2> QED BY <2>3, <2>4
<1>8. /\ stream' \in Seq(StreamType) /\ active' \in 0 .. Len(stream')
      /\ phase' = "idle" <=> active' = 0
      /\ attempt' \in AttemptType
  BY <1>2, <1>3, <1>6, PostedShape
<1>9. ChatShape'
  BY <1>2, <1>8, ThreadIs DEF ChatShape
<1>10. Conversations' /\ conv'[selected] # "none"
  BY <1>2 DEF ChatInv, Conversations
<1>11. selected' = selected /\ draft' = draft /\ typed' = typed /\ store' = store
       /\ \A x \in Convs : conv[x] # "none" => conv'[x] # "none"
  BY <1>2
<1> QED BY <1>2, <1>3, <1>6, <1>7, <1>9, <1>10, <1>11, RunStreamStep

-----------------------------------------------------------------------------
LEMMA ChatStarts == ChatInit => ChatInv
<1> SUFFICES ASSUME ChatInit PROVE ChatInv
  OBVIOUS
<1>1. /\ stream = <<>> /\ Streams = {} /\ Len(stream) = 0 /\ load = <<>> /\ attempt = NoAttempt
      /\ attempt \in AttemptType /\ active = 0
  BY DEF ChatInit, Streams, NoAttempt, AttemptType
<1>2. /\ conv = [c \in Convs |-> IF c \in Old THEN "live" ELSE "none"]
      /\ selected \in Old \cup {NoConv} /\ deleting = NoDeletion /\ creating = {} /\ Old \subseteq Convs
  BY ChatAssumption DEF ChatInit
<1>3. store \in [Convs -> Seq(StoredTurn)] /\ \A c \in Convs : store[c] = <<>>
  <2>1. <<>> \in Seq(StoredTurn)
    OBVIOUS
  <2> QED BY <2>1 DEF ChatInit
<1>4. /\ stream \in Seq(StreamType) /\ load \in Seq(ListType)
  BY <1>1
<1>5. ChatShape
  BY <1>1, <1>2, <1>3, <1>4, ChatBounds DEF ChatShape, ChatInit, NoDeletion, DeletionType
<1>6. Conversations
  BY <1>2 DEF Conversations
<1>7. StreamsAreOfConversations /\ AskedAgainWhenSaid
  BY <1>1 DEF StreamsAreOfConversations, AskedAgainWhenSaid
<1>8. AttemptIsLast
  BY <1>1 DEF AttemptIsLast, NoAttempt
<1>9. TurnsWereSent
  BY <1>3 DEF TurnsWereSent
<1> QED BY <1>5, <1>6, <1>7, <1>8, <1>9 DEF ChatInv

LEMMA ChatStep == ChatInv /\ [ChatNext]_chatVars => ChatInv'
<1> SUFFICES ASSUME ChatInv, [ChatNext]_chatVars PROVE ChatInv'
  OBVIOUS
<1>1. CASE User
  <2>1. CASE \E c \in Convs : SelectConversation(c) \/ RemoveConversation(c)
    BY <2>1, SelectConversationStep, RemoveConversationStep
  <2>2. CASE ~\E c \in Convs : SelectConversation(c) \/ RemoveConversation(c)
    BY <1>1, <2>2, OpenPanelStep, ClosePanelStep, LoadMoreStep, StartConversationStep, TypeStep,
       SendMessageStep, RetryLastStep, StopStep DEF User
  <2> QED BY <2>1, <2>2
<1>2. CASE QuestionAnswers
  BY <1>2, LoadAnsweredStep, DeliverStep, ConversationCreatedStep, SendInNewStep,
     CreationFailsStep, DeletedStep DEF QuestionAnswers
<1>3. CASE Reads
  BY <1>3, ServerReceivesStep, ServerEndsStep, ReadTerminalStep, StreamEndsStep,
     StreamBreaksStep, StreamIsCutStep DEF Reads
<1>4. CASE UNCHANGED chatVars
  BY <1>4, ListsStep, ThreadIs DEF chatVars
<1> QED BY <1>1, <1>2, <1>3, <1>4 DEF ChatNext

LEMMA ChatTells == ChatInv => PanelTellsItsConversation
<1> SUFFICES ASSUME ChatInv PROVE PanelTellsItsConversation
  OBVIOUS
<1>1. ChatTypeOK
  <2>1. draft \in 0 .. MaxQuestions
    BY ChatBounds, ThreadIs
  <2>2. \A n \in Streams :
          /\ stream[n].at \in {"posted", "late", "refused", "running", "left", "answered", "over"}
          /\ stream[n].at \in {"refused", "answered"} => active = n
    <3> TAKE n \in Streams
    <3>1. stream[n].at \in StreamPlaces
      BY StreamIs DEF StreamType
    <3> QED BY <3>1 DEF StreamPlaces, Heard, ChatInv, StreamsAreOfConversations
  <2>3. \A l \in Loads : load[l].at \in {"asked", "read", "failed", "over"}
    <3> TAKE l \in Loads
    <3>1. load[l] \in ListType
      BY ElementOfSeq, ThreadIs DEF Loads
    <3> QED BY <3>1 DEF ListType
  <2> QED BY <2>1, <2>2, <2>3, ThreadIs DEF ChatTypeOK
<1>2. CurrentStreamIsSelected
  BY DEF ChatInv, StreamsAreOfConversations, CurrentStreamIsSelected
<1>3. RetryGoesBack
  BY DEF ChatInv, AttemptIsLast, IsLast, RetryGoesBack
<1>4. InterruptedIsAskedOnce
  <2> SUFFICES ASSUME NEW c \in Convs, NEW j \in DOMAIN store[c], NEW k \in DOMAIN store[c],
                      store[c][j].ask = store[c][k].ask, store[c][j].id < store[c][k].id
               PROVE  Said(store[c][j].id)
    BY DEF InterruptedIsAskedOnce, Said
  <2>1. PICK m \in Streams : /\ stream[m].conv = c /\ stream[m].ask = store[c][j].ask
                             /\ stream[m].id = store[c][j].id
    BY DEF ChatInv, TurnsWereSent
  <2>2. PICK n \in Streams : /\ stream[n].conv = c /\ stream[n].ask = store[c][k].ask
                             /\ stream[n].id = store[c][k].id
    BY DEF ChatInv, TurnsWereSent
  <2>3. Said(stream[m].id)
    BY <2>1, <2>2 DEF ChatInv, AskedAgainWhenSaid
  <2> QED BY <2>1, <2>3
<1> QED BY <1>1, <1>2, <1>3, <1>4 DEF PanelTellsItsConversation

\* Whatever the user does while requests are under way, and whichever conversation the answer
\* to a deletion leaves unselected, the stream being read and what could be sent again are of the
\* conversation selected, if one is, and a question whose stream was interrupted is not executed
\* twice by retrying it (AssistantProvider.tsx).
THEOREM PanelStaysWithItsConversation == ChatSpec => []PanelTellsItsConversation
BY ChatStarts, ChatStep, ChatTells, PTL DEF ChatSpec
=============================================================================
