--------------------------- MODULE SchoolExpenses ---------------------------
(***************************************************************************)
(* What is written against the schools of one block for one month: an      *)
(* expense split over them, the cleaning days, and the invoice made of     *)
(* them (school-works.service.ts, school-monthly-billings.service.ts).     *)
(* Every school's ledger is read whole, changed for the month, and written *)
(* back whole; bulkWrite takes the schools one at a time, in the order     *)
(* they were read.                                                         *)
(***************************************************************************)
EXTENDS Integers, FiniteSets, FiniteSetsExt

CONSTANTS
    Schools,        \* the schools of the block, 1 .. n in serial order
    Kinds,          \* material, trek, miscellaneous
    Categories,     \* of an invoice: elementary, secondary, all
    Secondary,      \* schools of isSecondarySchoolCategory
    Handlers,       \* requests in progress
    Amounts,        \* bound: the amounts a request may distribute
    MaxInvoices     \* bound: the invoice ids that are drawn

VARIABLES
    school,         \* per school: whether it exists yet, or still, and its ledgers
    invoice,        \* per category: the saved invoice of the month, or NoInvoice
    drawn,          \* invoice ids given out
    call

vars == <<school, invoice, drawn, call>>

NoInvoice == [id |-> 0, totals |-> 0]
NoLedger == [k \in Kinds |-> 0]
IdleCall == [pc |-> "idle"]
Goto(h, c) == call' = [call EXCEPT ![h] = c]
At(h, pc) == call[h].pc = pc
Idle(h) == At(h, "idle")

Kept == {s \in Schools : school[s].state = "kept"}
findSchoolsInBlock == [s \in Kept |-> school[s]]

-----------------------------------------------------------------------------
(* Splitting an amount.                                                    *)

\* Mutant: the remainder is not handed out.
splitAmountEquallyMutant(total, n) == [i \in 1..n |-> total \div n]

\* The first schools carry what does not divide.
splitAmountEqually(total, n) ==
    [i \in 1..n |-> total \div n + (IF i <= total % n THEN 1 ELSE 0)]

\* The position of a school in the list, which is sorted by serial number.
Place(s, listed) == Cardinality({r \in listed : r <= s})

\* The months and kinds that a ledger holds beside the one in hand survive.
normalizeMonthlyLedger(ledger) == [k \in Kinds |-> ledger[k]]

\* An amount of 0 leaves a kind as it was read, unless a remark comes with it.
distributeBlockExpense(h, k, amount, remark) ==
    /\ Idle(h)
    /\ Kept # {}
    /\ LET read == findSchoolsInBlock
           share == splitAmountEqually(amount, Cardinality(Kept))
           Ledger(s) ==
               IF amount > 0 \/ remark
               THEN [normalizeMonthlyLedger(read[s].expense) EXCEPT ![k] = share[Place(s, Kept)]]
               ELSE normalizeMonthlyLedger(read[s].expense)
       IN Goto(h, [pc |-> "write", field |-> "expense", left |-> Kept, missed |-> FALSE,
                   set |-> [s \in Kept |-> Ledger(s)],
                   spread |-> [kind |-> k, amount |-> amount, over |-> Kept,
                               said |-> amount > 0 \/ remark]])
    /\ UNCHANGED <<school, invoice, drawn>>

\* A school without an entry for the month is passed over; here every school
\* has one, zeroes when nothing was written.
deleteBlockExpense(h, k) ==
    /\ Idle(h)
    /\ Kept # {}
    /\ Goto(h, [pc |-> "write", field |-> "expense", left |-> Kept, missed |-> FALSE,
                set |-> [s \in Kept |-> [school[s].expense EXCEPT ![k] = 0]],
                spread |-> [kind |-> k, amount |-> 0, over |-> {}, said |-> FALSE]])
    /\ UNCHANGED <<school, invoice, drawn>>

\* 0 is no number of days: the default stands in; the rest is clamped.
Clamped(days) == IF days = 0 THEN 24 ELSE IF days > 31 THEN 31 ELSE days

\* A school the request does not name gets the default days.
bulkUpdateWorkdays(h, named, days, defaultDays) ==
    /\ Idle(h)
    /\ Kept # {}
    /\ Goto(h, [pc |-> "write", field |-> "days", left |-> Kept, missed |-> FALSE,
                set |-> [s \in Kept |-> Clamped(IF s \in named THEN days ELSE defaultDays)],
                spread |-> [kind |-> "none", amount |-> 0, over |-> {}, said |-> FALSE]])
    /\ UNCHANGED <<school, invoice, drawn>>

\* One updateOne of the ordered bulkWrite; a school deleted since matches none.
bulkSetSchoolFields(h) ==
    /\ At(h, "write") /\ call[h].left # {}
    /\ LET c == call[h]
           s == Min(c.left)
       IN /\ school' = IF s \in Kept
                       THEN [school EXCEPT ![s] = [@ EXCEPT ![c.field] = c.set[s]]]
                       ELSE school
          /\ Goto(h, [c EXCEPT !.left = @ \ {s}, !.missed = @ \/ s \notin Kept])
    /\ UNCHANGED <<invoice, drawn>>

\* Fewer matches than schools is an error, though the others are written.
Answer(h) ==
    /\ At(h, "write") /\ call[h].left = {}
    /\ Goto(h, IF call[h].missed THEN IdleCall ELSE [pc |-> "audit", spread |-> call[h].spread])
    /\ UNCHANGED <<school, invoice, drawn>>

audit(h) ==
    /\ At(h, "audit")
    /\ Goto(h, IdleCall)
    /\ UNCHANGED <<school, invoice, drawn>>

-----------------------------------------------------------------------------
(* The invoice of the month.                                               *)

filterByCategory(listed, category) ==
    CASE category = "secondary"  -> listed \cap Secondary
      [] category = "elementary" -> listed \ Secondary
      [] OTHER                   -> listed

\* One toilet a school at one rupee: the amount is the number of cleanings.
lineItems(category) ==
    [s \in filterByCategory(Kept, category) |->
        IF school[s].days > 0 THEN school[s].days ELSE 24]

RowTotal(rows) == MapThenSumSet(LAMBDA s : rows[s], DOMAIN rows)

\* `given` is the id the client opened, 0 when it makes a new invoice.
generate(h, category, given) ==
    /\ Idle(h)
    /\ Goto(h, [pc |-> "find", category |-> category, given |-> given, totals |-> RowTotal(lineItems(category))])
    /\ UNCHANGED <<school, invoice, drawn>>

\* The month's invoice is changed only by a client that has it open.
findInvoice(h) ==
    /\ At(h, "find")
    /\ LET c == call[h]
           known == invoice[c.category].id
           id == IF c.given # 0 THEN c.given ELSE drawn + 1
       IN IF known # 0 /\ known # c.given
          THEN Goto(h, IdleCall) /\ UNCHANGED drawn
          ELSE /\ id <= MaxInvoices
               /\ Goto(h, [pc |-> "save", category |-> c.category, id |-> id, totals |-> c.totals])
               /\ drawn' = IF id > drawn THEN id ELSE drawn
    /\ UNCHANGED <<school, invoice>>

\* Upsert by block, month and category; the id is unique over all invoices.
saveInvoice(h) ==
    /\ At(h, "save")
    /\ LET c == call[h] IN
         IF \E k \in Categories \ {c.category} : invoice[k].id = c.id
         THEN UNCHANGED invoice
         ELSE invoice' = [invoice EXCEPT ![c.category] =
                            [id |-> c.id, totals |-> c.totals]]
    /\ Goto(h, IdleCall)
    /\ UNCHANGED <<school, drawn>>

remove(category) ==
    /\ invoice[category] # NoInvoice
    /\ invoice' = [invoice EXCEPT ![category] = NoInvoice]
    /\ UNCHANGED <<school, drawn, call>>

-----------------------------------------------------------------------------
\* Schools are registered and deleted beside this (SchoolRegister); one that
\* is registered again is another row.
NewSchool == [state |-> "kept", expense |-> NoLedger, days |-> 0]

Register(s) ==
    /\ school[s].state = "unknown"
    /\ school' = [school EXCEPT ![s] = NewSchool]
    /\ UNCHANGED <<invoice, drawn, call>>

Delete(s) ==
    /\ s \in Kept
    /\ school' = [school EXCEPT ![s].state = "deleted"]
    /\ UNCHANGED <<invoice, drawn, call>>

Init ==
    /\ \E kept \in SUBSET Schools :
         school = [s \in Schools |-> [NewSchool EXCEPT !.state = IF s \in kept THEN @ ELSE "unknown"]]
    /\ invoice = [c \in Categories |-> NoInvoice]
    /\ drawn = 0
    /\ call = [h \in Handlers |-> IdleCall]

Ask(h) ==
    \/ \E k \in Kinds, a \in Amounts, remark \in BOOLEAN : distributeBlockExpense(h, k, a, remark)
    \/ \E k \in Kinds : deleteBlockExpense(h, k)
    \/ \E named \in SUBSET Schools, days \in {0, 40} : bulkUpdateWorkdays(h, named, days, 0)
    \/ \E c \in Categories, given \in 0..drawn : generate(h, c, given)

Next ==
    \/ \E h \in Handlers :
        \/ Ask(h) \/ bulkSetSchoolFields(h) \/ Answer(h) \/ audit(h)
        \/ findInvoice(h) \/ saveInvoice(h)
    \/ \E c \in Categories : remove(c)
    \/ \E s \in Schools : Register(s) \/ Delete(s)

Spec == Init /\ [][Next]_vars
-----------------------------------------------------------------------------
TypeOK ==
    /\ \A s \in Schools :
         school[s] \in [state : {"unknown", "kept", "deleted"}, expense : [Kinds -> Nat], days : {0, 24, 31}]
    /\ \A c \in Categories : invoice[c] # NoInvoice =>
         /\ invoice[c].id \in 1..drawn
         /\ invoice[c].totals \in 0 .. 31 * Cardinality(Schools)
    /\ drawn \in 0..MaxInvoices

\* distributeBlockExpense answers success: what the schools it was split over
\* now carry adds up to the amount, and no two of them differ by more than one.
SharesAddUp ==
    \A h \in Handlers :
        At(h, "audit") /\ call[h].spread.said =>
            LET c == call[h].spread
                Share(s) == school[s].expense[c.kind]
            IN c.over \subseteq Kept =>
                 /\ MapThenSumSet(Share, c.over) = c.amount
                 /\ \A r, s \in c.over : Share(r) <= Share(s) + 1
=============================================================================
