---------------------------- MODULE PayrollLedger ----------------------------
(***************************************************************************)
(* The monthly payroll ledger inside one employee document: dated items    *)
(* (advances, penalties, ...) and, beside them, one total per kind.        *)
(*                                                                         *)
(* Every ledger handler reads the employee, rebuilds the whole             *)
(* `monthlyLedger` in memory and $sets it back, so a handler that holds a  *)
(* rebuilt ledger is a record `call[h]`.  The model runs one ledger        *)
(* handler at a time, beside any number of profile updates, which read and *)
(* write the same document.                                                *)
(***************************************************************************)
EXTENDS Integers, FiniteSets, FiniteSetsExt

CONSTANTS
    Months,     \* payroll months
    Kinds,      \* LedgerItemType: advance, penalty, uniform, ...
    Handlers,   \* requests in progress
    MaxAmount,  \* bound: the largest amount entered
    MaxStamp    \* bound: how many calls may generate item ids

VARIABLES
    ledger,     \* employee.monthlyLedger
    profile,    \* the employee's other fields, "old" until a profile update
    stamp,      \* calls that generated item ids so far: newId() never repeats
    call,       \* what each request in progress remembers
    owed        \* history: the items added and never removed, per month

vars == <<ledger, profile, stamp, call, owed>>

Amounts == 1..MaxAmount
\* An item's id is the call that made it and whether the call made it from
\* its request or from a total it found without items.
Item == [stamp : 1..MaxStamp, from : {"request", "total"}, kind : Kinds, amount : Nat]

\* A month nobody wrote to is absent from the Mixed object.
NoEntry == [written |-> FALSE, items |-> {}, totals |-> [k \in Kinds |-> 0]]

IdleCall == [pc |-> "idle"]
Goto(h, c) == call' = [call EXCEPT ![h] = c]
LedgerIsFree == \A h \in Handlers : call[h].pc # "saveLedger"
-----------------------------------------------------------------------------
(* common/utils/ledger-entry.util.ts *)

computeTotals(items) ==
    [k \in Kinds |-> MapThenSumSet(LAMBDA i : i.amount, {i \in items : i.kind = k})]

\* Mutant: the total is turned into an item even when there are items.
migrateLegacyItemsMutant(entry, s) ==
    entry.items \cup
    {[stamp |-> s, from |-> "total", kind |-> k, amount |-> entry.totals[k]] :
        k \in {q \in Kinds : entry.totals[q] > 0}}

\* An entry without items that carries totals dates from before the items:
\* each total becomes one item with a new id.
migrateLegacyItems(entry, s) ==
    IF entry.items # {} THEN entry.items
    ELSE {[stamp |-> s, from |-> "total", kind |-> k, amount |-> entry.totals[k]] :
             k \in {q \in Kinds : entry.totals[q] > 0}}

normalizeLedgerEntry(entry, s) ==
    IF ~entry.written THEN [NoEntry EXCEPT !.written = TRUE]
    ELSE LET items == migrateLegacyItems(entry, s)
         IN [written |-> TRUE, items |-> items, totals |-> computeTotals(items)]

appendLedgerItem(entry, item, s) ==
    LET normalized == normalizeLedgerEntry(entry, s)
    IN normalizeLedgerEntry([normalized EXCEPT !.items = @ \cup {item}], s)

\* The totals of the entry before the removal are still in `normalized` when
\* it is normalised the second time.
removeLedgerItem(entry, gone, s) ==
    LET normalized == normalizeLedgerEntry(entry, s)
    IN normalizeLedgerEntry([normalized EXCEPT !.items = @ \ {gone}], s)
-----------------------------------------------------------------------------
(* The handlers of employees.service.ts.  Each reads the document, computes *)
(* the whole new ledger, and writes it in a second step.                    *)

\* Payroll saves the month's totals as typed in, over whatever items exist.
updatePayrollLedger(h, m, k, amount) ==
    /\ call[h] = IdleCall /\ LedgerIsFree
    /\ stamp < MaxStamp
    /\ stamp' = stamp + 1
    /\ LET entry == normalizeLedgerEntry(ledger[m], stamp')
           next  == [entry EXCEPT !.totals[k] = amount]
       IN Goto(h, [pc |-> "saveLedger", op |-> "totals", month |-> m,
                   next |-> [ledger EXCEPT ![m] = next], items |-> {}])
    /\ UNCHANGED <<ledger, profile, owed>>

\* One entry of the request; a request with several repeats both steps.
addLedgerItems(h, m, k, amount) ==
    /\ call[h] = IdleCall /\ LedgerIsFree
    /\ stamp < MaxStamp
    /\ stamp' = stamp + 1
    /\ LET item == [stamp |-> stamp', from |-> "request", kind |-> k, amount |-> amount]
           next == appendLedgerItem(ledger[m], item, stamp')
       IN Goto(h, [pc |-> "saveLedger", op |-> "add", month |-> m,
                   next |-> [ledger EXCEPT ![m] = next], items |-> {item}])
    /\ UNCHANGED <<ledger, profile, owed>>

deleteLedgerItem(h, m, item) ==
    /\ call[h] = IdleCall /\ LedgerIsFree
    /\ stamp < MaxStamp
    /\ stamp' = stamp + 1
    /\ LET next == removeLedgerItem(ledger[m], item, stamp')
       IN Goto(h, [pc |-> "saveLedger", op |-> "delete", month |-> m,
                   next |-> [ledger EXCEPT ![m] = next], items |-> {item}])
    /\ UNCHANGED <<ledger, profile, owed>>

\* updateOne({ id }, { $set: { monthlyLedger } })
saveLedger(h) ==
    /\ call[h].pc = "saveLedger"
    /\ LET c == call[h]
       IN /\ ledger' = c.next
          /\ owed' = [owed EXCEPT ![c.month] =
                         CASE c.op = "add"    -> @ \cup c.items
                           [] c.op = "delete" -> @ \ c.items
                           [] OTHER           -> @]
    /\ Goto(h, IdleCall)
    /\ UNCHANGED <<profile, stamp>>

\* PUT /employees/:id reads the whole document, ledger included ...
readProfile(h) ==
    /\ call[h] = IdleCall
    /\ Goto(h, [pc |-> "saveProfile", document |-> ledger])
    /\ UNCHANGED <<ledger, profile, stamp, owed>>

\* Mutant: monthlyLedger is missing from EMPLOYEE_UPDATE_OMIT.
saveProfileMutant(h) ==
    /\ call[h].pc = "saveProfile"
    /\ profile' = "new"
    /\ ledger' = call[h].document
    /\ Goto(h, IdleCall)
    /\ UNCHANGED <<stamp, owed>>

\* ... and $sets a patch from which EMPLOYEE_UPDATE_OMIT keeps the ledger out.
saveProfile(h) ==
    /\ call[h].pc = "saveProfile"
    /\ profile' = "new"
    /\ Goto(h, IdleCall)
    /\ UNCHANGED <<ledger, stamp, owed>>
-----------------------------------------------------------------------------
\* A month is absent, or was typed in before there were items.
Init ==
    /\ \E typed \in [Months -> [Kinds -> 0..MaxAmount]] :
          ledger = [m \in Months |->
                      [written |-> \E k \in Kinds : typed[m][k] > 0,
                       items |-> {}, totals |-> typed[m]]]
    /\ profile = "old"
    /\ stamp = 0
    /\ call = [h \in Handlers |-> IdleCall]
    /\ owed = [m \in Months |-> {}]

Next ==
    \E h \in Handlers :
        \/ \E m \in Months, k \in Kinds :
              \/ \E amount \in 0..MaxAmount : updatePayrollLedger(h, m, k, amount)
              \/ \E amount \in 1..MaxAmount : addLedgerItems(h, m, k, amount)
        \/ \E m \in Months : \E item \in ledger[m].items : deleteLedgerItem(h, m, item)
        \/ saveLedger(h)
        \/ readProfile(h)
        \/ saveProfile(h)

Spec == Init /\ [][Next]_vars
-----------------------------------------------------------------------------
EntryOK(e) ==
    /\ DOMAIN e = {"written", "items", "totals"}
    /\ e.written \in BOOLEAN
    /\ \A i \in e.items : i \in Item
    /\ e.totals \in [Kinds -> Nat]

\* Every month of the ledger is an entry, also in the copies handlers hold.
TypeOK ==
    /\ DOMAIN ledger = Months
    /\ \A m \in Months : EntryOK(ledger[m]) /\ owed[m] \subseteq Item
    /\ profile \in {"old", "new"}
    /\ stamp \in 0..MaxStamp
    /\ \A h \in Handlers :
          call[h].pc = "saveLedger" => \A m \in Months : EntryOK(call[h].next[m])

\* Profile updates read and write the employee at any moment of a ledger
\* handler, and a ledger handler for one month writes the others back as it
\* read them; no item that was added and never removed is lost by either.
NoItemLost == \A m \in Months : owed[m] \subseteq ledger[m].items

\* The totals say what the items say, or there are only totals.
Consistent(e) == e.items = {} \/ e.totals = computeTotals(e.items)

\* Adding an item to a month whose totals and items agree raises the total of
\* its kind by its amount and leaves every other total alone: a total from
\* before the items is neither dropped nor counted twice when it becomes one.
AddsOnTop ==
    \A h \in Handlers :
      call[h].pc = "saveLedger" /\ call'[h] = IdleCall =>
        LET c == call[h] IN
        c.op = "add" /\ Consistent(ledger[c.month]) =>
          \A k \in Kinds :
            ledger'[c.month].totals[k] =
              ledger[c.month].totals[k] + computeTotals(c.items)[k]
AddedOnTop == [][AddsOnTop]_vars

\* "Ledger entry removed.": removing an item takes its amount off the month,
\* so that no month keeps more than what was added to it and not removed.
RemovalTakesEffect ==
    [][\A h \in Handlers :
         call[h].pc = "saveLedger" /\ call'[h] = IdleCall =>
           LET c == call[h] IN
           c.op = "delete" /\ Consistent(ledger[c.month]) =>
             ledger'[c.month].totals =
               computeTotals(ledger[c.month].items \ c.items)]_vars
=============================================================================
