---------------------------- MODULE MCOnboarding ----------------------------
(***************************************************************************)
(* A small ERP: its schema as it was onboarded and with the gross amount     *)
(* dropped; its rows before and after an invoice is settled and removed, in  *)
(* a bad week (a duplicate key, an orphan, an unreadable amount), and with a *)
(* written-off bill.                                                         *)
(***************************************************************************)
EXTENDS Onboarding

Col(name, words, type) == [name |-> name, words |-> words, type |-> type]

CustomerCols == <<Col("cust_code", {"cust", "code"}, "text"), Col("cust_name", {"cust", "name"}, "text")>>
VendorCols == <<Col("supp_code", {"supp", "code"}, "text"), Col("risk_tier", {"risk", "tier"}, "text")>>
AccountCols == <<Col("acct_no", {"acct", "no"}, "text"), Col("balance", {"balance"}, "numeric")>>
InvoiceHead == <<Col("doc_no", {"doc", "no"}, "text"), Col("cust_code", {"cust", "code"}, "text")>>
Gross == <<Col("gross_amt", {"gross", "amt"}, "numeric")>>
Open == <<Col("open_amt", {"open", "amt"}, "numeric")>>
Due == <<Col("due_dt", {"due", "dt"}, "date")>>
BillCols == <<Col("bill_no", {"bill", "no"}, "text"), Col("supp_code", {"supp", "code"}, "text"),
              Col("amt_cents", {"amt", "cents"}, "int"), Col("due_dt", {"due", "dt"}, "date"),
              Col("bill_date", {"bill", "date"}, "date"), Col("status", {"status"}, "text")>>
MovementCols == <<Col("entry_id", {"entry", "id"}, "text"), Col("acct_no", {"acct", "no"}, "text"),
                  Col("amt", {"amt"}, "numeric"), Col("value_dt", {"value", "dt"}, "date")>>

Schema(invoiceCols) ==
  <<[name |-> "ap_bills", words |-> {"ap", "bills"}, columns |-> BillCols],
    [name |-> "ar_open_items", words |-> {"ar", "open", "items"}, columns |-> invoiceCols],
    [name |-> "bank_accounts", words |-> {"bank", "accounts"}, columns |-> AccountCols],
    [name |-> "bank_txn", words |-> {"bank", "txn"}, columns |-> MovementCols],
    [name |-> "cust_master", words |-> {"cust", "master"}, columns |-> CustomerCols],
    [name |-> "supplier_master", words |-> {"supplier", "master"}, columns |-> VendorCols]>>

AsOnboarded == Schema(InvoiceHead \o Gross \o Open \o Due)
NoGross == Schema(InvoiceHead \o Open \o Due)

Amt(n) == <<[n |-> n, d |-> 0]>>
Invoice(key, cust, gross, open) ==
  [doc_no |-> key, cust_code |-> cust, gross_amt |-> gross, open_amt |-> open, due_dt |-> <<40>>]
Bill(status) ==
  [bill_no |-> <<"b1">>, supp_code |-> <<"v1">>, amt_cents |-> Amt(300), due_dt |-> <<40>>,
   bill_date |-> <<20>>, status |-> status]

Rows(bills, invoices) ==
  <<bills, invoices,
    << [acct_no |-> <<"a1">>, balance |-> <<[n |-> 1234, d |-> 3]>>] >>,
    << [entry_id |-> <<"t1">>, acct_no |-> <<"a1">>, amt |-> Amt(5), value_dt |-> <<41>>] >>,
    << [cust_code |-> <<"c1">>, cust_name |-> <<"n">>] >>,
    << [supp_code |-> <<"v1">>, risk_tier |-> <<>>] >> >>

OpenBill == << Bill(<<"open">>) >>
I1 == Invoice(<<"i1">>, <<"c1">>, Amt(6), Amt(6))
I2 == Invoice(<<"i2">>, <<"c1">>, Amt(4), Amt(4))

Start == [schema |-> AsOnboarded, rows |-> Rows(OpenBill, <<I1, I2>>)]
Settled == [schema |-> AsOnboarded, rows |-> Rows(OpenBill, <<I1>>)]
BadWeek == [schema |-> AsOnboarded,
            rows |-> Rows(<< Bill(<<"paid">>) >>,
                          <<I1, Invoice(<<"i1">>, <<"c1">>, Amt(4), Amt(4)),
                            Invoice(<<"i2">>, <<"c9">>, Amt(4), Amt(4)),
                            Invoice(<<"i3">>, <<"c1">>, <<[n |-> 1, d |-> 3]>>, <<>>)>>)]
WrittenOff == [schema |-> NoGross, rows |-> Rows(<< Bill(<<"written_off">>) >>, <<I1>>)]

MCSnapshots == {Start, Settled, BadWeek, WrittenOff}
MCControlTotals == {[ar |-> 1000, ap |-> 300, cash |-> 500], [ar |-> 600, ap |-> 300, cash |-> 500],
                    [ar |-> 1000, ap |-> 0, cash |-> 500], [ar |-> 1400, ap |-> 0, cash |-> 500]}
MCCurrencies == [USD |-> 2, JPY |-> 0]
=============================================================================
