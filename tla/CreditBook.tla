------------------------------ MODULE CreditBook ------------------------------
(***************************************************************************)
(* What the shop promises about what customers owe, whoever asks and       *)
(* however many at once: every request is one entry in a book.  A customer *)
(* has one open account at most, and stays known while it is open; a sale  *)
(* on credit is entered once and struck out once; a payment is never more  *)
(* than what is owed and entered once under its key; an account that was   *)
(* paid off is closed for good.  DebtLedger is the design, of statements,  *)
(* locks and retries, that must keep the promise.                          *)
(***************************************************************************)
EXTENDS Integers

CONSTANTS
    Customers, Accounts, SaleIds,
    Amounts,       \* what a sale on credit or a loan may come to
    Nominals,      \* what may be paid at a time
    Keys, NoKey,   \* idempotency keys of payments, and none
    Nobody, NoAccount

VARIABLES
    known,         \* customers that were not deleted
    account,       \* what was lent on each account and what is owed
    received,      \* what was paid on it
    used,          \* the keys it was paid under
    credit         \* the sales on credit

bookVars == <<known, account, received, used, credit>>

Blank      == [stage |-> "absent", holder |-> Nobody, lent |-> 0, owed |-> 0]
NotEntered == [stage |-> "absent", account |-> NoAccount, worth |-> 0]

BookInit ==
    /\ known = Customers
    /\ account = [a \in Accounts |-> Blank]
    /\ received = [a \in Accounts |-> 0]
    /\ used = [a \in Accounts |-> {}]
    /\ credit = [t \in SaleIds |-> NotEntered]

\* The stage of an account that is not deleted, by what is owed on it.
StageOf(owed) == IF owed = 0 THEN "closed" ELSE "open"

\* What stands on an account from now on.
Stands(a, stage, lent, owed) ==
    account' = [account EXCEPT ![a] =
        [stage |-> stage, holder |-> account[a].holder, lent |-> lent, owed |-> owed]]

OpenFor(c) == {a \in Accounts : account[a].stage = "open" /\ account[a].holder = c}

\* Money is lent by hand, or a sale on credit is entered with it.
Entered(a, n) ==
    \/ UNCHANGED credit
    \/ \E t \in SaleIds :
        /\ credit[t].stage = "absent"
        /\ credit' = [credit EXCEPT ![t] = [stage |-> "stands", account |-> a, worth |-> n]]

\* A known customer without an open account gets one.
Open(a, c, n) ==
    /\ c \in known /\ OpenFor(c) = {}
    /\ account[a].stage = "absent"
    /\ account' = [account EXCEPT ![a] =
                        [stage |-> "open", holder |-> c, lent |-> n, owed |-> n]]
    /\ Entered(a, n)
    /\ UNCHANGED <<known, received, used>>

\* More is lent on the open one.
Raise(a, n) ==
    /\ account[a].stage = "open" /\ account[a].holder \in known
    /\ Stands(a, "open", account[a].lent + n, account[a].owed + n)
    /\ Entered(a, n)
    /\ UNCHANGED <<known, received, used>>

\* Part of what is owed is paid, once under a key.
Pay(a, k, n) ==
    /\ account[a].stage = "open" /\ n <= account[a].owed
    /\ k \notin used[a]
    /\ Stands(a, StageOf(account[a].owed - n), account[a].lent, account[a].owed - n)
    /\ received' = [received EXCEPT ![a] = @ + n]
    /\ used' = [used EXCEPT ![a] = @ \cup ({k} \ {NoKey})]
    /\ UNCHANGED <<known, credit>>

Less(a, b) == IF a < b THEN 0 ELSE a - b

\* A sale on credit is struck out, once, and no longer owed.
Strike(t) ==
    LET a    == credit[t].account
        owed == Less(account[a].owed, credit[t].worth)
    IN
    /\ credit[t].stage = "stands"
    /\ credit' = [credit EXCEPT ![t].stage = "struck"]
    /\ \/ account[a].stage = "deleted" /\ UNCHANGED account
       \/ /\ account[a].stage \in {"open", "closed"}
          /\ Stands(a, StageOf(owed), Less(account[a].lent, credit[t].worth), owed)
    /\ UNCHANGED <<known, received, used>>

\* An account on which nothing is owed and nothing was paid is deleted.
Delete(a) ==
    /\ account[a].stage \in {"open", "closed"}
    /\ account[a].owed = 0 /\ received[a] = 0
    /\ Stands(a, "deleted", account[a].lent, account[a].owed)
    /\ UNCHANGED <<known, received, used, credit>>

\* A customer without an open account is deleted.
Leave(c) ==
    /\ c \in known /\ OpenFor(c) = {}
    /\ known' = known \ {c}
    /\ UNCHANGED <<account, received, used, credit>>

BookNext ==
    \/ \E a \in Accounts, c \in Customers, n \in Amounts : Open(a, c, n)
    \/ \E a \in Accounts, n \in Amounts : Raise(a, n)
    \/ \E a \in Accounts, k \in Keys \cup {NoKey}, n \in Nominals : Pay(a, k, n)
    \/ \E t \in SaleIds : Strike(t)
    \/ \E a \in Accounts : Delete(a)
    \/ \E c \in Customers : Leave(c)

BookSpec == BookInit /\ [][BookNext]_bookVars

===============================================================================
