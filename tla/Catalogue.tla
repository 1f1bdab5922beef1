------------------------------ MODULE Catalogue ------------------------------
(***************************************************************************)
(* Rows of the products table come and go while others import files of     *)
(* them and page through them.  AddBulkProduct inserts the SKUs of a file  *)
(* in one transaction after it has looked, outside of it, which exist;     *)
(* POST /products inserts one; GET /products walks the table page by page  *)
(* from a cursor the client hands back, one query at a time.               *)
(***************************************************************************)
EXTENDS Integers, Sequences, FiniteSets, FiniteSetsExt, Functions

CONSTANTS
    Skus,       \* SKUs, numbers for their collation order
    Ids,        \* ids rows can get, numbers for the order of uuids
    Files,      \* uploaded files: sequences of rows [sku, is]
    MaxRows,    \* maxImportRows
    Limit,      \* rows on a page
    Directions, \* orders a walk may ask for: {TRUE} is ASC, {FALSE} DESC
    Importers,  \* goroutines of POST /products/bulk and POST /products
    MaxTime,    \* bound: distinct values of created_at
    MaxTrouble, \* bound: rows deleted or renamed, failed statements and crashes
    NoOne, NoSku

RowKinds == {"good", "unreadable", "untyped", "refused", "empty"}

ASSUME CatalogueAssumption ==
    /\ Skus \subseteq Nat /\ Ids \subseteq Nat /\ NoSku \notin Skus
    /\ IsFiniteSet(Skus) /\ IsFiniteSet(Ids)
    /\ \A f \in Files : f \in Seq([sku : Skus, is : RowKinds])
    /\ MaxRows \in Nat /\ Limit \in Nat \ {0} /\ MaxTime \in Nat \ {0}
    /\ MaxTrouble \in Nat
    /\ NoOne \notin Importers /\ Directions \subseteq BOOLEAN

VARIABLES
    product,    \* the products table, by id
    clock,      \* the time a new row is given
    importer,   \* the request each importer is in the middle of
    walk,       \* the walk: its order and cursor, the live rows it has shown, those
                \* it has yet to show, and those it has shown again
    trouble     \* rows deleted or renamed, and failures, so far

vars == <<product, clock, importer, walk, trouble>>

(* Live rows; rows that have a SKU or will have it if their insert commits. *)
Live == {i \in Ids : product[i].state = "live"}
RowsOf(s) == {i \in Ids : product[i].sku = s /\ product[i].state \in {"pending", "live"}}

PCs == {"idle", "check", "open", "insert", "report"}

TypeOK ==
    /\ \A i \in Ids : /\ product[i].state \in {"unused", "pending", "live", "deleted"}
                      /\ (product[i].state = "pending") = (product[i].by # NoOne)
    /\ \A s \in Skus : Cardinality(RowsOf(s)) <= 1
    /\ clock \in 1..MaxTime
    /\ \A w \in Importers : importer[w].pc \in PCs
    /\ walk.shown \cup walk.owed \subseteq Live
    /\ trouble \in 0..MaxTrouble

Unused == [state |-> "unused", sku |-> NoSku, at |-> 0, by |-> NoOne]

NoReport == [rows |-> 0, inserted |-> 0, skipped |-> 0, duplicate |-> 0, errors |-> 0]

Idle == [pc |-> "idle", bulk |-> FALSE, read |-> {}, new |-> <<>>, next |-> 1, at |-> 0,
         refused |-> {}, report |-> NoReport]

NoKey == <<0, 0>>
NoWalk == [on |-> FALSE, asc |-> TRUE, cursor |-> NoKey, shown |-> {}, owed |-> {}, again |-> {}]

(* A catalogue that may already hold some of the SKUs.                      *)
Init ==
    /\ \E old \in SUBSET Ids : \E sku \in Injection(old, Skus) :
        product = [i \in Ids |-> IF i \in old
                                 THEN [Unused EXCEPT !.state = "live", !.sku = sku[i], !.at = 1]
                                 ELSE Unused]
    /\ clock = 1
    /\ importer = [w \in Importers |-> Idle]
    /\ walk = NoWalk
    /\ trouble = 0

-----------------------------------------------------------------------------

LiveSkus == {product[i].sku : i \in Live}

Goto(w, s) == importer' = [importer EXCEPT ![w] = s]
At(w, p) == importer[w].pc = p
Trouble == trouble < MaxTrouble /\ trouble' = trouble + 1

(* What a transaction that is rolled back leaves of the table.              *)
Undone(w) == [i \in Ids |-> IF product[i].by = w THEN Unused ELSE product[i]]
Committed(w) == [i \in Ids |-> IF product[i].by = w
                               THEN [product[i] EXCEPT !.state = "live", !.by = NoOne]
                               ELSE product[i]]

-----------------------------------------------------------------------------
(* POST /products/bulk: the file.                                           *)

(* parseRecords: rows that are not blank, and those of them it can read.    *)
Rows(f) == {k \in DOMAIN f : f[k].is # "empty"}
Readable(f) == {k \in Rows(f) : f[k].is # "unreadable"}

(* The first readable row of each SKU is the one that counts, valid or not; *)
(* a later one is a duplicate.                                              *)
FirstOf(f) == {k \in Readable(f) : \A j \in Readable(f) : f[j].sku = f[k].sku => k <= j}
Typed(f) == {k \in FirstOf(f) : f[k].is # "untyped"}

ParseProducts(f) ==
    [read    |-> {f[k].sku : k \in Typed(f)},
     refused |-> {f[k].sku : k \in {j \in Typed(f) : f[j].is = "refused"}},
     report  |->
        [rows |-> Cardinality(Rows(f)), inserted |-> 0, skipped |-> 0,
         duplicate |-> Cardinality(Readable(f)) - Cardinality(FirstOf(f)),
         errors |-> (Cardinality(Rows(f)) - Cardinality(Readable(f)))
                        + (Cardinality(FirstOf(f)) - Cardinality(Typed(f)))]]

AddBulk(w, f) ==
    LET p == ParseProducts(f) IN
    /\ At(w, "idle") /\ Len(f) <= MaxRows
    /\ Goto(w, [Idle EXCEPT !.pc = IF p.read = {} THEN "report" ELSE "check",
                            !.bulk = TRUE, !.read = p.read, !.refused = p.refused,
                            !.report = p.report])
    /\ UNCHANGED <<product, clock, walk, trouble>>

-----------------------------------------------------------------------------
(* AddBulkProduct.                                                          *)

(* Mutant: the rows are inserted in the order of the file, whichever it is. *)
SortedAsGiven(S) ==
    {l \in [1..Cardinality(S) -> S] : \A j, k \in DOMAIN l : j < k => l[j] # l[k]}

Sorted(S) == {l \in [1..Cardinality(S) -> S] : \A j, k \in DOMAIN l : j < k => l[j] < l[k]}

(* The SKUs that exist are looked up before the transaction, without a lock.*)
CheckExisting(w) ==
    LET new == importer[w].read \ LiveSkus
        skipped == Cardinality(importer[w].read) - Cardinality(new)
    IN
    /\ At(w, "check")
    /\ \E rows \in Sorted(new) :
        Goto(w, [importer[w] EXCEPT !.pc = IF new = {} THEN "report" ELSE "open",
                                    !.new = rows, !.report.skipped = skipped])
    /\ UNCHANGED <<product, clock, walk, trouble>>

(* The statement is built: its rows get one created_at, kept if the         *)
(* transaction is tried again.                                              *)
Open(w) ==
    /\ At(w, "open")
    /\ Goto(w, [importer[w] EXCEPT !.pc = "insert", !.next = 1,
                                   !.at = IF @ = 0 THEN clock ELSE @])
    /\ UNCHANGED <<product, clock, walk, trouble>>

Writing(w) == At(w, "insert") /\ importer[w].next <= Len(importer[w].new)
NextSku(w) == importer[w].new[importer[w].next]

(* Mutant: a row that is not committed yet is no conflict.                  *)
InsertDoesNotWait(w) ==
    LET s == NextSku(w) IN
    /\ Writing(w) /\ RowsOf(s) \cap Live = {}
    /\ \E i \in Ids :
            /\ product[i].state = "unused"
            /\ product' = [product EXCEPT ![i] = [state |-> "pending", sku |-> s,
                                                  at |-> importer[w].at, by |-> w]]
    /\ Goto(w, [importer[w] EXCEPT !.next = @ + 1, !.report.inserted = @ + 1])
    /\ UNCHANGED <<clock, walk, trouble>>

(* ON CONFLICT DO NOTHING: a live row with the SKU is left alone, a row     *)
(* that may yet be rolled back is waited for.                               *)
Insert(w) ==
    LET s == NextSku(w) IN
    /\ Writing(w) /\ s \notin importer[w].refused
    /\ \/ /\ RowsOf(s) = {}
          /\ \E i \in Ids :
                /\ product[i].state = "unused"
                /\ product' = [product EXCEPT ![i] = [state |-> "pending", sku |-> s,
                                                      at |-> importer[w].at, by |-> w]]
          /\ Goto(w, [importer[w] EXCEPT !.next = @ + 1, !.report.inserted = @ + 1])
       \/ /\ importer[w].bulk /\ RowsOf(s) \cap Live # {}
          /\ Goto(w, [importer[w] EXCEPT !.next = @ + 1])
          /\ UNCHANGED product
    /\ UNCHANGED <<clock, walk, trouble>>

(* Rows the database skipped are those it was given and did not insert.     *)
Commit(w) ==
    /\ At(w, "insert") /\ importer[w].next > Len(importer[w].new)
    /\ product' = Committed(w)
    /\ Goto(w, [importer[w] EXCEPT !.pc = "report",
            !.report.skipped = @ + Max({0, Len(importer[w].new) - importer[w].report.inserted})])
    /\ UNCHANGED <<clock, walk, trouble>>

(* Mutant: what the first attempt inserted is counted too.                  *)
RetryCountsOn(w) ==
    /\ At(w, "insert") /\ importer[w].bulk
    /\ Trouble
    /\ product' = Undone(w)
    /\ Goto(w, [importer[w] EXCEPT !.pc = "open"])
    /\ UNCHANGED <<clock, walk>>

(* The transaction is rolled back and tried again: it counts anew.  That    *)
(* RowsAffected is exact then too, though gorm may have filled in the ids   *)
(* of rows the first attempt inserted, is assumed of gorm.                  *)
Retry(w) ==
    /\ At(w, "insert") /\ importer[w].bulk
    /\ Trouble
    /\ product' = Undone(w)
    /\ Goto(w, [importer[w] EXCEPT !.pc = "open", !.report.inserted = 0])
    /\ UNCHANGED <<clock, walk>>

(* The request fails without a report: a row no column holds, a SKU that    *)
(* POST /products finds taken, a crash.                                     *)
Fails(w) ==
    /\ \/ Writing(w) /\ NextSku(w) \in importer[w].refused /\ UNCHANGED trouble
       \/ Writing(w) /\ ~importer[w].bulk /\ RowsOf(NextSku(w)) \cap Live # {} /\ UNCHANGED trouble
       \/ ~At(w, "idle") /\ Trouble
    /\ product' = Undone(w)
    /\ Goto(w, Idle)
    /\ UNCHANGED <<clock, walk>>

(* The handler answers with the report.                                     *)
Report(w) ==
    /\ At(w, "report")
    /\ Goto(w, Idle)
    /\ UNCHANGED <<product, clock, walk, trouble>>

(* POST /products.                                                          *)
AddProduct(w, s) ==
    /\ At(w, "idle")
    /\ Goto(w, [Idle EXCEPT !.pc = "open", !.new = <<s>>, !.report.rows = 1])
    /\ UNCHANGED <<product, clock, walk, trouble>>

DeleteProduct(i) ==
    /\ i \in Live /\ Trouble
    /\ product' = [product EXCEPT ![i] = [Unused EXCEPT !.state = "deleted"]]
    /\ walk' = [walk EXCEPT !.owed = @ \ {i}, !.shown = @ \ {i}]
    /\ UNCHANGED <<clock, importer>>

(* PATCH /products/:id with a sku nobody has.                               *)
Rename(i, s) ==
    /\ i \in Live /\ RowsOf(s) = {} /\ Trouble
    /\ product' = [product EXCEPT ![i].sku = s]
    /\ UNCHANGED <<clock, importer, walk>>

Tick ==
    /\ clock < MaxTime /\ clock' = clock + 1
    /\ UNCHANGED <<product, importer, walk, trouble>>

-----------------------------------------------------------------------------
(* GET /products.                                                           *)

Key(i) == <<product[i].at, i>>
Before(k, l) == k[1] < l[1] \/ (k[1] = l[1] /\ k[2] < l[2])

(* Mutant: created_at alone is compared with the cursor.                    *)
BeyondByTime(i) ==
    \/ walk.cursor = NoKey
    \/ IF walk.asc THEN walk.cursor[1] < product[i].at ELSE product[i].at < walk.cursor[1]

(* keysetPage: the rows beyond the cursor, in the order of the walk.        *)
Beyond(i) ==
    \/ walk.cursor = NoKey
    \/ IF walk.asc THEN Before(walk.cursor, Key(i)) ELSE Before(Key(i), walk.cursor)

(* What is left of the walk, and which of two rows comes first.             *)
Rest == {i \in Live : Beyond(i)}
Comes(i, j) == IF walk.asc THEN Before(Key(i), Key(j)) ELSE Before(Key(j), Key(i))

(* One row more than a page holds is asked for and says that there is a     *)
(* next page; it is not shown.                                              *)
HasNext == Cardinality(Rest) > Limit
TrimPage ==
    {page \in SUBSET Rest :
        /\ Cardinality(page) = IF HasNext THEN Limit ELSE Cardinality(Rest)
        /\ \A i \in page, j \in Rest \ page : Comes(i, j)}

(* The cursor is the key of the last row.                                   *)
GetAllProduct ==
    /\ walk.on
    /\ \E page \in TrimPage :
        LET owed == walk.owed \ page
            again == walk.again \cup (walk.shown \cap page)
        IN IF HasNext
           THEN \E last \in page :
                    /\ \A i \in page \ {last} : Comes(i, last)
                    /\ walk' = [walk EXCEPT !.cursor = Key(last), !.owed = owed,
                                            !.again = again, !.shown = @ \cup page]
           ELSE walk' = [NoWalk EXCEPT !.owed = owed, !.again = again]
    /\ UNCHANGED <<product, clock, importer, trouble>>

(* A client begins: it is owed the rows that are there now.                 *)
StartWalk(asc) ==
    /\ walk = NoWalk
    /\ walk' = [NoWalk EXCEPT !.on = TRUE, !.asc = asc, !.owed = Live]
    /\ UNCHANGED <<product, clock, importer, trouble>>

-----------------------------------------------------------------------------

Step(w) == CheckExisting(w) \/ Open(w) \/ Insert(w) \/ Commit(w) \/ Report(w)

Next ==
    \/ \E w \in Importers :
        \/ Step(w) \/ Retry(w) \/ Fails(w)
        \/ \E f \in Files : AddBulk(w, f)
        \/ \E s \in Skus : AddProduct(w, s)
    \/ \E i \in Ids : DeleteProduct(i) \/ \E s \in Skus : Rename(i, s)
    \/ Tick
    \/ GetAllProduct \/ \E asc \in Directions : StartWalk(asc)

Spec == Init /\ [][Next]_vars

-----------------------------------------------------------------------------
(* Properties. *)

(* The report of an import accounts for every row of the file that is not   *)
(* blank, once, whatever was inserted or taken away since it looked and     *)
(* however often its transaction ran; and what it calls inserted are the    *)
(* rows its transaction is about to commit.                                 *)
ReportAccounts ==
    \A w \in Importers :
        LET r == importer[w].report IN
        /\ At(w, "report") => r.rows = r.inserted + r.skipped + r.duplicate + r.errors
        /\ At(w, "insert") => r.inserted = Cardinality({i \in Ids : product[i].by = w})

WaitsFor(w) ==
    IF Writing(w) THEN {product[i].by : i \in RowsOf(NextSku(w))} \ {NoOne} ELSE {}

(* Imports with SKUs in common, and single inserts between them, never wait *)
(* for each other in a circle.                                              *)
ImportsDontBlock ==
    \A S \in SUBSET Importers :
        S # {} => \E w \in S : WaitsFor(w) \cap S = {}

(* A walk shows no product twice, and at its end it has shown each that was *)
(* there throughout, although pages are cut while rows come and go and an   *)
(* import gives many rows the same created_at.                              *)
WalkComplete ==
    /\ walk.again = {}
    /\ ~walk.on => walk.owed = {}

=============================================================================
