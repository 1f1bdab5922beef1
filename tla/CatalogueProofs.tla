--------------------------- MODULE CatalogueProofs ---------------------------
(***************************************************************************)
(* What Catalogue.tla promises, proved for any tables, files, importers    *)
(* and pages: reports account for their files, imports never wait for each *)
(* other in a circle, and a walk shows every product once.                 *)
(***************************************************************************)
EXTENDS Catalogue, TLAPS, FiniteSetTheorems, FunctionTheorems

(* The invariant.  No two rows of the table have a SKU in common, unless    *)
(* they are gone.                                                           *)

Row == [state : {"unused", "pending", "live", "deleted"}, sku : Skus \cup {NoSku},
        at : Nat, by : Importers \cup {NoOne}]

Held(tab, i) == tab[i].state \in {"pending", "live"}

TableFits(tab) ==
    /\ tab \in [Ids -> Row]
    /\ \A i \in Ids : (tab[i].state = "pending") <=> (tab[i].by # NoOne)
    /\ \A i \in Ids : Held(tab, i) => tab[i].sku \in Skus /\ tab[i].at # 0
    /\ \A i, j \in Ids : Held(tab, i) /\ Held(tab, j) /\ tab[i].sku = tab[j].sku => i = j

Reports == [rows : Nat, inserted : Nat, skipped : Nat, duplicate : Nat, errors : Nat]

Requests == [pc : PCs, bulk : BOOLEAN, read : SUBSET Skus, new : Seq(Skus), next : Nat, at : Nat,
             refused : SUBSET Skus, report : Reports]

Ascending(l) == \A j, k \in 1..Len(l) : j < k => l[j] < l[k]

RowsBy(w, tab) == {i \in Ids : tab[i].by = w}

(* A request works through its SKUs in ascending order; its rows are some   *)
(* of those before the next, and its report counts each row of its file     *)
(* where it is by now.                                                      *)
Accounts(r) ==
    /\ r.pc \in {"check", "open"} => r.report.inserted = 0
    /\ r.pc = "check" =>
        /\ r.report.skipped = 0
        /\ r.report.rows = r.report.duplicate + r.report.errors + Cardinality(r.read)
    /\ r.pc \in {"open", "insert"} =>
        r.report.rows = r.report.duplicate + r.report.errors + r.report.skipped + Len(r.new)
    /\ r.pc = "report" =>
        r.report.rows = r.report.inserted + r.report.skipped
                        + r.report.duplicate + r.report.errors

Inserts(w, r, tab) ==
    /\ r.at # 0 /\ r.next \in 1..(Len(r.new) + 1)
    /\ r.report.inserted = Cardinality(RowsBy(w, tab)) /\ r.report.inserted < r.next
    /\ \A i \in Ids : tab[i].by = w => \E k \in 1..(r.next - 1) : tab[i].sku = r.new[k]

RequestFits(w, r, tab) ==
    /\ r \in Requests
    /\ r.pc \in {"open", "insert"} => Ascending(r.new)
    /\ Accounts(r)
    /\ r.pc = "insert" => Inserts(w, r, tab)
    /\ r.pc # "insert" => RowsBy(w, tab) = {}

RequestsFit ==
    /\ DOMAIN importer = Importers
    /\ \A w \in Importers : RequestFits(w, importer[w], product)

(* What a walk is still owed lies beyond its cursor, what it has shown does *)
(* not.                                                                     *)
Keys == Nat \X Nat

WalkFits ==
    /\ walk \in [on : BOOLEAN, asc : BOOLEAN, cursor : Keys,
                 shown : SUBSET Ids, owed : SUBSET Ids, again : SUBSET Ids]
    /\ walk.again = {} /\ walk.shown \cup walk.owed \subseteq Live
    /\ walk.on => /\ \A i \in walk.owed : Beyond(i)
                  /\ \A i \in walk.shown : ~Beyond(i)
    /\ ~walk.on => walk.owed = {} /\ walk.shown = {}

IInv ==
    /\ TableFits(product) /\ RequestsFit /\ WalkFits
    /\ clock \in 1..MaxTime /\ trouble \in 0..MaxTrouble

-----------------------------------------------------------------------------
(* Data.                                                                    *)

LEMMA IdsFinite == ASSUME NEW S, S \subseteq Ids PROVE IsFiniteSet(S) /\ Cardinality(S) \in Nat
  BY CatalogueAssumption, FS_Subset, FS_CardinalityType

LEMMA SkusFinite == ASSUME NEW S, S \subseteq Skus PROVE IsFiniteSet(S) /\ Cardinality(S) \in Nat
  BY CatalogueAssumption, FS_Subset, FS_CardinalityType

LEMMA Empty == Cardinality({}) = 0
  BY FS_EmptySet

(* A set of SKUs that is not empty has a largest: the sets of those above   *)
(* one of them are finite, and one of these sets contains no other.         *)
LEMMA Largest ==
    ASSUME NEW T, T \subseteq Skus, T # {}
    PROVE  \E x \in T : \A y \in T : y <= x
  <1> DEFINE Above(t) == {s \in T : t < s}
             F == {Above(t) : t \in T}
  <1>1. T \subseteq Nat /\ IsFiniteSet(T)
    BY CatalogueAssumption, SkusFinite
  <1>2. F \subseteq FiniteSubsetsOf(T)
    <2>1. \A t \in T : Above(t) \subseteq T /\ IsFiniteSet(Above(t))
      BY <1>1, FS_Subset
    <2> QED
      BY <2>1 DEF FiniteSubsetsOf
  <1>3. F # {}
    OBVIOUS
  <1>4. PICK U \in F : \A V \in F : <<V, U>> \notin StrictSubsetOrdering(T)
    <2>1. IsWellFoundedOn(StrictSubsetOrdering(T), FiniteSubsetsOf(T))
      BY FS_StrictSubsetOrderingWellFounded
    <2> HIDE DEF F
    <2> QED
      BY <2>1, <1>2, <1>3, WFMin
  <1>5. PICK x \in T : U = Above(x)
    BY <1>4
  <1>6. ASSUME NEW y \in T, x < y PROVE FALSE
    <2>1. Above(y) \in F
      OBVIOUS
    <2>2. ASSUME NEW s \in T, y < s PROVE x < s
      <3>1. x \in Nat /\ y \in Nat /\ s \in Nat
        BY <1>1
      <3> QED
        BY <3>1, <1>6, <2>2
    <2>3. Above(y) \subseteq Above(x)
      BY <2>2
    <2>4. y \in Above(x) /\ y \notin Above(y)
      BY <1>1, <1>6
    <2>5. <<Above(y), Above(x)>> \in StrictSubsetOrdering(T)
      BY <2>3, <2>4 DEF StrictSubsetOrdering
    <2> QED
      BY <1>4, <1>5, <2>1, <2>5
  <1> QED
    BY <1>1, <1>6

LEMMA ReportType ==
    ASSUME NEW a \in Nat, NEW b \in Nat, NEW c \in Nat, NEW d \in Nat, NEW e \in Nat
    PROVE  [rows |-> a, inserted |-> b, skipped |-> c, duplicate |-> d, errors |-> e] \in Reports
  BY DEF Reports

LEMMA IdleFits == /\ Idle \in Requests /\ Idle.pc = "idle" /\ Idle.report = NoReport
                  /\ Idle.new = <<>> /\ Idle.at = 0
  BY DEF Idle, Requests, PCs, NoReport, Reports

LEMMA MaxOf == ASSUME NEW n \in Nat PROVE Max({0, n}) = n
  BY DEF Max

(* Each SKU of a file that is read is the SKU of one of its typed rows.     *)
LEMMA Parsed ==
    ASSUME NEW f \in Files
    PROVE  LET p == ParseProducts(f) IN
           /\ p.read \subseteq Skus /\ p.refused \subseteq Skus /\ p.report \in Reports
           /\ p.report.inserted = 0 /\ p.report.skipped = 0
           /\ p.report.rows = p.report.duplicate + p.report.errors + Cardinality(p.read)
  <1>1. /\ Len(f) \in Nat /\ DOMAIN f = 1..Len(f)
        /\ \A k \in DOMAIN f : f[k].sku \in Skus
    <2>1. PICK S : S = [sku : Skus, is : RowKinds]
      OBVIOUS
    <2>2. f \in Seq(S)
      BY <2>1, CatalogueAssumption
    <2>3. Len(f) \in Nat /\ DOMAIN f = 1..Len(f) /\ \A k \in DOMAIN f : f[k] \in S
      BY <2>2
    <2> QED
      BY <2>1, <2>3
  <1>2. IsFiniteSet(DOMAIN f)
    BY <1>1, FS_Interval
  <1>3. /\ Typed(f) \subseteq FirstOf(f) /\ FirstOf(f) \subseteq Readable(f)
        /\ Readable(f) \subseteq Rows(f) /\ Rows(f) \subseteq DOMAIN f
    BY DEF Typed, FirstOf, Readable, Rows
  <1>4. /\ IsFiniteSet(Rows(f)) /\ IsFiniteSet(Readable(f))
        /\ IsFiniteSet(FirstOf(f)) /\ IsFiniteSet(Typed(f))
    BY <1>2, <1>3, FS_Subset
  <1>5. PICK r \in Nat, d \in Nat, t \in Nat, y \in Nat :
            /\ r = Cardinality(Rows(f)) /\ d = Cardinality(Readable(f))
            /\ t = Cardinality(FirstOf(f)) /\ y = Cardinality(Typed(f))
    BY <1>4, FS_CardinalityType
  <1>6. d <= r /\ t <= d /\ y <= t
    BY <1>3, <1>4, <1>5, FS_Subset
  <1> DEFINE read == {f[k].sku : k \in Typed(f)}
             refused == {f[k].sku : k \in {j \in Typed(f) : f[j].is = "refused"}}
  <1>7. Cardinality(read) = y
    <2> DEFINE g == [k \in Typed(f) |-> f[k].sku]
    <2>1. g \in [Typed(f) -> read]
      OBVIOUS
    <2>2. ASSUME NEW a \in Typed(f), NEW b \in Typed(f), g[a] = g[b] PROVE a = b
      <3>1. a <= b /\ b <= a /\ a \in 1..Len(f) /\ b \in 1..Len(f)
        BY <1>1, <1>3, <2>2 DEF Typed, FirstOf
      <3> QED
        BY <1>1, <3>1
    <2>3. \A s \in read : \E k \in Typed(f) : g[k] = s
      OBVIOUS
    <2> HIDE DEF g, read
    <2>4. g \in Bijection(Typed(f), read)
      BY <2>1, <2>2, <2>3, Fun_IsBij
    <2>5. ExistsBijection(Typed(f), read)
      BY <2>4 DEF ExistsBijection
    <2> QED
      BY <2>5, <1>4, <1>5, FS_Bijection
  <1>8. read \subseteq Skus /\ refused \subseteq Skus
    BY <1>1, <1>3
  <1>9. d - t \in Nat /\ (r - d) + (t - y) \in Nat
    BY <1>6
  <1>10. r = (d - t) + ((r - d) + (t - y)) + y
    OBVIOUS
  <1> DEFINE rep == [rows |-> r, inserted |-> 0, skipped |-> 0, duplicate |-> d - t,
                     errors |-> (r - d) + (t - y)]
  <1>11. rep \in Reports
    BY <1>9, ReportType
  <1> HIDE DEF rep
  <1>12. ParseProducts(f).report = rep
    BY <1>5 DEF ParseProducts, rep
  <1>13. ParseProducts(f).read = read /\ ParseProducts(f).refused = refused
    BY DEF ParseProducts
  <1> HIDE DEF read, refused
  <1> QED
    BY <1>7, <1>8, <1>10, <1>11, <1>12, <1>13 DEF rep

LEMMA SortedRows ==
    ASSUME NEW S, S \subseteq Skus, NEW l \in Sorted(S)
    PROVE  l \in Seq(Skus) /\ Len(l) = Cardinality(S) /\ Ascending(l)
  <1>1. PICK n \in Nat : n = Cardinality(S)
    BY SkusFinite
  <1>2. l \in [1..n -> S] /\ DOMAIN l = 1..n /\ \A j, k \in 1..n : j < k => l[j] < l[k]
    BY <1>1 DEF Sorted
  <1>3. l \in [1..n -> Skus]
    BY <1>2
  <1>4. l \in Seq(Skus) /\ Len(l) = n
    BY <1>3, <1>2
  <1> QED
    BY <1>1, <1>2, <1>4 DEF Ascending

(* How the requests of each step are typed.                                 *)
LEMMA RequestFields ==
    ASSUME NEW r \in Requests
    PROVE  /\ r.pc \in PCs /\ r.bulk \in BOOLEAN /\ r.read \subseteq Skus /\ r.new \in Seq(Skus)
           /\ r.next \in Nat /\ r.at \in Nat /\ r.refused \subseteq Skus /\ r.report \in Reports
           /\ Len(r.new) \in Nat
           /\ r.report.rows \in Nat /\ r.report.inserted \in Nat /\ r.report.skipped \in Nat
           /\ r.report.duplicate \in Nat /\ r.report.errors \in Nat
  <1>1. r.new \in Seq(Skus) /\ r.report \in Reports
    BY DEF Requests
  <1>2. Len(r.new) \in Nat
    BY <1>1
  <1> QED
    BY <1>1, <1>2 DEF Requests, Reports

LEMMA NamedPCs == "idle" \in PCs /\ "check" \in PCs /\ "open" \in PCs /\ "insert" \in PCs
                  /\ "report" \in PCs
  BY DEF PCs

-----------------------------------------------------------------------------
(* What a step leaves alone.                                                *)

(* The rows of everyone but w stay theirs and keep their SKU.               *)
OthersKept(w) ==
    \A v \in Importers \ {w}, i \in Ids :
        /\ (product'[i].by = v) <=> (product[i].by = v)
        /\ product[i].by = v => product'[i].sku = product[i].sku

(* Rows that are live stay live, where they are in a walk.                  *)
LiveKept ==
    \A i \in Ids : product[i].state = "live" =>
        product'[i].state = "live" /\ product'[i].at = product[i].at

LEMMA OtherRequests ==
    ASSUME NEW v, NEW r, NEW old, NEW new, RequestFits(v, r, old),
           \A i \in Ids : /\ (new[i].by = v) <=> (old[i].by = v)
                          /\ old[i].by = v => new[i].sku = old[i].sku
    PROVE  RequestFits(v, r, new)
  <1>1. RowsBy(v, new) = RowsBy(v, old)
    BY DEF RowsBy
  <1>2. Inserts(v, r, old) => Inserts(v, r, new)
    BY <1>1 DEF Inserts
  <1> QED
    BY <1>1, <1>2 DEF RequestFits

LEMMA RequestsKeep ==
    ASSUME RequestsFit, NEW w \in Importers, NEW s, Goto(w, s), RequestFits(w, s, product'),
           OthersKept(w)
    PROVE  RequestsFit'
  <1>1. /\ DOMAIN importer' = Importers /\ importer'[w] = s
        /\ \A v \in Importers \ {w} : importer'[v] = importer[v]
    BY DEF Goto, RequestsFit
  <1>2. ASSUME NEW v \in Importers \ {w} PROVE RequestFits(v, importer'[v], product')
    <2>1. RequestFits(v, importer[v], product)
      BY DEF RequestsFit
    <2>2. \A i \in Ids : /\ (product'[i].by = v) <=> (product[i].by = v)
                         /\ product[i].by = v => product'[i].sku = product[i].sku
      BY DEF OthersKept
    <2>3. RequestFits(v, importer[v], product')
      BY <2>1, <2>2, OtherRequests
    <2> QED
      BY <1>1, <2>3
  <1> QED
    BY <1>1, <1>2 DEF RequestsFit

LEMMA WalkKeeps == ASSUME WalkFits, UNCHANGED walk, LiveKept PROVE WalkFits'
  <1>1. Live \subseteq Live'
    BY DEF Live, LiveKept
  <1>2. \A i \in Live : Beyond(i)' = Beyond(i)
    BY DEF Live, LiveKept, Beyond, Key
  <1> QED
    BY <1>1, <1>2 DEF WalkFits

(* A step of one request that leaves the table alone.                       *)
LEMMA RequestStep ==
    ASSUME IInv, NEW w \in Importers, NEW s, Goto(w, s), RequestFits(w, s, product),
           UNCHANGED <<product, clock, walk, trouble>>
    PROVE  IInv'
  <1>1. OthersKept(w) /\ LiveKept
    BY DEF OthersKept, LiveKept
  <1>2. RequestsFit'
    BY <1>1, RequestsKeep DEF IInv
  <1>3. WalkFits'
    BY <1>1, WalkKeeps DEF IInv
  <1> QED
    BY <1>2, <1>3 DEF IInv

LEMMA UnusedFits == Unused \in Row /\ ~(Unused.state \in {"pending", "live"}) /\ Unused.by = NoOne
                    /\ Unused.state # "pending"
  BY DEF Unused, Row

LEMMA UndoneFits ==
    ASSUME TableFits(product), NEW w \in Importers, product' = Undone(w)
    PROVE  TableFits(product') /\ RowsBy(w, product') = {} /\ OthersKept(w) /\ LiveKept
  <1>1. \A i \in Ids : product'[i] = IF product[i].by = w THEN Unused ELSE product[i]
    BY DEF Undone
  <1>2. w # NoOne
    BY CatalogueAssumption
  <1>3. product' \in [Ids -> Row]
    BY UnusedFits DEF Undone, TableFits
  <1>4. \A i \in Ids : (product'[i].state = "pending") <=> (product'[i].by # NoOne)
    BY <1>1, UnusedFits DEF TableFits
  <1>5. \A i \in Ids : Held(product', i) => Held(product, i) /\ product'[i] = product[i]
    BY <1>1, UnusedFits DEF Held
  <1>6. TableFits(product')
    BY <1>3, <1>4, <1>5 DEF TableFits
  <1>7. RowsBy(w, product') = {} /\ OthersKept(w)
    BY <1>1, <1>2, CatalogueAssumption, UnusedFits DEF RowsBy, OthersKept
  <1>8. LiveKept
    BY <1>1, <1>2 DEF LiveKept, TableFits
  <1> QED
    BY <1>6, <1>7, <1>8

LEMMA CommittedFits ==
    ASSUME TableFits(product), NEW w \in Importers, product' = Committed(w)
    PROVE  TableFits(product') /\ RowsBy(w, product') = {} /\ OthersKept(w) /\ LiveKept
  <1>1. ASSUME NEW i \in Ids, product[i].by = w
        PROVE  /\ product'[i] \in Row /\ product'[i].state = "live" /\ product'[i].by = NoOne
               /\ product'[i].sku = product[i].sku /\ product'[i].at = product[i].at
               /\ product[i].state = "pending"
    <2>1. product[i] \in Row /\ product[i].state = "pending" /\ w # NoOne
      BY <1>1, CatalogueAssumption DEF TableFits
    <2>2. product'[i] = [product[i] EXCEPT !.state = "live", !.by = NoOne]
      BY <1>1 DEF Committed
    <2> QED
      BY <2>1, <2>2 DEF Row
  <1>2. \A i \in Ids : product[i].by # w => product'[i] = product[i]
    BY DEF Committed
  <1>3. product' \in [Ids -> Row]
    <2>1. \A i \in Ids : product'[i] \in Row
      BY <1>1, <1>2 DEF TableFits
    <2>2. product' = [i \in Ids |-> product'[i]]
      BY DEF Committed
    <2> QED
      BY <2>1, <2>2
  <1>4. \A i \in Ids : (product'[i].state = "pending") <=> (product'[i].by # NoOne)
    BY <1>1, <1>2 DEF TableFits
  <1>5. \A i \in Ids : Held(product', i) =>
            Held(product, i) /\ product'[i].sku = product[i].sku /\ product'[i].at = product[i].at
    BY <1>1, <1>2 DEF Held
  <1>6. TableFits(product')
    BY <1>3, <1>4, <1>5 DEF TableFits
  <1>7. RowsBy(w, product') = {} /\ OthersKept(w)
    BY <1>1, <1>2, CatalogueAssumption DEF RowsBy, OthersKept
  <1>8. LiveKept
    BY <1>1, <1>2 DEF LiveKept
  <1> QED
    BY <1>6, <1>7, <1>8

-----------------------------------------------------------------------------
(* The steps of a request.                                                  *)

LEMMA FitsNow ==
    ASSUME IInv, NEW w \in Importers
    PROVE  importer[w] \in Requests /\ RequestFits(w, importer[w], product)
  BY DEF IInv, RequestsFit, RequestFits

LEMMA AddBulkKeeps ==
    ASSUME IInv, NEW w \in Importers, NEW f \in Files, AddBulk(w, f) PROVE IInv'
  <1>1. PICK p : /\ p = ParseProducts(f)
                 /\ p.read \subseteq Skus /\ p.refused \subseteq Skus /\ p.report \in Reports
                 /\ p.report.inserted = 0 /\ p.report.skipped = 0
                 /\ p.report.rows = p.report.duplicate + p.report.errors + Cardinality(p.read)
    BY Parsed
  <1>2. PICK pc \in PCs : /\ pc = IF p.read = {} THEN "report" ELSE "check"
                          /\ pc \notin {"open", "insert"}
    BY NamedPCs
  <1>3. PICK r \in Requests : r = Idle
    BY IdleFits
  <1>4. PICK s : s = [r EXCEPT !.pc = pc, !.bulk = TRUE, !.read = p.read,
                               !.refused = p.refused, !.report = p.report]
    OBVIOUS
  <1>5. /\ s \in Requests /\ s.pc = pc /\ s.read = p.read /\ s.report = p.report
    BY <1>1, <1>4 DEF Requests
  <1>6. Goto(w, s) /\ At(w, "idle") /\ UNCHANGED <<product, clock, walk, trouble>>
    BY <1>1, <1>2, <1>3, <1>4 DEF AddBulk
  <1>7. RowsBy(w, product) = {}
    BY <1>6, FitsNow DEF RequestFits, At
  <1>8. Accounts(s)
    <2>1. CASE p.read = {}
      <3>1. p.report.rows \in Nat /\ p.report.duplicate \in Nat /\ p.report.errors \in Nat
        BY <1>1 DEF Reports
      <3> QED
        BY <2>1, <3>1, <1>1, <1>2, <1>5, Empty DEF Accounts
    <2>2. CASE p.read # {}
      BY <2>2, <1>1, <1>2, <1>5 DEF Accounts
    <2> QED
      BY <2>1, <2>2
  <1>9. RequestFits(w, s, product)
    BY <1>2, <1>5, <1>7, <1>8 DEF RequestFits
  <1> QED
    BY <1>6, <1>9, RequestStep

LEMMA CheckExistingKeeps ==
    ASSUME IInv, NEW w \in Importers, CheckExisting(w) PROVE IInv'
  <1>1. PICK r \in Requests : r = importer[w] /\ RequestFits(w, r, product) /\ r.pc = "check"
    BY FitsNow DEF CheckExisting, At
  <1>2. PICK new : new = r.read \ LiveSkus /\ new \subseteq Skus
    BY RequestFields
  <1>3. PICK a \in Nat, b \in Nat : a = Cardinality(r.read) /\ b = Cardinality(new) /\ b <= a
    <2>1. IsFiniteSet(r.read) /\ Cardinality(r.read) \in Nat /\ Cardinality(new) \in Nat
      BY <1>2, SkusFinite, RequestFields
    <2>2. Cardinality(new) <= Cardinality(r.read)
      BY <2>1, <1>2, FS_Subset
    <2> QED
      BY <2>1, <2>2
  <1>4. PICK pc \in PCs : /\ pc = IF new = {} THEN "report" ELSE "open"
                          /\ pc \notin {"check", "insert"}
    BY NamedPCs
  <1>5. PICK rows \in Sorted(new) :
            Goto(w, [r EXCEPT !.pc = pc, !.new = rows, !.report.skipped = a - b])
    BY <1>1, <1>2, <1>3, <1>4 DEF CheckExisting
  <1>6. rows \in Seq(Skus) /\ Len(rows) = b /\ Ascending(rows)
    BY <1>2, <1>3, SortedRows
  <1>7. PICK k \in Nat : k = a - b
    BY <1>3
  <1>8. PICK s : s = [r EXCEPT !.pc = pc, !.new = rows, !.report.skipped = k]
    OBVIOUS
  <1>9. /\ s \in Requests /\ s.pc = pc /\ s.new = rows
        /\ s.report.inserted = r.report.inserted /\ s.report.skipped = k
        /\ s.report.rows = r.report.rows
        /\ s.report.duplicate = r.report.duplicate /\ s.report.errors = r.report.errors
    BY <1>6, <1>8 DEF Requests, Reports
  <1>10. Goto(w, s) /\ UNCHANGED <<product, clock, walk, trouble>>
    BY <1>5, <1>7, <1>8 DEF CheckExisting
  <1>11. /\ r.report.inserted = 0
         /\ r.report.rows = r.report.duplicate + r.report.errors + a
    BY <1>1, <1>3 DEF RequestFits, Accounts
  <1>12. Accounts(s)
    <2>1. r.report.duplicate \in Nat /\ r.report.errors \in Nat
      BY RequestFields
    <2>2. new = {} => b = 0
      BY <1>3, Empty
    <2>3. CASE pc = "report"
      <3>1. b = 0 /\ k = a
        BY <2>2, <2>3, <1>3, <1>4, <1>7
      <3>2. s.report.rows = s.report.inserted + s.report.skipped
                            + s.report.duplicate + s.report.errors
        BY <2>1, <3>1, <1>9, <1>11
      <3> QED
        BY <2>3, <3>2, <1>9 DEF Accounts
    <2>4. CASE pc = "open"
      <3>1. a = k + b
        BY <1>3, <1>7
      <3>2. s.report.rows = s.report.duplicate + s.report.errors + s.report.skipped + Len(s.new)
        BY <2>1, <3>1, <1>6, <1>9, <1>11
      <3>3. s.report.inserted = 0
        BY <1>9, <1>11
      <3> QED
        BY <2>4, <3>2, <3>3, <1>9 DEF Accounts
    <2> QED
      BY <2>3, <2>4, <1>4
  <1>13. RequestFits(w, s, product)
    BY <1>1, <1>4, <1>6, <1>9, <1>12 DEF RequestFits
  <1> QED
    BY <1>10, <1>13, RequestStep

LEMMA OpenKeeps == ASSUME IInv, NEW w \in Importers, Open(w) PROVE IInv'
  <1>1. PICK r \in Requests : r = importer[w] /\ RequestFits(w, r, product) /\ r.pc = "open"
    BY FitsNow DEF Open, At
  <1>2. PICK t \in Nat : t = (IF r.at = 0 THEN clock ELSE r.at) /\ t # 0
    BY RequestFields, CatalogueAssumption DEF IInv
  <1>3. PICK s : s = [r EXCEPT !.pc = "insert", !.next = 1, !.at = t]
    OBVIOUS
  <1>4. /\ s \in Requests /\ s.pc = "insert" /\ s.new = r.new /\ s.next = 1 /\ s.at = t
        /\ s.report = r.report
    BY <1>3, NamedPCs DEF Requests
  <1>5. Goto(w, s) /\ UNCHANGED <<product, clock, walk, trouble>>
    BY <1>1, <1>2, <1>3 DEF Open
  <1>6. RowsBy(w, product) = {} /\ r.report.inserted = 0 /\ Ascending(r.new)
    BY <1>1 DEF RequestFits, Accounts
  <1>7. Inserts(w, s, product)
    <2>1. Len(r.new) \in Nat /\ 1 \in 1..(Len(r.new) + 1)
      BY RequestFields
    <2>2. s.report.inserted = Cardinality(RowsBy(w, product)) /\ s.report.inserted < s.next
      BY <1>4, <1>6, Empty
    <2>3. \A i \in Ids : product[i].by # w
      BY <1>6 DEF RowsBy
    <2> QED
      BY <1>2, <1>4, <2>1, <2>2, <2>3 DEF Inserts
  <1>8. Accounts(s)
    BY <1>1, <1>4 DEF RequestFits, Accounts
  <1>9. RequestFits(w, s, product)
    BY <1>4, <1>6, <1>7, <1>8 DEF RequestFits
  <1> QED
    BY <1>5, <1>9, RequestStep

LEMMA IdleRequestFits ==
    ASSUME NEW w \in Importers, NEW tab, RowsBy(w, tab) = {} PROVE RequestFits(w, Idle, tab)
  BY IdleFits DEF RequestFits, Accounts

LEMMA ReportKeeps == ASSUME IInv, NEW w \in Importers, Report(w) PROVE IInv'
  <1>1. Goto(w, Idle) /\ UNCHANGED <<product, clock, walk, trouble>>
    BY DEF Report
  <1>2. RowsBy(w, product) = {}
    BY FitsNow DEF RequestFits, At, Report
  <1> QED
    BY <1>1, <1>2, IdleRequestFits, RequestStep

LEMMA AddProductKeeps ==
    ASSUME IInv, NEW w \in Importers, NEW s \in Skus, AddProduct(w, s) PROVE IInv'
  <1>1. PICK r \in Requests : r = Idle /\ r.report = NoReport /\ r.report \in Reports
    BY IdleFits DEF Requests
  <1>2. PICK l \in Seq(Skus) : l = <<s>> /\ Len(l) = 1
    <2>1. <<s>> \in Seq(Skus) /\ Len(<<s>>) = 1
      OBVIOUS
    <2> QED
      BY <2>1
  <1>3. PICK q : q = [r EXCEPT !.pc = "open", !.new = l, !.report.rows = 1]
    OBVIOUS
  <1>4. /\ q \in Requests /\ q.pc = "open" /\ q.new = l /\ q.report.rows = 1
        /\ q.report.inserted = r.report.inserted /\ q.report.skipped = r.report.skipped
        /\ q.report.duplicate = r.report.duplicate /\ q.report.errors = r.report.errors
    BY <1>1, <1>3, NamedPCs DEF Requests, Reports
  <1>5. /\ r.report.inserted = 0 /\ r.report.skipped = 0 /\ r.report.duplicate = 0
        /\ r.report.errors = 0
    BY <1>1 DEF NoReport
  <1>6. Goto(w, q) /\ At(w, "idle") /\ UNCHANGED <<product, clock, walk, trouble>>
    BY <1>1, <1>2, <1>3 DEF AddProduct
  <1>7. RowsBy(w, product) = {}
    BY <1>6, FitsNow DEF RequestFits, At
  <1>8. Ascending(q.new)
    BY <1>2, <1>4 DEF Ascending
  <1>9. Accounts(q)
    BY <1>2, <1>4, <1>5 DEF Accounts
  <1>10. RequestFits(w, q, product)
    BY <1>4, <1>7, <1>8, <1>9 DEF RequestFits
  <1> QED
    BY <1>6, <1>10, RequestStep

(* A step of one request that changes the table.                            *)
LEMMA TableStep ==
    ASSUME IInv, NEW w \in Importers, NEW s, Goto(w, s), UNCHANGED <<clock, walk>>,
           trouble' \in 0..MaxTrouble, TableFits(product'), OthersKept(w), LiveKept,
           RequestFits(w, s, product')
    PROVE  IInv'
  <1>1. RequestsFit'
    BY RequestsKeep DEF IInv
  <1>2. WalkFits'
    BY WalkKeeps DEF IInv
  <1> QED
    BY <1>1, <1>2 DEF IInv

LEMMA TroubleMore == ASSUME IInv, Trouble PROVE trouble' \in 0..MaxTrouble
  BY CatalogueAssumption DEF IInv, Trouble

LEMMA WritingFits ==
    ASSUME IInv, NEW w \in Importers, At(w, "insert")
    PROVE  LET r == importer[w] IN
           /\ r \in Requests /\ RequestFits(w, r, product) /\ r.pc = "insert"
           /\ Inserts(w, r, product) /\ Ascending(r.new)
           /\ Writing(w) => /\ r.next \in 1..Len(r.new) /\ NextSku(w) = r.new[r.next]
                            /\ NextSku(w) \in Skus
  <1>1. PICK r \in Requests : /\ r = importer[w] /\ r.pc = "insert" /\ RequestFits(w, r, product)
                              /\ Inserts(w, r, product) /\ Ascending(r.new)
    BY FitsNow DEF At, RequestFits
  <1>2. ASSUME Writing(w) PROVE r.next \in 1..Len(r.new) /\ r.new[r.next] \in Skus
    <2>1. r.next \in 1..(Len(r.new) + 1) /\ r.next <= Len(r.new) /\ Len(r.new) \in Nat
      BY <1>1, <1>2, RequestFields DEF Inserts, Writing
    <2>2. r.next \in 1..Len(r.new)
      BY <2>1
    <2>3. r.new \in Seq(Skus)
      BY RequestFields
    <2> QED
      BY <2>2, <2>3
  <1> QED
    BY <1>1, <1>2 DEF NextSku

(* A SKU is not taken twice.                                                *)
LEMMA RowsOfOne ==
    ASSUME TableFits(product), NEW s \in Skus
    PROVE  \A i, j \in RowsOf(s) : i = j
  BY DEF TableFits, Held, RowsOf

(* A SKU nobody has is inserted.                                            *)
LEMMA InsertsRow ==
    ASSUME IInv, NEW w \in Importers, Writing(w), RowsOf(NextSku(w)) = {}, NEW i \in Ids,
           product[i].state = "unused",
           product' = [product EXCEPT ![i] = [state |-> "pending", sku |-> NextSku(w),
                                              at |-> importer[w].at, by |-> w]],
           Goto(w, [importer[w] EXCEPT !.next = @ + 1, !.report.inserted = @ + 1]),
           UNCHANGED <<clock, walk, trouble>>
    PROVE  IInv'
  <1>1. PICK r \in Requests, t \in Skus :
            /\ r = importer[w] /\ t = NextSku(w) /\ RequestFits(w, r, product) /\ r.pc = "insert"
            /\ Inserts(w, r, product) /\ Ascending(r.new)
            /\ r.next \in 1..Len(r.new) /\ t = r.new[r.next]
    BY WritingFits DEF Writing
  <1>2. PICK row \in Row : /\ row = [state |-> "pending", sku |-> t, at |-> r.at, by |-> w]
                           /\ row.state = "pending" /\ row.sku = t /\ row.at = r.at /\ row.by = w
    <2>1. r.at \in Nat
      BY RequestFields
    <2>2. [state |-> "pending", sku |-> t, at |-> r.at, by |-> w] \in Row
      BY <2>1 DEF Row
    <2> QED
      BY <2>2
  <1>3. /\ product \in [Ids -> Row] /\ product' = [product EXCEPT ![i] = row]
        /\ product'[i] = row /\ \A j \in Ids \ {i} : product'[j] = product[j]
    BY <1>1, <1>2 DEF IInv, TableFits
  <1>4. product[i].by = NoOne /\ w # NoOne
    BY CatalogueAssumption DEF IInv, TableFits
  <1>5. TableFits(product')
    <2>1. product' \in [Ids -> Row]
      BY <1>2, <1>3
    <2>2. \A j \in Ids : (product'[j].state = "pending") <=> (product'[j].by # NoOne)
      BY <1>2, <1>3, <1>4 DEF IInv, TableFits
    <2>3. r.at # 0
      BY <1>1 DEF Inserts
    <2>4. \A j \in Ids \ {i} : Held(product', j) => Held(product, j) /\ product'[j].sku # t
      BY <1>1, <1>3 DEF Held, RowsOf
    <2>5. \A j \in Ids : Held(product', j) => product'[j].sku \in Skus /\ product'[j].at # 0
      BY <1>2, <1>3, <2>3, <2>4 DEF IInv, TableFits
    <2>6. \A j, k \in Ids : Held(product', j) /\ Held(product', k)
                            /\ product'[j].sku = product'[k].sku => j = k
      BY <1>2, <1>3, <2>4 DEF IInv, TableFits
    <2> QED
      BY <2>1, <2>2, <2>5, <2>6 DEF TableFits
  <1>6. OthersKept(w)
    BY <1>2, <1>3, <1>4, CatalogueAssumption DEF OthersKept
  <1>7. LiveKept
    BY <1>3 DEF LiveKept
  <1>8. PICK n \in Nat : n = r.report.inserted + 1
    BY RequestFields
  <1>9. PICK m \in Nat : m = r.next + 1
    BY RequestFields
  <1>10. PICK q : q = [r EXCEPT !.next = m, !.report.inserted = n]
    OBVIOUS
  <1>11. /\ q \in Requests /\ q.pc = "insert" /\ q.new = r.new /\ q.next = m /\ q.at = r.at
         /\ q.report.inserted = n /\ q.report.skipped = r.report.skipped
         /\ q.report.rows = r.report.rows
         /\ q.report.duplicate = r.report.duplicate /\ q.report.errors = r.report.errors
    BY <1>1, <1>10 DEF Requests, Reports
  <1>12. Goto(w, q)
    BY <1>1, <1>8, <1>9, <1>10
  <1>13. Inserts(w, q, product')
    <2>1. RowsBy(w, product') = RowsBy(w, product) \cup {i} /\ i \notin RowsBy(w, product)
      BY <1>2, <1>3, <1>4 DEF RowsBy
    <2>2. IsFiniteSet(RowsBy(w, product))
      BY IdsFinite DEF RowsBy
    <2>3. Cardinality(RowsBy(w, product')) = n
      BY <1>1, <1>8, <2>1, <2>2, FS_AddElement DEF Inserts
    <2>4. Len(r.new) \in Nat /\ r.report.inserted \in Nat /\ r.next \in Nat
      BY RequestFields
    <2>5. m \in 1..(Len(r.new) + 1) /\ n < m
      BY <1>1, <1>8, <1>9, <2>4 DEF Inserts
    <2>6. \A j \in Ids : product'[j].by = w => \E k \in 1..(m - 1) : product'[j].sku = r.new[k]
      <3>1. r.next \in 1..(m - 1) /\ 1..(r.next - 1) \subseteq 1..(m - 1)
        BY <1>1, <1>9, <2>4
      <3>2. \A j \in Ids \ {i} : product[j].by = w =>
                \E k \in 1..(r.next - 1) : product[j].sku = r.new[k]
        BY <1>1 DEF Inserts
      <3> QED
        BY <1>1, <1>2, <1>3, <3>1, <3>2
    <2>7. q.at # 0
      BY <1>1, <1>11 DEF Inserts
    <2> QED
      BY <1>11, <2>3, <2>5, <2>6, <2>7 DEF Inserts
  <1>14. Accounts(q)
    BY <1>1, <1>11 DEF RequestFits, Accounts
  <1>15. RequestFits(w, q, product')
    BY <1>1, <1>11, <1>13, <1>14 DEF RequestFits
  <1> QED
    BY <1>5, <1>6, <1>7, <1>12, <1>15, TableStep DEF IInv

(* A SKU that is taken is passed over.                                      *)
LEMMA SkipsRow ==
    ASSUME IInv, NEW w \in Importers, Writing(w),
           Goto(w, [importer[w] EXCEPT !.next = @ + 1]), UNCHANGED <<product, clock, walk, trouble>>
    PROVE  IInv'
  <1>1. PICK r \in Requests :
            /\ r = importer[w] /\ RequestFits(w, r, product) /\ r.pc = "insert"
            /\ Inserts(w, r, product) /\ Ascending(r.new) /\ r.next \in 1..Len(r.new)
    BY WritingFits DEF Writing
  <1>2. PICK m \in Nat : m = r.next + 1
    BY RequestFields
  <1>3. PICK q : q = [r EXCEPT !.next = m]
    OBVIOUS
  <1>4. /\ q \in Requests /\ q.pc = "insert" /\ q.new = r.new /\ q.next = m /\ q.at = r.at
        /\ q.report = r.report
    BY <1>1, <1>3 DEF Requests
  <1>5. Goto(w, q)
    BY <1>1, <1>2, <1>3
  <1>6. Inserts(w, q, product)
    <2>1. Len(r.new) \in Nat /\ r.report.inserted \in Nat /\ r.next \in Nat
      BY RequestFields
    <2>2. m \in 1..(Len(r.new) + 1) /\ r.report.inserted < m
      BY <1>1, <1>2, <2>1 DEF Inserts
    <2>3. 1..(r.next - 1) \subseteq 1..(m - 1)
      BY <1>2, <2>1
    <2> QED
      BY <1>1, <1>4, <2>2, <2>3 DEF Inserts
  <1>7. Accounts(q)
    BY <1>1, <1>4 DEF RequestFits, Accounts
  <1>8. RequestFits(w, q, product)
    BY <1>1, <1>4, <1>6, <1>7 DEF RequestFits
  <1> QED
    BY <1>5, <1>8, RequestStep

LEMMA InsertKeeps == ASSUME IInv, NEW w \in Importers, Insert(w) PROVE IInv'
  <1>1. Writing(w) /\ UNCHANGED <<clock, walk, trouble>>
    BY DEF Insert
  <1>2. CASE /\ RowsOf(NextSku(w)) = {}
             /\ \E i \in Ids :
                    /\ product[i].state = "unused"
                    /\ product' = [product EXCEPT ![i] = [state |-> "pending", sku |-> NextSku(w),
                                                          at |-> importer[w].at, by |-> w]]
             /\ Goto(w, [importer[w] EXCEPT !.next = @ + 1, !.report.inserted = @ + 1])
    BY <1>1, <1>2, InsertsRow
  <1>3. CASE Goto(w, [importer[w] EXCEPT !.next = @ + 1]) /\ UNCHANGED product
    BY <1>1, <1>3, SkipsRow
  <1> QED
    BY <1>2, <1>3 DEF Insert

LEMMA CommitKeeps == ASSUME IInv, NEW w \in Importers, Commit(w) PROVE IInv'
  <1>1. PICK r \in Requests :
            /\ r = importer[w] /\ RequestFits(w, r, product) /\ r.pc = "insert"
            /\ Inserts(w, r, product) /\ r.next > Len(r.new)
    BY WritingFits DEF Commit
  <1>2. PICK n \in Nat : n = Len(r.new) - r.report.inserted
    <2>1. /\ Len(r.new) \in Nat /\ r.report.inserted \in Nat /\ r.next \in Nat
          /\ r.next \in 1..(Len(r.new) + 1) /\ r.report.inserted < r.next
      BY <1>1, RequestFields DEF Inserts
    <2>2. Len(r.new) - r.report.inserted \in Nat
      BY <2>1
    <2> QED
      BY <2>2
  <1>3. PICK k \in Nat : k = r.report.skipped + n
    BY RequestFields
  <1>4. Goto(w, [r EXCEPT !.pc = "report", !.report.skipped = k])
    <2>1. Max({0, Len(r.new) - r.report.inserted}) = n
      BY <1>2, MaxOf
    <2> QED
      BY <1>1, <1>3, <2>1 DEF Commit
  <1>5. PICK q : q = [r EXCEPT !.pc = "report", !.report.skipped = k]
    OBVIOUS
  <1>6. /\ q \in Requests /\ q.pc = "report"
        /\ q.report.inserted = r.report.inserted /\ q.report.skipped = k
        /\ q.report.rows = r.report.rows
        /\ q.report.duplicate = r.report.duplicate /\ q.report.errors = r.report.errors
    BY <1>5, NamedPCs DEF Requests, Reports
  <1>7. product' = Committed(w) /\ UNCHANGED <<clock, walk, trouble>>
    BY DEF Commit
  <1>8. TableFits(product') /\ RowsBy(w, product') = {} /\ OthersKept(w) /\ LiveKept
    BY <1>7, CommittedFits DEF IInv
  <1>9. Accounts(q)
    <2>1. r.report.rows = r.report.duplicate + r.report.errors + r.report.skipped + Len(r.new)
      BY <1>1 DEF RequestFits, Accounts
    <2>2. r.report.rows = r.report.inserted + k + r.report.duplicate + r.report.errors
      <3>1. PICK a \in Nat, b \in Nat, c \in Nat, d \in Nat, e \in Nat :
                /\ a = Len(r.new) /\ b = r.report.inserted /\ c = r.report.skipped
                /\ d = r.report.duplicate /\ e = r.report.errors
        BY RequestFields
      <3>2. n = a - b /\ k = c + n
        BY <3>1, <1>2, <1>3
      <3>3. d + e + c + a = b + k + d + e
        BY <3>2
      <3> QED
        BY <2>1, <3>1, <3>3
    <2> QED
      BY <2>2, <1>6 DEF Accounts
  <1>10. RequestFits(w, q, product')
    BY <1>6, <1>8, <1>9 DEF RequestFits
  <1> QED
    BY <1>4, <1>5, <1>7, <1>8, <1>10, TableStep DEF IInv

LEMMA RetryKeeps == ASSUME IInv, NEW w \in Importers, Retry(w) PROVE IInv'
  <1>1. PICK r \in Requests :
            /\ r = importer[w] /\ RequestFits(w, r, product) /\ r.pc = "insert"
            /\ Ascending(r.new)
    BY WritingFits DEF Retry
  <1>2. PICK q : q = [r EXCEPT !.pc = "open", !.report.inserted = 0]
    OBVIOUS
  <1>3. /\ q \in Requests /\ q.pc = "open" /\ q.new = r.new
        /\ q.report.inserted = 0 /\ q.report.skipped = r.report.skipped
        /\ q.report.rows = r.report.rows
        /\ q.report.duplicate = r.report.duplicate /\ q.report.errors = r.report.errors
    BY <1>2, NamedPCs DEF Requests, Reports
  <1>4. Goto(w, q) /\ product' = Undone(w) /\ UNCHANGED <<clock, walk>> /\ Trouble
    BY <1>1, <1>2 DEF Retry
  <1>5. TableFits(product') /\ RowsBy(w, product') = {} /\ OthersKept(w) /\ LiveKept
    BY <1>4, UndoneFits DEF IInv
  <1>6. Accounts(q)
    BY <1>1, <1>3 DEF RequestFits, Accounts
  <1>7. RequestFits(w, q, product')
    BY <1>1, <1>3, <1>5, <1>6 DEF RequestFits
  <1> QED
    BY <1>4, <1>5, <1>7, TroubleMore, TableStep

LEMMA FailsKeeps == ASSUME IInv, NEW w \in Importers, Fails(w) PROVE IInv'
  <1>1. product' = Undone(w) /\ Goto(w, Idle) /\ UNCHANGED <<clock, walk>>
    BY DEF Fails
  <1>2. trouble' \in 0..MaxTrouble
    BY TroubleMore DEF Fails, IInv
  <1>3. TableFits(product') /\ RowsBy(w, product') = {} /\ OthersKept(w) /\ LiveKept
    BY <1>1, UndoneFits DEF IInv
  <1>4. RequestFits(w, Idle, product')
    BY <1>3, IdleRequestFits
  <1> QED
    BY <1>1, <1>2, <1>3, <1>4, TableStep

-----------------------------------------------------------------------------
(* The steps of others.                                                     *)

(* A change of one row that is live, in a request nobody makes here.        *)
LEMMA LiveRowIsNobodys ==
    ASSUME IInv, NEW i \in Live
    PROVE  /\ i \in Ids /\ product[i] \in Row /\ product[i].state = "live"
           /\ product[i].by = NoOne /\ Held(product, i)
  BY DEF IInv, TableFits, Live, Held

LEMMA RequestsStay ==
    ASSUME IInv, UNCHANGED importer,
           \A v \in Importers, i \in Ids :
                /\ (product'[i].by = v) <=> (product[i].by = v)
                /\ product[i].by = v => product'[i].sku = product[i].sku
    PROVE  RequestsFit'
  <1>1. ASSUME NEW v \in Importers PROVE RequestFits(v, importer[v], product')
    BY FitsNow, OtherRequests
  <1> QED
    BY <1>1 DEF IInv, RequestsFit

LEMMA DeleteProductKeeps == ASSUME IInv, NEW i \in Ids, DeleteProduct(i) PROVE IInv'
  <1>1. i \in Live /\ Trouble /\ UNCHANGED <<clock, importer>>
    BY DEF DeleteProduct
  <1>2. PICK row \in Row : /\ product' = [product EXCEPT ![i] = row]
                           /\ row.state = "deleted" /\ row.by = NoOne
    <2>1. PICK u \in Row : u = Unused /\ u.by = NoOne
      BY UnusedFits
    <2>2. PICK row : row = [u EXCEPT !.state = "deleted"]
      OBVIOUS
    <2>3. row \in Row /\ row.state = "deleted" /\ row.by = NoOne
      BY <2>1, <2>2 DEF Row
    <2> QED
      BY <2>1, <2>2, <2>3 DEF DeleteProduct
  <1>3. /\ product \in [Ids -> Row] /\ product'[i] = row
        /\ \A j \in Ids \ {i} : product'[j] = product[j]
    BY <1>2 DEF IInv, TableFits
  <1>4. TableFits(product')
    <2>1. product' \in [Ids -> Row]
      BY <1>2, <1>3
    <2>2. \A j \in Ids : Held(product', j) => j # i /\ Held(product, j) /\ product'[j] = product[j]
      BY <1>2, <1>3 DEF Held
    <2>3. \A j \in Ids : (product'[j].state = "pending") <=> (product'[j].by # NoOne)
      BY <1>2, <1>3 DEF IInv, TableFits
    <2> QED
      BY <2>1, <2>2, <2>3 DEF IInv, TableFits
  <1>5. \A v \in Importers, j \in Ids :
            /\ (product'[j].by = v) <=> (product[j].by = v)
            /\ product[j].by = v => product'[j].sku = product[j].sku
    BY <1>1, <1>2, <1>3, LiveRowIsNobodys, CatalogueAssumption
  <1>6. RequestsFit'
    BY <1>1, <1>5, RequestsStay
  <1>7. WalkFits'
    <2>1. PICK k \in [on : BOOLEAN, asc : BOOLEAN, cursor : Keys,
                      shown : SUBSET Ids, owed : SUBSET Ids, again : SUBSET Ids] : k = walk
      BY DEF IInv, WalkFits
    <2>2. PICK n : n = [k EXCEPT !.owed = @ \ {i}, !.shown = @ \ {i}]
      OBVIOUS
    <2>3. /\ n \in [on : BOOLEAN, asc : BOOLEAN, cursor : Keys,
                    shown : SUBSET Ids, owed : SUBSET Ids, again : SUBSET Ids]
          /\ n.on = k.on /\ n.asc = k.asc /\ n.cursor = k.cursor /\ n.again = k.again
          /\ n.owed = k.owed \ {i} /\ n.shown = k.shown \ {i}
      BY <2>2
    <2>4. walk' = n
      BY <2>1, <2>2 DEF DeleteProduct
    <2>5. Live \ {i} \subseteq Live'
      BY <1>3 DEF Live
    <2>6. \A j \in Live \ {i} : Beyond(j)' = Beyond(j)
      BY <1>3, <2>1, <2>3, <2>4 DEF Live, Beyond, Key
    <2> QED
      BY <2>1, <2>3, <2>4, <2>5, <2>6 DEF IInv, WalkFits
  <1> QED
    BY <1>1, <1>4, <1>6, <1>7, TroubleMore DEF IInv

LEMMA RenameKeeps == ASSUME IInv, NEW i \in Ids, NEW s \in Skus, Rename(i, s) PROVE IInv'
  <1>1. i \in Live /\ RowsOf(s) = {} /\ Trouble /\ UNCHANGED <<clock, importer, walk>>
    BY DEF Rename
  <1>2. PICK old \in Row : /\ old = product[i] /\ old.state = "live" /\ old.by = NoOne
                           /\ old.at # 0
    BY <1>1, LiveRowIsNobodys DEF IInv, TableFits
  <1>3. PICK row \in Row : /\ product' = [product EXCEPT ![i] = row] /\ row.state = "live"
                           /\ row.sku = s /\ row.at = old.at /\ row.by = NoOne
    <2>1. PICK row : row = [old EXCEPT !.sku = s]
      OBVIOUS
    <2>2. /\ row \in Row /\ row.state = "live" /\ row.sku = s /\ row.at = old.at /\ row.by = NoOne
      BY <1>2, <2>1 DEF Row
    <2> QED
      BY <1>2, <2>1, <2>2 DEF Rename
  <1>4. /\ product \in [Ids -> Row] /\ product'[i] = row
        /\ \A j \in Ids \ {i} : product'[j] = product[j]
    BY <1>3 DEF IInv, TableFits
  <1>5. TableFits(product')
    <2>1. product' \in [Ids -> Row]
      BY <1>3, <1>4
    <2>2. \A j \in Ids \ {i} : Held(product', j) => Held(product, j) /\ product'[j].sku # s
      BY <1>1, <1>4 DEF Held, RowsOf
    <2>3. \A j \in Ids : (product'[j].state = "pending") <=> (product'[j].by # NoOne)
      BY <1>3, <1>4 DEF IInv, TableFits
    <2>4. \A j \in Ids : Held(product', j) => product'[j].sku \in Skus /\ product'[j].at # 0
      BY <1>2, <1>3, <1>4, <2>2 DEF IInv, TableFits
    <2>5. \A j, k \in Ids : Held(product', j) /\ Held(product', k)
                            /\ product'[j].sku = product'[k].sku => j = k
      BY <1>3, <1>4, <2>2 DEF IInv, TableFits
    <2> QED
      BY <2>1, <2>3, <2>4, <2>5 DEF TableFits
  <1>6. \A v \in Importers, j \in Ids :
            /\ (product'[j].by = v) <=> (product[j].by = v)
            /\ product[j].by = v => product'[j].sku = product[j].sku
    BY <1>2, <1>3, <1>4, CatalogueAssumption
  <1>7. RequestsFit'
    BY <1>1, <1>6, RequestsStay
  <1>8. LiveKept
    BY <1>2, <1>3, <1>4 DEF LiveKept
  <1>9. WalkFits'
    BY <1>1, <1>8, WalkKeeps DEF IInv
  <1> QED
    BY <1>1, <1>5, <1>7, <1>9, TroubleMore DEF IInv

LEMMA TickKeeps == ASSUME IInv, Tick PROVE IInv'
  <1>1. UNCHANGED <<product, importer, walk, trouble>> /\ clock' \in 1..MaxTime
    BY CatalogueAssumption DEF IInv, Tick
  <1>2. LiveKept
    BY <1>1 DEF LiveKept
  <1>3. WalkFits'
    BY <1>1, <1>2, WalkKeeps DEF IInv
  <1>4. RequestsFit'
    BY <1>1, RequestsStay
  <1> QED
    BY <1>1, <1>3, <1>4 DEF IInv

-----------------------------------------------------------------------------
(* The walk.                                                                *)

Walks == [on : BOOLEAN, asc : BOOLEAN, cursor : Keys,
          shown : SUBSET Ids, owed : SUBSET Ids, again : SUBSET Ids]

(* Keys are in a strict order.                                              *)
LEMMA KeysOrdered ==
    ASSUME NEW k \in Keys, NEW l \in Keys, NEW m \in Keys
    PROVE  /\ ~Before(k, k)
           /\ Before(k, l) => ~Before(l, k)
           /\ Before(k, l) /\ Before(l, m) => Before(k, m)
  <1>1. PICK a \in Nat, b \in Nat : k = <<a, b>>
    BY DEF Keys
  <1>2. PICK c \in Nat, d \in Nat : l = <<c, d>>
    BY DEF Keys
  <1>3. PICK e \in Nat, f \in Nat : m = <<e, f>>
    BY DEF Keys
  <1> QED
    BY <1>1, <1>2, <1>3 DEF Before

LEMMA KeyOfLive ==
    ASSUME IInv, NEW i \in Live
    PROVE  Key(i) \in Keys /\ Key(i) # NoKey
  <1>1. product[i].at \in Nat /\ product[i].at # 0 /\ i \in Nat
    BY LiveRowIsNobodys, CatalogueAssumption DEF IInv, TableFits, Row
  <1> QED
    BY <1>1 DEF Key, Keys, NoKey

(* A page is a first part of what is left; without a next page it is all.   *)
LEMMA PageOf ==
    ASSUME NEW page \in TrimPage
    PROVE  /\ page \subseteq Rest /\ page \subseteq Live
           /\ \A i \in page, j \in Rest \ page : Comes(i, j)
           /\ ~HasNext => page = Rest
  <1>1. page \subseteq Rest /\ Rest \subseteq Live /\ Live \subseteq Ids
    BY DEF TrimPage, Rest, Live
  <1>2. ~HasNext => page = Rest
    <2>1. IsFiniteSet(Rest)
      BY <1>1, IdsFinite
    <2>2. ~HasNext => Cardinality(page) = Cardinality(Rest)
      BY DEF TrimPage
    <2> QED
      BY <1>1, <2>1, <2>2, FS_Subset
  <1> QED
    BY <1>1, <1>2 DEF TrimPage

LEMMA StaysTable ==
    ASSUME IInv, UNCHANGED <<product, clock, importer, trouble>>, WalkFits' PROVE IInv'
  <1>1. RequestsFit'
    BY RequestsStay
  <1> QED
    BY <1>1 DEF IInv

LEMMA NoWalkFits == NoWalk \in Walks /\ ~NoWalk.on /\ NoWalk.again = {} /\ NoWalk.shown = {}
                    /\ NoWalk.owed = {} /\ NoWalk.cursor = NoKey
  BY DEF NoWalk, Walks, Keys, NoKey

LEMMA StartWalkKeeps == ASSUME IInv, NEW asc \in Directions, StartWalk(asc) PROVE IInv'
  <1>1. PICK n \in Walks : n = NoWalk /\ n.again = {} /\ n.shown = {} /\ n.cursor = NoKey
    BY NoWalkFits
  <1>2. asc \in BOOLEAN /\ Live \in SUBSET Ids
    BY CatalogueAssumption DEF Live
  <1>3. PICK k : k = [n EXCEPT !.on = TRUE, !.asc = asc, !.owed = Live]
    OBVIOUS
  <1>4. k \in Walks /\ k.on /\ k.again = {} /\ k.shown = {} /\ k.owed = Live /\ k.cursor = NoKey
    BY <1>1, <1>2, <1>3 DEF Walks
  <1>5. walk' = k /\ UNCHANGED <<product, clock, importer, trouble>>
    BY <1>1, <1>3 DEF StartWalk
  <1>6. Live' = Live /\ \A i : Beyond(i)'
    BY <1>4, <1>5 DEF Live, Beyond
  <1>7. WalkFits'
    BY <1>4, <1>5, <1>6 DEF WalkFits, Walks
  <1> QED
    BY <1>5, <1>7, StaysTable

(* A page with a next one: the cursor moves to its last row.                *)
LEMMA NextPage ==
    ASSUME IInv, walk.on, NEW page \in TrimPage, NEW last \in page,
           \A i \in page \ {last} : Comes(i, last),
           UNCHANGED <<product, clock, importer, trouble>>,
           walk' = [walk EXCEPT !.cursor = Key(last), !.owed = walk.owed \ page,
                        !.again = walk.again \cup (walk.shown \cap page), !.shown = @ \cup page]
    PROVE  IInv'
  <1>1. PICK k \in Walks : /\ k = walk /\ k.again = {} /\ k.shown \cup k.owed \subseteq Live
                           /\ \A i \in k.owed : Beyond(i)
                           /\ \A i \in k.shown : ~Beyond(i)
    BY DEF IInv, WalkFits, Walks
  <1>2. /\ page \subseteq Rest /\ page \subseteq Live /\ page \subseteq Ids /\ last \in Live
        /\ \A i \in page, j \in Rest \ page : Comes(i, j)
    BY PageOf DEF Live
  <1>3. PICK c \in Keys : c = Key(last) /\ c # NoKey
    BY <1>2, KeyOfLive
  <1>4. k.shown \cap page = {}
    BY <1>1, <1>2 DEF Rest
  <1>5. PICK n : n = [k EXCEPT !.cursor = c, !.owed = k.owed \ page, !.again = {},
                               !.shown = k.shown \cup page]
    OBVIOUS
  <1>6. /\ n \in Walks /\ n.on = k.on /\ n.asc = k.asc /\ n.cursor = c /\ n.owed = k.owed \ page
        /\ n.again = {} /\ n.shown = k.shown \cup page
    BY <1>2, <1>5 DEF Walks
  <1>7. k.again \cup (k.shown \cap page) = {}
    BY <1>1, <1>4
  <1>8. walk' = n
    BY <1>1, <1>3, <1>5, <1>7
  <1>9. \A i : Key(i)' = Key(i)
    BY DEF Key
  <1>10. \A i : Beyond(i)' <=> IF k.asc THEN Before(c, Key(i)) ELSE Before(Key(i), c)
    BY <1>3, <1>6, <1>8, <1>9 DEF Beyond
  <1>11. \A i, j : Comes(i, j) <=> IF k.asc THEN Before(Key(i), Key(j)) ELSE Before(Key(j), Key(i))
    BY <1>1 DEF Comes
  <1>12. \A i : Beyond(i) <=>
            \/ k.cursor = NoKey
            \/ IF k.asc THEN Before(k.cursor, Key(i)) ELSE Before(Key(i), k.cursor)
    BY <1>1 DEF Beyond
  <1>13. ASSUME NEW i \in n.owed PROVE Beyond(i)'
    <2>1. i \in Rest \ page
      BY <1>1, <1>6 DEF Rest
    <2>2. Comes(last, i)
      BY <1>2, <2>1
    <2> QED
      BY <1>3, <1>10, <1>11, <2>2
  <1>14. ASSUME NEW i \in page PROVE ~Beyond(i)'
    <2>1. Key(i) \in Keys
      BY <1>2, KeyOfLive
    <2>2. CASE i = last
      BY <2>1, <2>2, <1>3, <1>10, KeysOrdered
    <2>3. CASE i # last
      <3>1. Comes(i, last)
        BY <2>3
      <3> QED
        BY <3>1, <2>1, <1>3, <1>10, <1>11, KeysOrdered
    <2> QED
      BY <2>2, <2>3
  <1>15. ASSUME NEW i \in k.shown PROVE ~Beyond(i)'
    <2>1. Key(i) \in Keys /\ k.cursor \in Keys
      BY <1>1, KeyOfLive DEF Walks
    <2>2. ~Beyond(i) /\ Beyond(last)
      BY <1>1, <1>2 DEF Rest
    <2>3. CASE k.asc
      <3>1. Before(k.cursor, c) /\ ~Before(k.cursor, Key(i))
        BY <2>2, <2>3, <1>3, <1>12
      <3> QED
        BY <3>1, <2>1, <2>3, <1>10, KeysOrdered
    <2>4. CASE ~k.asc
      <3>1. Before(c, k.cursor) /\ ~Before(Key(i), k.cursor)
        BY <2>2, <2>4, <1>3, <1>12
      <3> QED
        BY <3>1, <2>1, <2>4, <1>10, KeysOrdered
    <2> QED
      BY <2>3, <2>4
  <1>16. Live' = Live
    BY DEF Live
  <1>17. WalkFits'
    <2>1. n.on
      BY <1>1, <1>6
    <2>2. n.shown \cup n.owed \subseteq Live
      BY <1>1, <1>2, <1>6
    <2> QED
      BY <1>6, <1>8, <1>13, <1>14, <1>15, <1>16, <2>1, <2>2 DEF WalkFits, Walks
  <1> QED
    BY <1>17, StaysTable

(* The last page: nothing is owed any more.                                 *)
LEMMA LastPage ==
    ASSUME IInv, walk.on, NEW page \in TrimPage, ~HasNext,
           UNCHANGED <<product, clock, importer, trouble>>,
           walk' = [NoWalk EXCEPT !.owed = walk.owed \ page,
                                  !.again = walk.again \cup (walk.shown \cap page)]
    PROVE  IInv'
  <1>1. walk.owed \subseteq Rest /\ walk.again = {} /\ walk.shown \cap Rest = {}
    BY DEF IInv, WalkFits, Rest
  <1>2. walk.owed \ page = {} /\ walk.again \cup (walk.shown \cap page) = {}
    BY <1>1, PageOf
  <1>3. PICK n \in Walks : n = NoWalk /\ ~n.on /\ n.shown = {}
    BY NoWalkFits
  <1>4. PICK k : k = [n EXCEPT !.owed = {}, !.again = {}]
    OBVIOUS
  <1>5. k \in Walks /\ ~k.on /\ k.shown = {} /\ k.owed = {} /\ k.again = {}
    BY <1>3, <1>4 DEF Walks
  <1>6. walk' = k
    BY <1>2, <1>3, <1>4
  <1>7. WalkFits'
    BY <1>5, <1>6 DEF WalkFits, Walks
  <1> QED
    BY <1>7, StaysTable

LEMMA GetAllProductKeeps == ASSUME IInv, GetAllProduct PROVE IInv'
  <1>1. PICK page \in TrimPage :
            LET owed == walk.owed \ page
                again == walk.again \cup (walk.shown \cap page)
            IN IF HasNext
               THEN \E last \in page :
                        /\ \A i \in page \ {last} : Comes(i, last)
                        /\ walk' = [walk EXCEPT !.cursor = Key(last), !.owed = owed,
                                                !.again = again, !.shown = @ \cup page]
               ELSE walk' = [NoWalk EXCEPT !.owed = owed, !.again = again]
    BY DEF GetAllProduct
  <1>2. walk.on /\ UNCHANGED <<product, clock, importer, trouble>>
    BY DEF GetAllProduct
  <1>3. CASE HasNext
    <2>1. PICK last \in page :
            /\ \A i \in page \ {last} : Comes(i, last)
            /\ walk' = [walk EXCEPT !.cursor = Key(last), !.owed = walk.owed \ page,
                            !.again = walk.again \cup (walk.shown \cap page),
                            !.shown = @ \cup page]
      BY <1>1, <1>3
    <2> QED
      BY <1>2, <2>1, NextPage
  <1>4. CASE ~HasNext
    <2>1. walk' = [NoWalk EXCEPT !.owed = walk.owed \ page,
                                 !.again = walk.again \cup (walk.shown \cap page)]
      BY <1>1, <1>4
    <2> QED
      BY <1>2, <1>4, <2>1, LastPage
  <1> QED
    BY <1>3, <1>4

-----------------------------------------------------------------------------
(* The invariant, and what follows from it.                                 *)

LEMMA InitFits == ASSUME Init PROVE IInv
  <1>0. PICK old \in SUBSET Ids : \E sku \in Injection(old, Skus) :
            product = [i \in Ids |-> IF i \in old
                                     THEN [Unused EXCEPT !.state = "live", !.sku = sku[i], !.at = 1]
                                     ELSE Unused]
    BY DEF Init
  <1>1. PICK sku \in Injection(old, Skus) :
            product = [i \in Ids |-> IF i \in old
                                     THEN [Unused EXCEPT !.state = "live", !.sku = sku[i], !.at = 1]
                                     ELSE Unused]
    BY <1>0
  <1>2. sku \in [old -> Skus] /\ \A i, j \in old : sku[i] = sku[j] => i = j
    BY DEF Injection, IsInjective
  <1>3. PICK u \in Row : u = Unused /\ u.by = NoOne /\ u.state = "unused"
    BY UnusedFits DEF Unused
  <1>4. ASSUME NEW i \in old
        PROVE  /\ product[i] \in Row /\ product[i].state = "live" /\ product[i].by = NoOne
               /\ product[i].sku = sku[i] /\ product[i].at = 1
    <2>1. product[i] = [u EXCEPT !.state = "live", !.sku = sku[i], !.at = 1]
      BY <1>1, <1>3
    <2>2. sku[i] \in Skus /\ i \in Ids
      BY <1>2
    <2>3. PICK t \in Skus : t = sku[i]
      BY <2>2
    <2>4. PICK row : row = [u EXCEPT !.state = "live", !.sku = t, !.at = 1]
      OBVIOUS
    <2>5. row \in Row /\ row.state = "live" /\ row.by = u.by /\ row.sku = t /\ row.at = 1
      BY <2>4 DEF Row
    <2> QED
      BY <1>3, <2>1, <2>3, <2>4, <2>5
  <1>5. \A i \in Ids \ old : product[i] = u
    BY <1>1, <1>3
  <1>6. product \in [Ids -> Row]
    <2>1. \A i \in Ids : product[i] \in Row
      BY <1>4, <1>5
    <2>2. product = [i \in Ids |-> product[i]]
      BY <1>1
    <2> QED
      BY <2>1, <2>2
  <1>7. TableFits(product)
    <2>1. \A i \in Ids : Held(product, i) => i \in old
      BY <1>3, <1>5 DEF Held
    <2> QED
      BY <1>2, <1>3, <1>4, <1>5, <1>6, <2>1 DEF TableFits
  <1>8. RequestsFit
    <2>1. \A w \in Importers : RowsBy(w, product) = {}
      BY <1>3, <1>4, <1>5, CatalogueAssumption DEF RowsBy
    <2> QED
      BY <2>1, IdleRequestFits DEF Init, RequestsFit
  <1>9. WalkFits
    BY NoWalkFits DEF Init, WalkFits, Walks
  <1>10. 1 \in 1..MaxTime /\ 0 \in 0..MaxTrouble
    BY CatalogueAssumption
  <1>11. clock = 1 /\ trouble = 0
    BY DEF Init
  <1> QED
    BY <1>7, <1>8, <1>9, <1>10, <1>11 DEF IInv

LEMMA StepFits == IInv /\ [Next]_vars => IInv'
  <1> SUFFICES ASSUME IInv, [Next]_vars PROVE IInv'
    OBVIOUS
  <1>1. ASSUME NEW w \in Importers, Step(w) PROVE IInv'
    BY <1>1, CheckExistingKeeps, OpenKeeps, InsertKeeps, CommitKeeps, ReportKeeps DEF Step
  <1>2. ASSUME NEW w \in Importers, Retry(w) \/ Fails(w) PROVE IInv'
    BY <1>2, RetryKeeps, FailsKeeps
  <1>3. ASSUME NEW w \in Importers, NEW f \in Files, AddBulk(w, f) PROVE IInv'
    BY <1>3, AddBulkKeeps
  <1>4. ASSUME NEW w \in Importers, NEW s \in Skus, AddProduct(w, s) PROVE IInv'
    BY <1>4, AddProductKeeps
  <1>5. ASSUME NEW i \in Ids, DeleteProduct(i) PROVE IInv'
    BY <1>5, DeleteProductKeeps
  <1>6. ASSUME NEW i \in Ids, NEW s \in Skus, Rename(i, s) PROVE IInv'
    BY <1>6, RenameKeeps
  <1>7. CASE Tick
    BY <1>7, TickKeeps
  <1>8. CASE GetAllProduct
    BY <1>8, GetAllProductKeeps
  <1>9. ASSUME NEW asc \in Directions, StartWalk(asc) PROVE IInv'
    BY <1>9, StartWalkKeeps
  <1>10. CASE UNCHANGED vars
    <2>1. UNCHANGED <<product, clock, importer, walk, trouble>>
      BY <1>10 DEF vars
    <2>2. LiveKept
      BY <2>1 DEF LiveKept
    <2>3. WalkFits'
      BY <2>1, <2>2, WalkKeeps DEF IInv
    <2> QED
      BY <2>1, <2>3, StaysTable
  <1> QED
    BY <1>1, <1>2, <1>3, <1>4, <1>5, <1>6, <1>7, <1>8, <1>9, <1>10 DEF Next

LEMMA Always == Spec => []IInv
  BY InitFits, StepFits, PTL DEF Spec

(* Every reachable state is of the types; at most one row has a SKU that is *)
(* not deleted, counting those that no transaction has committed yet, and a *)
(* walk's bookkeeping only names live rows.                                 *)
THEOREM TypeCorrect == Spec => []TypeOK
  <1>1. IInv => TypeOK
    <2> SUFFICES ASSUME IInv PROVE TypeOK
      OBVIOUS
    <2>1. \A i \in Ids : /\ product[i].state \in {"unused", "pending", "live", "deleted"}
                         /\ (product[i].state = "pending") = (product[i].by # NoOne)
      BY DEF IInv, TableFits, Row
    <2>2. ASSUME NEW s \in Skus PROVE Cardinality(RowsOf(s)) <= 1
      <3>1. \A i, j \in RowsOf(s) : i = j
        BY RowsOfOne DEF IInv
      <3>2. CASE RowsOf(s) = {}
        BY <3>2, Empty
      <3>3. CASE RowsOf(s) # {}
        <4>1. PICK i : RowsOf(s) = {i}
          BY <3>1, <3>3
        <4>2. Cardinality({i}) = 1
          BY FS_Singleton
        <4> QED
          BY <4>1, <4>2
      <3> QED
        BY <3>2, <3>3
    <2>3. \A w \in Importers : importer[w].pc \in PCs
      BY FitsNow, RequestFields
    <2> QED
      BY <2>1, <2>2, <2>3 DEF IInv, WalkFits, TypeOK
  <1> QED
    BY <1>1, Always, PTL

(* Whatever files are imported while rows come and go, a report accounts    *)
(* for every row of its file, once, and what it counts as inserted are the  *)
(* rows its transaction holds.                                              *)
THEOREM ReportAccountsHolds == Spec => []ReportAccounts
  <1>1. IInv => ReportAccounts
    <2> SUFFICES ASSUME IInv, NEW w \in Importers
                 PROVE  LET r == importer[w].report IN
                        /\ At(w, "report") =>
                                r.rows = r.inserted + r.skipped + r.duplicate + r.errors
                        /\ At(w, "insert") =>
                                r.inserted = Cardinality({i \in Ids : product[i].by = w})
      BY DEF ReportAccounts
    <2> QED
      BY FitsNow DEF RequestFits, Accounts, Inserts, RowsBy, At
  <1> QED
    BY <1>1, Always, PTL

(* An importer that waits for another wants a SKU the other has inserted,   *)
(* and so a smaller one than the other wants next.                          *)
LEMMA WaitsForLarger ==
    ASSUME IInv, NEW w \in Importers, NEW u \in Importers, u \in WaitsFor(w)
    PROVE  /\ Writing(w) /\ NextSku(w) \in Skus
           /\ Writing(u) => NextSku(w) < NextSku(u)
  <1>1. Writing(w) /\ \E i \in RowsOf(NextSku(w)) : product[i].by = u
    BY DEF WaitsFor
  <1>2. PICK i \in Ids : product[i].sku = NextSku(w) /\ product[i].by = u
    BY <1>1 DEF RowsOf
  <1>3. PICK r \in Requests : r = importer[u] /\ RequestFits(u, r, product)
    BY FitsNow
  <1>4. r.pc = "insert"
    BY <1>2, <1>3 DEF RequestFits, RowsBy
  <1>5. PICK k \in 1..(r.next - 1) : NextSku(w) = r.new[k]
    BY <1>2, <1>3, <1>4 DEF RequestFits, Inserts
  <1>6. ASSUME Writing(u) PROVE NextSku(w) < NextSku(u)
    <2>1. r.next \in 1..Len(r.new) /\ Ascending(r.new) /\ NextSku(u) = r.new[r.next]
      BY <1>3, <1>4, <1>6, WritingFits DEF At
    <2>2. Len(r.new) \in Nat /\ r.next \in Nat
      BY RequestFields
    <2>3. k \in 1..Len(r.new) /\ k < r.next
      BY <2>1, <2>2
    <2> QED
      BY <1>5, <2>1, <2>3 DEF Ascending
  <1>7. NextSku(w) \in Skus
    BY <1>1, WritingFits DEF Writing
  <1> QED
    BY <1>1, <1>6, <1>7

(* However many imports and single inserts run at once, and whatever SKUs   *)
(* their files share, they do not wait for each other in a circle.          *)
THEOREM ImportsDontBlockHolds == Spec => []ImportsDontBlock
  <1>1. IInv => ImportsDontBlock
    <2> SUFFICES ASSUME IInv, NEW S \in SUBSET Importers, S # {},
                        \A w \in S : WaitsFor(w) \cap S # {}
                 PROVE  FALSE
      BY DEF ImportsDontBlock
    <2>1. \A w \in S : /\ Writing(w) /\ NextSku(w) \in Skus
                       /\ \E u \in S : NextSku(w) < NextSku(u)
      <3>1. ASSUME NEW w \in S PROVE Writing(w) /\ NextSku(w) \in Skus
        BY WaitsForLarger
      <3>2. ASSUME NEW w \in S PROVE \E u \in S : NextSku(w) < NextSku(u)
        BY <3>1, WaitsForLarger
      <3> QED
        BY <3>1, <3>2
    <2>2. PICK T : T = {NextSku(w) : w \in S}
      OBVIOUS
    <2>3. T \subseteq Skus /\ T # {}
      BY <2>1, <2>2
    <2>4. PICK x \in T : \A y \in T : y <= x
      BY <2>3, Largest
    <2>5. PICK w \in S : x = NextSku(w)
      BY <2>2, <2>4
    <2>6. PICK u \in S : x < NextSku(u)
      BY <2>1, <2>5
    <2>7. NextSku(u) \in T /\ NextSku(u) \in Nat /\ x \in Nat
      BY <2>1, <2>2, <2>3, CatalogueAssumption
    <2> QED
      BY <2>4, <2>6, <2>7
  <1> QED
    BY <1>1, Always, PTL

(* In either order and with any page size, a walk shows no row twice, and   *)
(* at its end it has shown each that was live from its beginning to its     *)
(* end.                                                                     *)
THEOREM WalkCompleteHolds == Spec => []WalkComplete
  <1>1. IInv => WalkComplete
    BY DEF IInv, WalkFits, WalkComplete
  <1> QED
    BY <1>1, Always, PTL

=============================================================================
