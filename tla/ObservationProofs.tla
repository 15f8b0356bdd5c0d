------------------------- MODULE ObservationProofs -------------------------
(***************************************************************************)
(* For any number of listings, projects, prices, result pages, scans and   *)
(* refreshes: what a project remembers of a car is what its reports told,  *)
(* a car is sold only after it was read so, prices change only to real     *)
(* ones, and a car that never left the results is never missing.           *)
(***************************************************************************)
EXTENDS Observation, TLAPS, FiniteSetTheorems, WellFoundedInduction

----------------------------------------------------------------------------
(* The inductive invariant *)

Pasts ==
    [changes : 0 .. MaxChanges, scans : Nat, real : [Cars -> SUBSET Prices],
     sold : SUBSET Cars, out : [Projects -> SUBSET Cars], full : [Projects -> SUBSET Nat],
     lost : SUBSET (Projects \X Cars), gone : SUBSET (Projects \X Cars),
     quiet : SUBSET (Projects \X Cars)]

\* TypeOK, the types of the worker's local state and of the history, and what
\* bounds the revisions.
TypeInv ==
    /\ TypeOK
    /\ past \in Pasts
    /\ \A p \in Projects : project[p].rev =< past.changes + 1
    /\ scan \in ProjectScans \cup CarScans \cup {None}

OfProject == scan \in ProjectScans

\* A task knows the price of the shared car and what the project's link
\* remembers until its result is applied.
Current(task, p) ==
    LET c == task.car
    IN /\ task.known = IF cars[c] = None THEN 0 ELSE cars[c].price
       /\ IF link[p][c] = None THEN task.previous = None
          ELSE task.previous # None /\ task.previous.seen = link[p][c].seen

\* Tasks are current, at most one per car, never for a row still to be
\* processed; one for a car that the search did not show has a link.
TaskInv ==
    /\ OfProject =>
        /\ \A task \in scan.tasks :
            /\ Current(task, scan.project)
            /\ task.car \notin scan.rows
            /\ IF task.found THEN cars[task.car] = None \/ task.car \in scan.found
               ELSE link[scan.project][task.car] # None
        /\ \A s, t \in scan.tasks : s.car = t.car => s = t
        /\ scan.phase = "pages" => scan.tasks = {} /\ scan.found = {}
        /\ scan.phase = "rows" => \A task \in scan.tasks : task.found
    /\ scan \in CarScans =>
        LET p == scan.project
            c == scan.task.car
        IN /\ link[p][c] # None /\ scan.task.previous # None
           /\ scan.phase = "car" => Current(scan.task, p)
           /\ scan.phase = "publish" => link[p][c].seen = cars[c]

SoldInv == SoldWasRead /\ (OfProject => scan.sold \subseteq past.sold)

\* The cars that a complete enumeration must not lose.
Kept(p) == Cars \ past.out[p]

Followed(p) == {c \in Kept(p) \ past.sold : link[p][c] # None /\ link[p][c].tracked}

\* A car that never left the results is in the pages collected so far when its
\* position is, then among the rows or the found cars, then found.
SearchInv ==
    /\ \A p \in Projects : Kept(p) \subseteq Results(market, project[p].rev)
    /\ OfProject =>
        LET p == scan.project
        IN /\ Kept(p) \subseteq Matches(scan.rev)
           /\ scan.phase = "pages" =>
                /\ scan.page >= 1
                /\ \A c \in Kept(p) :
                    Position(c, scan.rev) < (scan.page - 1) * PageSize => c \in scan.rows
           /\ scan.phase = "rows" /\ scan.all => Followed(p) \subseteq scan.found \cup scan.rows
           /\ scan.phase = "details" /\ scan.all => Followed(p) \subseteq scan.found

\* A baseline is the revision of a completed scan.
BaseInv ==
    /\ \A p \in Projects : project[p].base \in past.full[p] \cup {0}
    /\ OfProject /\ ~scan.baseline => scan.rev \in past.full[scan.project]

PriceInv == \A c \in Cars : market[c].price \in past.real[c]

\* What the stored reports of a project say of a car it remembers as seen.
Tells(c, report, seen, silent) ==
    /\ seen.status = "SOLD" => report.change = "SOLD"
    /\ IF report.car # c THEN Vehicle[report.car] = Vehicle[c] /\ Vehicle[c] # None
       ELSE IF report.change = "SOLD" THEN seen.status = "SOLD" \/ silent
       ELSE report.price = seen.price

\* RememberedIsTold, with the state before a refresh until its report is published.
Remembered(p, c) == IF Publishing(p, c) THEN scan.task.previous.seen ELSE link[p][c].seen

ToldInv ==
    \A p \in Projects, c \in Cars :
        (link[p][c] # None /\ <<p, c>> \notin past.lost) =>
            /\ told[p][c] # None
            /\ <<p, c>> \notin past.gone =>
                Tells(c, told[p][c], Remembered(p, c), <<p, c>> \in past.quiet)

Keys == [c \in Cars |-> ReportKey(c, cars[c])]

\* The cars of a run's report: those of one key share one item, which is that
\* of one of them.
Items(reported, key, item) ==
    /\ \A d \in reported :
         /\ item[d] # None
         /\ item[d].car \in reported
         /\ key[item[d].car] = key[d]
    /\ \A d, e \in reported : key[d] = key[e] => item[d] = item[e]

ItemInv == OfProject => Items(scan.reported, Keys, told[scan.project])

\* A car has an item only once the scan is done with it.
FreshInv ==
    OfProject =>
        /\ \A task \in scan.tasks : task.car \notin scan.reported
        /\ \A c \in scan.rows : c \notin scan.reported
        /\ scan.phase = "pages" => scan.reported = {}
        /\ scan.phase = "rows" => scan.reported \subseteq scan.found

ReportInv == ItemInv /\ FreshInv

ObsInv ==
    /\ TypeInv /\ TaskInv /\ SoldInv /\ SearchInv /\ BaseInv /\ PriceInv
    /\ ToldInv /\ ReportInv /\ ListedIsNeverMissing

----------------------------------------------------------------------------
(* The operators of the model *)

\* Min picks a row of a page, a price, a spec.
LEMMA MinIsMember ==
    ASSUME NEW S \in SUBSET Nat, S # {}
    PROVE  Min(S) \in S
<1>1. PICK x \in S : \A y \in S : <<y, x>> \notin OpToRel(<, Nat)
    BY NatLessThanWellFounded, WFMin
<1>2. ASSUME NEW y \in S PROVE x =< y
  <2>1. <<y, x>> \in Nat \X Nat /\ <<y, x>>[1] = y /\ <<y, x>>[2] = x
      BY SMT
  <2>2. ~(<<y, x>>[1] < <<y, x>>[2])
      BY <1>1, <2>1, Zenon DEF OpToRel
  <2> QED  BY <2>1, <2>2, SMT
<1> QED  BY <1>2, Zenon DEF Min

Details == [sold : BOOLEAN, price : Prices \cup {0}, spec : Specs \cup {0}]

\* A read is a sold page, or has a price of the known kind: a price other than
\* the known one is the price of the listing.
LEMMA VerifiedRead ==
    ASSUME TypeInv, NEW c \in Cars, NEW kind, NEW known \in Prices \cup {0},
           NEW r \in ReadVerifiedDetail(c, kind, known) \cup {Unread}
    PROVE  /\ r \in Details
           /\ r.sold <=> r = Sold
           /\ (known # 0 /\ r.price \notin {0, known}) => r.price = market[c].price
<1>1. market[c] \in [listed : BOOLEAN, page : {"live", "sold"}, price : Prices, spec : Specs]
    BY DEF TypeInv, TypeOK
<1>2. CASE r \in {Sold, Unread}
  <2>1. /\ Sold \in Details /\ Sold.sold = TRUE /\ Sold.price = 0
        /\ Unread \in Details /\ Unread.sold = FALSE /\ Unread.price = 0
      BY SMT DEF Sold, Unread, Details
  <2> QED  BY <1>2, <2>1
<1>3. CASE r \notin {Sold, Unread}
  <2>1. PICK price \in Prices :
            r = [sold |-> FALSE, price |-> price,
                 spec |-> IF kind = "FULL" THEN market[c].spec ELSE 0]
      BY <1>3, Zenon DEF ReadVerifiedDetail, Reads
  <2>2. r.sold = FALSE /\ r.price = price /\ r \in Details /\ r # Sold
      BY <2>1, <1>1, SMT DEF Details, Sold
  <2>3. (~r.sold /\ known # 0 /\ r.price # known) => ~Unsettled(c, r)
      BY <1>3, Zenon DEF ReadVerifiedDetail
  <2> QED  BY <2>2, <2>3, SMT DEF Unsettled
<1> QED  BY <1>2, <1>3

\* upsert_detail gives a car that is SOLD exactly when the page read was, with
\* the price read unless there was none.
LEMMA UpsertedCar ==
    ASSUME NEW known \in CarStates \cup {None}, NEW detail \in Details
    PROVE  /\ UpsertCar(known, detail) \in CarStates
           /\ UpsertCar(known, detail).status = "SOLD" <=> detail.sold
           /\ detail.price # 0 => UpsertCar(known, detail).price = detail.price
           /\ detail.price = 0 /\ known # None => UpsertCar(known, detail).price = known.price
<1> DEFINE old == IF known = None THEN [price |-> 0, spec |-> 0, status |-> "NEW"] ELSE known
           merged == MergeReliableDetail(old, detail)
           status == UpsertedStatus(old, detail, merged)
<1>1. old \in CarStates /\ (known # None => old = known)
    BY SMT DEF CarStates, Statuses
<1>2. /\ detail.sold \in BOOLEAN
      /\ detail.price \in Prices \cup {0} /\ detail.spec \in Specs \cup {0}
    BY SMT DEF Details
<1>3. /\ merged.price \in Prices \cup {0} /\ merged.spec \in Specs \cup {0}
      /\ detail.price # 0 => merged.price = detail.price
      /\ detail.price = 0 => merged.price = old.price
    BY <1>1, <1>2, SMT DEF MergeReliableDetail, CarStates
<1>4. /\ status \in Statuses
      /\ status = "SOLD" <=> detail.sold
  <2>1. PriceChange(old.price, detail.price) \in {None, "PRICE_DROP", "PRICE_INCREASE"}
      BY DEF PriceChange
  <2>2. None \notin {"PRICE_DROP", "PRICE_INCREASE"}
      BY ListingAssumption, SMT DEF Statuses
  <2>3. old.status \in Statuses
      BY <1>1, SMT DEF CarStates
  <2> HIDE DEF old, merged
  <2> QED  BY <1>2, <2>1, <2>2, <2>3, SMT DEF UpsertedStatus, Statuses
<1>5. UpsertCar(known, detail)
        = [price |-> merged.price, spec |-> merged.spec, status |-> status]
    BY Zenon DEF UpsertCar
<1> HIDE DEF old, merged, status
<1> QED  BY <1>1, <1>3, <1>4, <1>5, SMT DEF CarStates

\* What _change_report says of a car.
LEMMA ChangeFacts ==
    ASSUME NEW car \in CarStates, NEW previous \in PreviousStates \cup {None}, NEW search
    PROVE  LET change == ChangeReport(car, previous, search)
           IN  /\ change \in Statuses \cup {"MATERIAL_UPDATE"} \cup Omitted
               /\ change = "SOLD" => car.status = "SOLD"
               /\ previous = None => change = "NEW"
               /\ (previous # None /\ car.status = "SOLD") =>
                    change = IF previous.seen.status = "SOLD" THEN None ELSE "SOLD"
               /\ (previous # None /\ car.status # "SOLD" /\ change \in Omitted) =>
                    /\ previous.seen.price = car.price
                    /\ previous.seen.status = car.status \/ Unreported(car, previous)
<1>1. car.status \in Statuses
    BY SMT DEF CarStates
<1>2. None \notin Statuses \cup {"MATERIAL_UPDATE", "RELISTED"}
    BY ListingAssumption
<1> DEFINE change == ChangeReport(car, previous, search)
<1>3. CASE previous = None
  <2>1. change = "NEW"
      BY <1>3 DEF ChangeReport
  <2> QED  BY <1>3, <2>1, SMT DEF Statuses
<1>4. CASE previous # None /\ car.status = "SOLD"
  <2>1. change = IF previous.seen.status = "SOLD" THEN None ELSE "SOLD"
      BY <1>4, Zenon DEF ChangeReport
  <2> QED  BY <1>4, <2>1, SMT DEF Statuses, Omitted
<1>5. CASE previous # None /\ car.status # "SOLD"
  <2>1. change \in Statuses \cup {"MATERIAL_UPDATE"} \cup Omitted /\ change # "SOLD"
      BY <1>1, <1>2, <1>5, SMT DEF ChangeReport, Statuses, Omitted
  <2>2. change \in Omitted =>
           /\ previous.seen.price = car.price
           /\ previous.seen.status = car.status \/ Unreported(car, previous)
      BY <1>1, <1>2, <1>5, SMT DEF ChangeReport, Unreported, Statuses, Omitted
  <2> QED  BY <1>5, <2>1, <2>2
<1> QED  BY <1>3, <1>4, <1>5

LEMMA SoldIsReported == "SOLD" \notin Omitted /\ "NEW" \notin Omitted
    BY ListingAssumption, SMT DEF Omitted, Statuses

\* Without a row in the report the stored one still tells, except that a change
\* that is not material stays silent.
LEMMA OmittedTells ==
    ASSUME NEW c, NEW car \in CarStates, NEW previous \in PreviousStates, NEW search,
           ChangeReport(car, previous, search) \in Omitted,
           NEW report, NEW silent \in BOOLEAN, Tells(c, report, previous.seen, silent)
    PROVE  Tells(c, report, car, silent \/ Unreported(car, previous))
<1>1. previous # None
    BY ListingAssumption
<1>2. CASE car.status = "SOLD"
  <2>1. previous.seen.status = "SOLD"
      BY <1>1, <1>2, ChangeFacts, SoldIsReported
  <2> QED  BY <1>2, <2>1 DEF Tells
<1>3. CASE car.status # "SOLD"
  <2>1. /\ previous.seen.price = car.price
        /\ previous.seen.status = car.status \/ Unreported(car, previous)
      BY <1>1, <1>3, ChangeFacts
  <2> QED  BY <1>3, <2>1 DEF Tells
<1> QED  BY <1>2, <1>3

\* The item of an observation tells what the link will remember.
LEMMA ItemTells ==
    ASSUME NEW c \in Cars, NEW car \in CarStates, NEW previous \in PreviousStates \cup {None},
           NEW search, NEW silent, NEW item \in Reports,
           ChangeReport(car, previous, search) \notin Omitted,
           item.car = c, item.change = ChangeReport(car, previous, search), item.price = car.price,
           previous = None => car.status # "SOLD"
    PROVE  Tells(c, item, car, silent)
<1>1. car.status = "SOLD" => item.change = "SOLD"
  <2>1. None \in Omitted
      BY DEF Omitted
  <2> QED  BY <2>1, ChangeFacts
<1>2. item.change = "SOLD" => car.status = "SOLD"
    BY ChangeFacts
<1> QED  BY <1>1, <1>2 DEF Tells

\* Two publications of one key are publications of one vehicle.
LEMMA SameVehicle ==
    ASSUME NEW c \in Cars, NEW d \in Cars, c # d, NEW x, NEW y, ReportKey(c, x) = ReportKey(d, y)
    PROVE  Vehicle[c] = Vehicle[d] /\ Vehicle[d] # None
<1>1. \A a, b, e, f : <<a, b>> = <<e, f>> => a = e /\ b = f
    BY SMT
<1>2. "car" # "registration"
    BY SMT
<1> QED  BY <1>1, <1>2, Zenon DEF ReportKey

\* The report of a run gets the item of a car that joins a group.
Joins(p, c, car, change, group) ==
    told' = [told EXCEPT ![p] =
               DedupeReport(@, group, [car |-> c, change |-> change, price |-> car.price])]

\* The item that the group and the new car share.
Shared(kept, p, c, car, change, group) ==
    /\ kept \in Reports
    /\ \A q \in Projects, d \in Cars :
         told'[q][d] = IF q = p /\ d \in group \cup {c} THEN kept ELSE told[q][d]
    /\ \/ kept.car = c /\ kept.change = change /\ kept.price = car.price
       \/ group # {} /\ change # "SOLD" /\ \A d \in group : told[p][d] = kept
    /\ (\E d \in group : told[p][d].change = "SOLD") => kept.change = "SOLD"

LEMMA NewReport ==
    ASSUME TypeInv, NEW p \in Projects, NEW c \in Cars, NEW car \in CarStates, NEW change,
           change \in Statuses \cup {"MATERIAL_UPDATE"} \cup Omitted, NEW group \in SUBSET Cars,
           \A d, e \in group : told[p][d] # None /\ told[p][d] = told[p][e],
           Joins(p, c, car, change, group)
    PROVE  /\ told' \in [Projects -> [Cars -> Reports \cup {None}]]
           /\ IF change \in Omitted THEN \A q \in Projects, d \in Cars : told'[q][d] = told[q][d]
              ELSE \E kept : Shared(kept, p, c, car, change, group)
<1> DEFINE item == [car |-> c, change |-> change, price |-> car.price]
           lead == told[p][CHOOSE d \in group : TRUE]
           kept == IF group = {} THEN item ELSE Preferred(lead, item)
           row == [d \in Cars |-> IF d \in group \cup {c} THEN kept ELSE told[p][d]]
<1>1. told \in [Projects -> [Cars -> Reports \cup {None}]]
    BY DEF TypeInv, TypeOK
<1>2. item.car = c /\ item.change = change /\ item.price = car.price
    OBVIOUS
<1>3. CASE change \in Omitted
  <2>1. DedupeReport(told[p], group, item) = told[p]
      BY <1>2, <1>3, Zenon DEF DedupeReport
  <2> HIDE DEF item
  <2>2. told' = [told EXCEPT ![p] = told[p]]
      BY <2>1 DEF Joins, item
  <2> QED  BY <1>1, <1>3, <2>2, Zenon
<1>4. CASE change \notin Omitted
  <2>1. item \in Reports
    <3>1. car.price \in Prices \cup {0} /\ change \in Statuses \cup {"MATERIAL_UPDATE"}
        BY <1>4, SMT DEF CarStates
    <3> QED  BY <3>1, SMT DEF Reports
  <2>2. group # {} => /\ lead \in Reports /\ \A d \in group : told[p][d] = lead
    <3> SUFFICES ASSUME group # {} PROVE lead \in Reports /\ \A d \in group : told[p][d] = lead
        OBVIOUS
    <3>1. (CHOOSE d \in group : TRUE) \in group
        OBVIOUS
    <3> QED  BY <1>1, <3>1
  <2>3. DedupeReport(told[p], group, item) = row
      BY <1>2, <1>4, Zenon DEF DedupeReport
  <2> HIDE DEF item, lead
  <2>4. /\ kept \in Reports
        /\ kept = item \/ (group # {} /\ change # "SOLD" /\ kept = lead)
        /\ (group # {} /\ lead.change = "SOLD") => kept.change = "SOLD"
    <3>1. CASE group = {}
        BY <2>1, <3>1
    <3>2. CASE group # {}
      <4>1. kept = Preferred(lead, item)
          BY <3>2
      <4> QED  BY <1>2, <2>1, <2>2, <3>2, <4>1 DEF Preferred
    <3> QED  BY <3>1, <3>2
  <2>5. told' = [told EXCEPT ![p] = row]
      BY <2>3 DEF Joins, item
  <2>6. row \in [Cars -> Reports \cup {None}]
      BY <1>1, <2>4
  <2>7. \A d \in Cars : row[d] = IF d \in group \cup {c} THEN kept ELSE told[p][d]
      OBVIOUS
  <2> HIDE DEF kept, row
  <2>8. /\ told' \in [Projects -> [Cars -> Reports \cup {None}]]
        /\ \A q \in Projects : told'[q] = IF q = p THEN row ELSE told[q]
      BY <1>1, <2>5, <2>6, Zenon
  <2>9. \A q \in Projects, d \in Cars :
          told'[q][d] = IF q = p /\ d \in group \cup {c} THEN kept ELSE told[q][d]
      BY <2>7, <2>8, Zenon
  <2>10. /\ \/ kept.car = c /\ kept.change = change /\ kept.price = car.price
            \/ group # {} /\ change # "SOLD" /\ \A d \in group : told[p][d] = kept
         /\ (\E d \in group : told[p][d].change = "SOLD") => kept.change = "SOLD"
      BY <1>2, <2>2, <2>4
  <2>11. Shared(kept, p, c, car, change, group)
      BY <2>4, <2>9, <2>10, Zenon DEF Shared
  <2> QED  BY <1>4, <2>8, <2>11, Zenon
<1> QED  BY <1>3, <1>4

\* A car in the results has a position below their number.
LEMMA PositionInResults ==
    ASSUME TypeInv, NEW rev, NEW c \in Results(market, rev)
    PROVE  /\ Position(c, rev) \in Nat
           /\ Cardinality(Results(market, rev)) \in Nat
           /\ Position(c, rev) < Cardinality(Results(market, rev))
<1> DEFINE R == Results(market, rev)
           B == {d \in R : d < c}
<1>1. R \subseteq Cars
    BY ListingAssumption DEF Results, Matches
<1>2. IsFiniteSet(R)
    BY <1>1, ListingAssumption, FS_Subset
<1>3. B \subseteq R /\ c \in R /\ c \notin B
  <2>1. c \in Nat
      BY <1>1, ListingAssumption
  <2> QED  BY <2>1, SMT
<1>4. IsFiniteSet(B) /\ Cardinality(B) \in Nat /\ Cardinality(R) \in Nat
    BY <1>2, <1>3, FS_Subset, FS_CardinalityType
<1>5. Cardinality(B) < Cardinality(R)
  <2>1. Cardinality(B) =< Cardinality(R) /\ (Cardinality(B) = Cardinality(R) => B = R)
      BY <1>2, <1>3, FS_Subset
  <2> QED  BY <2>1, <1>3, <1>4, SMT
<1> QED  BY <1>4, <1>5 DEF Position

----------------------------------------------------------------------------
(* The shapes of the worker's state *)

LEMMA Shapes ==
    ASSUME NEW s
    PROVE  /\ s \in ProjectScans =>
                /\ s # None /\ s \notin CarScans
                /\ s.phase \in {"pages", "rows", "details", "finish"} /\ s.project \in Projects
                /\ s.mode \in {"FAST", "ACCURATE"} /\ s.all \in BOOLEAN /\ s.rev \in Nat
                /\ s.baseline \in BOOLEAN /\ s.page \in Nat
                /\ s.fingerprints \in SUBSET SUBSET Cars /\ s.rows \in SUBSET Cars
                /\ s.found \in SUBSET Cars /\ s.tasks \in SUBSET Tasks /\ s.sold \in SUBSET Cars
                /\ s.reported \in SUBSET Cars
           /\ s \in CarScans =>
                /\ s # None /\ s \notin ProjectScans
                /\ s.phase \in {"car", "publish"} /\ s.project \in Projects /\ s.task \in Tasks
<1>1. ASSUME s \in ProjectScans
      PROVE  /\ s.phase \in {"pages", "rows", "details", "finish"} /\ s.project \in Projects
             /\ s.mode \in {"FAST", "ACCURATE"} /\ s.all \in BOOLEAN /\ s.rev \in Nat
             /\ s.baseline \in BOOLEAN /\ s.page \in Nat
             /\ s.fingerprints \in SUBSET SUBSET Cars /\ s.rows \in SUBSET Cars
             /\ s.found \in SUBSET Cars /\ s.tasks \in SUBSET Tasks /\ s.sold \in SUBSET Cars
             /\ s.reported \in SUBSET Cars
    BY <1>1, SMT DEF ProjectScans
<1>2. ASSUME s \in CarScans
      PROVE  s.phase \in {"car", "publish"} /\ s.project \in Projects /\ s.task \in Tasks
    BY <1>2, SMT DEF CarScans
<1>3. s \in ProjectScans \cup CarScans => s # None
    BY ListingAssumption
<1> QED  BY <1>1, <1>2, <1>3, SMT

LEMMA TaskFields ==
    ASSUME NEW t \in Tasks
    PROVE  /\ t.car \in Cars /\ t.kind \in {"FULL", "PRICE_STATUS"} /\ t.found \in BOOLEAN
           /\ t.previous \in PreviousStates \cup {None}
           /\ t.known \in Prices \cup {0} /\ t.tracked \in BOOLEAN
    BY SMT DEF Tasks

LEMMA PastFields ==
    ASSUME NEW h \in Pasts
    PROVE  /\ h.changes \in 0 .. MaxChanges /\ h.scans \in Nat
           /\ h.real \in [Cars -> SUBSET Prices] /\ h.sold \in SUBSET Cars
           /\ h.out \in [Projects -> SUBSET Cars] /\ h.full \in [Projects -> SUBSET Nat]
           /\ h.lost \in SUBSET (Projects \X Cars) /\ h.gone \in SUBSET (Projects \X Cars)
           /\ h.quiet \in SUBSET (Projects \X Cars)
    BY SMT DEF Pasts

\* What the type invariant says of one car, link and report.
LEMMA RowTypes ==
    ASSUME TypeInv, NEW p \in Projects, NEW c \in Cars
    PROVE  /\ market[c] \in [listed : BOOLEAN, page : {"live", "sold"}, price : Prices, spec : Specs]
           /\ cars[c] \in CarStates \cup {None}
           /\ link[p][c] \in Links \cup {None}
           /\ told[p][c] \in Reports \cup {None}
           /\ link[p][c] # None => cars[c] # None
           /\ project[p].rev \in Nat /\ project[p].base \in Nat /\ project[p].done \in BOOLEAN
           /\ project[p].rev \in 1 .. MaxChanges + 1
    BY ListingAssumption, SMT DEF TypeInv, TypeOK

LEMMA ScanTypes ==
    ASSUME TypeInv
    PROVE  /\ scan = None \/ OfProject \/ scan \in CarScans
           /\ past \in Pasts
           /\ OfProject <=> scan # None /\ scan.phase \in {"pages", "rows", "details", "finish"}
           /\ scan \in CarScans <=> scan # None /\ scan.phase \in {"car", "publish"}
    BY Shapes, SMT DEF TypeInv, OfProject

\* Nothing to report about a car that the worker is not publishing.
LEMMA NotPublishing ==
    ASSUME TypeInv, OfProject \/ scan = None, NEW p, NEW c
    PROVE  ~Publishing(p, c)
    BY ScanTypes, SMT DEF Publishing

\* The report of a run changes with an observation only.
LEMMA ReportKept ==
    ASSUME ReportInv, ~OfProject' \/ UNCHANGED <<cars, told, scan>>
    PROVE  ReportInv'
<1>1. CASE ~OfProject'
    BY <1>1 DEF ReportInv, ItemInv, FreshInv
<1>2. CASE UNCHANGED <<cars, told, scan>>
    BY <1>2, Zenon DEF ReportInv, ItemInv, FreshInv, Keys, OfProject
<1> QED  BY <1>1, <1>2

----------------------------------------------------------------------------
(* Init and stuttering *)

LEMMA InitInv == Init => ObsInv
<1> SUFFICES ASSUME Init PROVE ObsInv
    OBVIOUS
<1>1. Min(Prices) \in Prices /\ Min(Specs) \in Specs
    BY MinIsMember, ListingAssumption, SMT
<1>2. scan = None /\ scan \notin ProjectScans /\ scan \notin CarScans
    BY ListingAssumption DEF Init
<1>3. \A c \in Cars : market[c] \in
          {[listed |-> TRUE, page |-> page, price |-> Min(Prices), spec |-> Min(Specs)] :
              page \in {"live", "sold"}}
    BY DEF Init
<1>4. ASSUME NEW c \in Cars
      PROVE  /\ market[c] \in [listed : BOOLEAN, page : {"live", "sold"}, price : Prices, spec : Specs]
             /\ market[c].listed
  <2>1. PICK page \in {"live", "sold"} :
            market[c] = [listed |-> TRUE, page |-> page, price |-> Min(Prices), spec |-> Min(Specs)]
      BY <1>3
  <2> QED  BY <1>1, <2>1, SMT
<1>5. market \in [Cars -> [listed : BOOLEAN, page : {"live", "sold"}, price : Prices, spec : Specs]]
  <2>1. market = [c \in Cars |-> market[c]]
      BY DEF Init
  <2> QED  BY <2>1, <1>4, Zenon
<1>6. /\ past \in Pasts /\ past.changes = 0
      /\ past.real = [c \in Cars |-> {market[c].price}] /\ past.out = [p \in Projects |-> {}]
  <2>1. [c \in Cars |-> {market[c].price}] \in [Cars -> SUBSET Prices]
      BY <1>4, SMT
  <2>2. [p \in Projects |-> {}] \in [Projects -> SUBSET Cars]
        /\ [p \in Projects |-> {}] \in [Projects -> SUBSET Nat]
      BY SMT
  <2> QED  BY <2>1, <2>2, ListingAssumption, SMT DEF Init, Pasts
<1>7. /\ \A c \in Cars : cars[c] = None
      /\ \A p \in Projects : /\ project[p].rev = 1 /\ project[p].base = 0
                             /\ \A c \in Cars : link[p][c] = None
    BY SMT DEF Init
<1>8. TypeInv
  <2>1. /\ cars \in [Cars -> CarStates \cup {None}]
        /\ link \in [Projects -> [Cars -> Links \cup {None}]]
        /\ told \in [Projects -> [Cars -> Reports \cup {None}]]
      BY SMT DEF Init
  <2>2. project \in [Projects -> [rev : 1 .. MaxChanges + 1, base : 0 .. MaxChanges + 1,
                                   done : BOOLEAN]]
      BY ListingAssumption, SMT DEF Init
  <2> QED  BY <1>2, <1>5, <1>6, <1>7, <2>1, <2>2, SMT DEF TypeInv, TypeOK
<1>9. TaskInv /\ SoldInv /\ BaseInv
    BY <1>2, <1>7 DEF TaskInv, SoldInv, SoldWasRead, BaseInv, OfProject
<1>10. SearchInv
  <2>1. \A p \in Projects : Results(market, project[p].rev) = Cars
      BY <1>4, <1>7, SMT DEF Results, Matches
  <2> QED  BY <1>2, <2>1 DEF SearchInv, Kept, OfProject
<1>11. PriceInv
    BY <1>6 DEF PriceInv
<1>12. ToldInv /\ ListedIsNeverMissing
    BY <1>7 DEF ToldInv, ListedIsNeverMissing
<1>13. ReportInv
    BY <1>2 DEF ReportInv, ItemInv, FreshInv, OfProject
<1> QED  BY <1>13, <1>8, <1>9, <1>10, <1>11, <1>12 DEF ObsInv

LEMMA Stutter == ObsInv /\ UNCHANGED vars => ObsInv'
<1> SUFFICES ASSUME ObsInv, UNCHANGED vars PROVE ObsInv'
    OBVIOUS
<1>1. /\ market' = market /\ cars' = cars /\ link' = link /\ project' = project
      /\ scan' = scan /\ told' = told /\ past' = past
    BY DEF vars
<1>2. TypeInv' /\ TaskInv' /\ SoldInv'
    BY <1>1, Zenon DEF ObsInv, TypeInv, TypeOK, TaskInv, Current, SoldInv, SoldWasRead, OfProject
<1>3. SearchInv' /\ BaseInv' /\ PriceInv'
    BY <1>1, Zenon
      DEF ObsInv, SearchInv, Kept, Followed, Results, Position, BaseInv, PriceInv, OfProject
<1>4. ToldInv' /\ ListedIsNeverMissing'
    BY <1>1, Zenon DEF ObsInv, ToldInv, Remembered, Publishing, ListedIsNeverMissing
<1>5. ReportInv'
    BY <1>1, ReportKept DEF ObsInv
<1> QED  BY <1>2, <1>3, <1>4, <1>5 DEF ObsInv

----------------------------------------------------------------------------
(* Encar and the API *)

LEMMA EncarChangesStep == ObsInv /\ EncarChanges => ObsInv'
<1> SUFFICES ASSUME ObsInv, EncarChanges PROVE ObsInv'
    OBVIOUS
<1>0. TypeInv /\ TaskInv /\ SoldInv /\ SearchInv /\ BaseInv /\ PriceInv /\ ToldInv /\ ListedIsNeverMissing /\ ReportInv
    BY DEF ObsInv
<1> DEFINE Rows == [listed : BOOLEAN, page : {"live", "sold"}, price : Prices, spec : Specs]
<1> DEFINE Change(c, listing) ==
        /\ market' = [market EXCEPT ![c] = listing]
        /\ past' = [past EXCEPT !.changes = @ + 1, !.real[c] = @ \cup {listing.price},
                        !.out = [p \in Projects |->
                            @[p] \cup Outside([market EXCEPT ![c] = listing], project[p].rev, p)]]
<1>a. PICK c \in Cars : \E listing \in Edited(market[c]) : Change(c, listing)
    BY Zenon DEF EncarChanges
<1>1. PICK listing \in Edited(market[c]) : Change(c, listing)
    BY <1>a
<1>2. /\ past.changes < MaxChanges
      /\ cars' = cars /\ link' = link /\ project' = project /\ scan' = scan /\ told' = told
    BY DEF EncarChanges
<1>3. listing \in Rows
  <2>1. market[c] \in Rows
      BY <1>0 DEF TypeInv, TypeOK
  <2> DEFINE m == market[c]
  <2> HIDE DEF m
  <2>2. CASE listing = [m EXCEPT !.listed = ~@]
      BY <2>1, <2>2, Zenon DEF m
  <2>3. CASE listing = [m EXCEPT !.page = IF @ = "live" THEN "sold" ELSE "live"]
      BY <2>1, <2>3, SMT DEF m
  <2>4. ASSUME NEW x \in Prices, listing = [m EXCEPT !.price = x] PROVE listing \in Rows
      BY <2>1, <2>4, SMT DEF m
  <2>5. ASSUME NEW x \in Specs, listing = [m EXCEPT !.spec = x] PROVE listing \in Rows
      BY <2>1, <2>5, SMT DEF m
  <2> QED  BY <1>1, <2>2, <2>3, <2>4, <2>5, Zenon DEF Edited, m
<1>4. /\ market \in [Cars -> Rows] /\ market' \in [Cars -> Rows]
      /\ market'[c] = listing /\ \A d \in Cars \ {c} : market'[d] = market[d]
    BY <1>0, <1>1, <1>3, SMT DEF TypeInv, TypeOK
<1> DEFINE Out(p) == Outside(market', project[p].rev, p)
<1>5. /\ past' \in Pasts /\ past'.changes = past.changes + 1
      /\ past'.real[c] = past.real[c] \cup {listing.price}
      /\ \A d \in Cars \ {c} : past'.real[d] = past.real[d]
      /\ \A p \in Projects : past'.out[p] = past.out[p] \cup Out(p)
      /\ past'.sold = past.sold /\ past'.full = past.full /\ past'.lost = past.lost
      /\ past'.gone = past.gone /\ past'.quiet = past.quiet
  <2>1. \A p \in Projects : Out(p) \in SUBSET Cars
      BY SMT DEF Outside
  <2>2. past \in Pasts
      BY <1>0 DEF TypeInv
  <2> DEFINE changes == past.changes + 1
             real == [past.real EXCEPT ![c] = @ \cup {listing.price}]
             out == [p \in Projects |-> past.out[p] \cup Out(p)]
  <2>3. past' = [past EXCEPT !.changes = changes, !.real = real, !.out = out]
      BY <1>1, Zenon
  <2> HIDE DEF Out
  <2>4. listing.price \in Prices
      BY <1>3
  <2>5. /\ changes \in 0 .. MaxChanges /\ real \in [Cars -> SUBSET Prices]
        /\ out \in [Projects -> SUBSET Cars]
      BY <1>2, <2>1, <2>2, <2>4, PastFields, ListingAssumption, SMT
  <2>6. /\ real[c] = past.real[c] \cup {listing.price}
        /\ \A d \in Cars \ {c} : real[d] = past.real[d]
        /\ \A p \in Projects : out[p] = past.out[p] \cup Out(p)
      BY <2>2, PastFields, SMT
  <2> HIDE DEF changes, real, out
  <2>7. past' \in Pasts
      BY <2>2, <2>3, <2>5, Zenon DEF Pasts
  <2>8. /\ past'.changes = changes /\ past'.real = real /\ past'.out = out
        /\ past'.sold = past.sold /\ past'.full = past.full /\ past'.lost = past.lost
        /\ past'.gone = past.gone /\ past'.quiet = past.quiet
      BY <2>2, <2>3, SMT DEF Pasts
  <2> QED  BY <2>6, <2>7, <2>8, Zenon DEF changes
<1>6. TypeInv'
  <2>1. TypeOK'
      BY <1>0, <1>2, <1>4, Zenon DEF TypeInv, TypeOK
  <2>2. \A p \in Projects : project'[p].rev =< past'.changes + 1
      BY <1>0, <1>2, <1>5, RowTypes, PastFields, SMT DEF TypeInv, TypeOK
  <2> QED  BY <1>0, <1>2, <1>5, <2>1, <2>2, Zenon DEF TypeInv
<1>7. TaskInv' /\ SoldInv' /\ BaseInv'
    BY <1>0, <1>2, <1>5, Zenon DEF TaskInv, Current, SoldInv, SoldWasRead, BaseInv, OfProject
<1>8. SearchInv'
  <2>1. ASSUME NEW p \in Projects
        PROVE  /\ Kept(p)' \subseteq Kept(p) \ Out(p)
               /\ Kept(p)' \subseteq Results(market', project[p].rev)
      BY <1>5, SMT DEF Kept, Outside
  <2>2. \A p \in Projects : Followed(p)' \subseteq Followed(p)
      BY <1>2, <1>5, <2>1, SMT DEF Followed
  <2>3. ASSUME OfProject, scan.phase = "pages" PROVE Kept(scan.project)' = {}
    <3>1. scan.project \in Projects /\ scan # None
        BY <2>3, Shapes DEF OfProject
    <3>2. Out(scan.project) = Cars
        BY <2>3, <3>1 DEF Outside, Enumerating
    <3> QED  BY <1>2, <2>1, <3>1, <3>2 DEF Kept
  <2> QED  BY <1>0, <1>2, <2>1, <2>2, <2>3, Shapes, SMT DEF SearchInv, OfProject
<1>9. PriceInv'
    BY <1>0, <1>4, <1>5, SMT DEF PriceInv
<1>10. ToldInv'
    BY <1>0, <1>2, <1>5, Zenon DEF ToldInv, Remembered, Publishing
<1>11. ListedIsNeverMissing'
    BY <1>0, <1>2, <1>5, SMT DEF ListedIsNeverMissing
<1>12. ReportInv'
    BY <1>0, <1>2, ReportKept
<1> QED  BY <1>12, <1>6, <1>7, <1>8, <1>9, <1>10, <1>11 DEF ObsInv

LEMMA RemoveCarStep ==
    ASSUME NEW p \in Projects, NEW c \in Cars, ObsInv, RemoveCarFromProject(p, c)
    PROVE  ObsInv'
<1>0. TypeInv /\ TaskInv /\ SoldInv /\ SearchInv /\ BaseInv /\ PriceInv /\ ToldInv /\ ListedIsNeverMissing /\ ReportInv
    BY DEF ObsInv
<1>1. /\ past.changes < MaxChanges /\ link[p][c] # None
      /\ market' = market /\ cars' = cars /\ project' = project /\ scan' = scan /\ told' = told
      /\ past' = [past EXCEPT !.changes = @ + 1]
      /\ link' = [link EXCEPT ![p][c] = [@ EXCEPT !.tracked = FALSE, !.search = "REMOVED_FROM_PROJECT"]]
    BY DEF RemoveCarFromProject
<1>2. /\ past \in Pasts /\ past' \in Pasts /\ past'.changes = past.changes + 1
      /\ past'.real = past.real /\ past'.out = past.out
      /\ past'.sold = past.sold /\ past'.full = past.full /\ past'.lost = past.lost
      /\ past'.gone = past.gone /\ past'.quiet = past.quiet
    BY <1>0, <1>1, ListingAssumption, SMT DEF TypeInv, Pasts
<1>3. /\ link' \in [Projects -> [Cars -> Links \cup {None}]]
      /\ \A q \in Projects, d \in Cars :
            IF q = p /\ d = c
            THEN /\ link'[q][d] # None /\ link'[q][d].seen = link[q][d].seen
                 /\ ~link'[q][d].tracked /\ link'[q][d].search = "REMOVED_FROM_PROJECT"
            ELSE link'[q][d] = link[q][d]
  <2> DEFINE new == [link[p][c] EXCEPT !.tracked = FALSE, !.search = "REMOVED_FROM_PROJECT"]
  <2>1. link[p][c] \in Links
      BY <1>0, <1>1, RowTypes
  <2>2. /\ new \in Links /\ new.seen = link[p][c].seen /\ ~new.tracked
        /\ new.search = "REMOVED_FROM_PROJECT" /\ new # None
    <3>1. "REMOVED_FROM_PROJECT" \in SearchStates
        BY DEF SearchStates
    <3>2. new \in Links
        BY <2>1, <3>1, Zenon DEF Links
    <3>3. new.seen = link[p][c].seen /\ new.tracked = FALSE /\ new.search = "REMOVED_FROM_PROJECT"
        BY <2>1, SMT DEF Links
    <3> QED  BY <3>2, <3>3, ListingAssumption, Zenon
  <2>3. link' = [link EXCEPT ![p] = [link[p] EXCEPT ![c] = new]]
      BY <1>1, Zenon
  <2> HIDE DEF new
  <2>4. link \in [Projects -> [Cars -> Links \cup {None}]]
      BY <1>0 DEF TypeInv, TypeOK
  <2> QED  BY <2>2, <2>3, <2>4, SMT
<1>4. TypeInv'
  <2>1. TypeOK'
    <3>1. \A q \in Projects, d \in Cars : link'[q][d] # None => cars[d] # None
        BY <1>0, <1>1, <1>3, SMT DEF TypeInv, TypeOK
    <3> QED  BY <1>0, <1>1, <1>3, <3>1, Zenon DEF TypeInv, TypeOK
  <2>2. \A q \in Projects : project'[q].rev =< past'.changes + 1
      BY <1>0, <1>1, <1>2, RowTypes, PastFields, SMT DEF TypeInv, TypeOK
  <2> QED  BY <1>0, <1>1, <1>2, <2>1, <2>2, Zenon DEF TypeInv
<1>5. TaskInv'
  <2>1. \A q \in Projects, t \in Tasks : Current(t, q) => Current(t, q)'
    <3> SUFFICES ASSUME NEW q \in Projects, NEW t \in Tasks, Current(t, q) PROVE Current(t, q)'
        OBVIOUS
    <3>1. t.car \in Cars
        BY TaskFields
    <3>2. link[q][t.car] = None <=> link'[q][t.car] = None
        BY <1>1, <1>3, <3>1
    <3>3. link'[q][t.car] # None => link'[q][t.car].seen = link[q][t.car].seen
        BY <1>1, <1>3, <3>1
    <3> QED  BY <1>1, <3>2, <3>3, Zenon DEF Current
  <2>2. \A q \in Projects, d \in Cars :
            /\ link'[q][d] = None <=> link[q][d] = None
            /\ link[q][d] # None => link'[q][d].seen = link[q][d].seen
      BY <1>1, <1>3
  <2>3. OfProject => scan.project \in Projects /\ \A t \in scan.tasks : t \in Tasks /\ t.car \in Cars
      BY Shapes, TaskFields, Zenon DEF OfProject
  <2>4. scan \in CarScans =>
            scan.project \in Projects /\ scan.task \in Tasks /\ scan.task.car \in Cars
      BY Shapes, TaskFields, Zenon
  <2>5. ASSUME OfProject PROVE TaskInv'
    <3>1. scan' \notin CarScans
        BY <1>1, <2>5, Shapes DEF OfProject
    <3>2. ASSUME NEW t \in scan.tasks
          PROVE  /\ Current(t, scan.project)'
                 /\ t.car \notin scan.rows
                 /\ IF t.found THEN cars[t.car] = None \/ t.car \in scan.found
                    ELSE link'[scan.project][t.car] # None
      <4>1. Current(t, scan.project) /\ t \in Tasks /\ t.car \in Cars /\ scan.project \in Projects
          BY <1>0, <2>3, <2>5 DEF TaskInv
      <4>2. Current(t, scan.project)'
          BY <1>1, <2>1, <4>1, Zenon
      <4> QED  BY <1>0, <2>2, <2>5, <4>1, <4>2, Zenon DEF TaskInv
    <3> QED  BY <1>0, <1>1, <2>5, <3>1, <3>2, Zenon DEF TaskInv, OfProject
  <2>6. ASSUME scan \in CarScans PROVE TaskInv'
    <3>1. ~OfProject'
        BY <1>1, <2>6, Shapes DEF OfProject
    <3>2. scan.phase = "car" => Current(scan.task, scan.project)'
        BY <1>0, <1>1, <2>1, <2>4, <2>6, Zenon DEF TaskInv
    <3>3. /\ link[scan.project][scan.task.car] # None /\ scan.task.previous # None
          /\ scan.phase = "publish" => link[scan.project][scan.task.car].seen = cars[scan.task.car]
        BY <1>0, <2>6, Zenon DEF TaskInv
    <3>4. /\ link'[scan.project][scan.task.car] # None
          /\ scan.phase = "publish" => link'[scan.project][scan.task.car].seen = cars[scan.task.car]
        BY <2>2, <2>4, <2>6, <3>3
    <3> QED  BY <1>1, <3>1, <3>2, <3>3, <3>4, Zenon DEF TaskInv
  <2>7. scan \notin ProjectScans \cup CarScans => TaskInv'
      BY <1>1, Zenon DEF TaskInv, OfProject
  <2> QED  BY <2>5, <2>6, <2>7 DEF OfProject
<1>6. SoldInv' /\ BaseInv' /\ PriceInv'
    BY <1>0, <1>1, <1>2, Zenon DEF SoldInv, SoldWasRead, BaseInv, PriceInv, OfProject
<1>7. SearchInv'
  <2>1. \A q \in Projects : Kept(q)' = Kept(q) /\ Followed(q)' \subseteq Followed(q)
      BY <1>2, <1>3, SMT DEF Kept, Followed
  <2>2. /\ \A rev : Results(market', rev) = Results(market, rev)
        /\ \A d, rev : Position(d, rev)' = Position(d, rev)
      BY <1>1, Zenon DEF Position
  <2> QED  BY <1>0, <1>1, <2>1, <2>2, Shapes, SMT DEF SearchInv, OfProject
<1>8. ToldInv'
  <2>1. \A q \in Projects, d \in Cars :
            link'[q][d] # None => link[q][d] # None /\ Remembered(q, d)' = Remembered(q, d)
      BY <1>1, <1>3, SMT DEF Remembered, Publishing
  <2> QED  BY <1>0, <1>1, <1>2, <2>1, Zenon DEF ToldInv
<1>9. ListedIsNeverMissing'
    BY <1>0, <1>2, <1>3, SMT DEF ListedIsNeverMissing
<1>10. ReportInv'
    BY <1>0, <1>1, ReportKept
<1> QED  BY <1>10, <1>4, <1>5, <1>6, <1>7, <1>8, <1>9 DEF ObsInv

LEMMA UpdateConditionsStep ==
    ASSUME NEW p \in Projects, ObsInv, UpdateSearchConditions(p)
    PROVE  ObsInv'
<1>0. TypeInv /\ TaskInv /\ SoldInv /\ SearchInv /\ BaseInv /\ PriceInv /\ ToldInv /\ ListedIsNeverMissing /\ ReportInv
    BY DEF ObsInv
<1> DEFINE gone == Cars \ Results(market, project[p].rev + 1)
<1>1. /\ past.changes < MaxChanges
      /\ market' = market /\ cars' = cars /\ link' = link /\ scan' = scan /\ told' = told
      /\ project' = [project EXCEPT ![p].rev = @ + 1]
      /\ past' = [past EXCEPT !.changes = @ + 1, !.out[p] = @ \cup gone]
    BY DEF UpdateSearchConditions
<1>2. /\ past' \in Pasts /\ past'.changes = past.changes + 1
      /\ past'.real = past.real
      /\ \A q \in Projects : past'.out[q] = IF q = p THEN past.out[q] \cup gone ELSE past.out[q]
      /\ past'.sold = past.sold /\ past'.full = past.full /\ past'.lost = past.lost
      /\ past'.gone = past.gone /\ past'.quiet = past.quiet
  <2>1. past \in Pasts /\ gone \in SUBSET Cars
      BY <1>0 DEF TypeInv
  <2> HIDE DEF gone
  <2> DEFINE out == [past.out EXCEPT ![p] = @ \cup gone]
  <2>2. past' = [past EXCEPT !.changes = past.changes + 1, !.real = past.real, !.out = out]
      BY <1>1, <2>1, Zenon DEF Pasts
  <2>3. past.changes + 1 \in 0 .. MaxChanges /\ out \in [Projects -> SUBSET Cars]
      BY <1>1, <2>1, PastFields, ListingAssumption, SMT
  <2>4. \A q \in Projects : out[q] = IF q = p THEN past.out[q] \cup gone ELSE past.out[q]
    <3>1. past.out \in [Projects -> SUBSET Cars]
        BY <2>1, PastFields
    <3> QED  BY <3>1, Zenon
  <2> HIDE DEF out
  <2>5. past' \in Pasts
      BY <2>1, <2>2, <2>3, PastFields, Zenon DEF Pasts
  <2>6. /\ past'.changes = past.changes + 1 /\ past'.real = past.real /\ past'.out = out
        /\ past'.sold = past.sold /\ past'.full = past.full /\ past'.lost = past.lost
        /\ past'.gone = past.gone /\ past'.quiet = past.quiet
      BY <2>1, <2>2, SMT DEF Pasts
  <2> QED  BY <2>4, <2>5, <2>6, Zenon
<1>3. /\ project' \in [Projects -> [rev : 1 .. MaxChanges + 1, base : 0 .. MaxChanges + 1,
                                     done : BOOLEAN]]
      /\ \A q \in Projects :
            /\ project'[q].base = project[q].base
            /\ project'[q].rev = IF q = p THEN project[q].rev + 1 ELSE project[q].rev
  <2>1. /\ project[p].rev =< past.changes + 1 /\ past.changes \in 0 .. MaxChanges
        /\ project \in [Projects -> [rev : 1 .. MaxChanges + 1, base : 0 .. MaxChanges + 1,
                                      done : BOOLEAN]]
      BY <1>0, PastFields DEF TypeInv, TypeOK
  <2> QED  BY <1>1, <2>1, ListingAssumption, SMT
<1>4. TypeInv'
  <2>1. \A q \in Projects : project'[q].rev =< past'.changes + 1
    <3> SUFFICES ASSUME NEW q \in Projects PROVE project'[q].rev =< past'.changes + 1
        OBVIOUS
    <3>1. project[q].rev \in Nat /\ project[q].rev =< past.changes + 1 /\ past.changes \in Nat
        BY <1>0, PastFields, SMT DEF TypeInv, TypeOK
    <3> QED  BY <1>2, <1>3, <3>1, SMT
  <2>2. TypeOK'
      BY <1>0, <1>1, <1>3, Zenon DEF TypeInv, TypeOK
  <2> QED  BY <1>0, <1>1, <1>2, <2>1, <2>2, Zenon DEF TypeInv
<1>5. TaskInv' /\ SoldInv' /\ PriceInv' /\ ToldInv'
  <2>1. TaskInv'
      BY <1>0, <1>1, Zenon DEF TaskInv, Current, OfProject
  <2>2. SoldInv' /\ PriceInv'
      BY <1>0, <1>1, <1>2, Zenon DEF SoldInv, SoldWasRead, PriceInv, OfProject
  <2>3. ToldInv'
      BY <1>0, <1>1, <1>2, Zenon DEF ToldInv, Remembered, Publishing
  <2> QED  BY <2>1, <2>2, <2>3
<1>6. BaseInv'
    BY <1>0, <1>1, <1>2, <1>3, SMT DEF BaseInv, OfProject
<1>7. SearchInv'
  <2>1. \A q \in Projects : Kept(q)' \subseteq Kept(q) /\ Followed(q)' \subseteq Followed(q)
      BY <1>1, <1>2, SMT DEF Kept, Followed
  <2>2. \A q \in Projects : Kept(q)' \subseteq Results(market', project'[q].rev)
    <3>1. Kept(p)' \subseteq Results(market, project[p].rev + 1)
        BY <1>2, Zenon DEF Kept
    <3> QED  BY <1>0, <1>1, <1>3, <2>1, <3>1, SMT DEF SearchInv
  <2>3. \A d, rev : Position(d, rev)' = Position(d, rev)
      BY <1>1, Zenon DEF Position
  <2> QED  BY <1>0, <1>1, <2>1, <2>2, <2>3, Shapes, SMT DEF SearchInv, OfProject
<1>8. ListedIsNeverMissing'
    BY <1>0, <1>1, <1>2, SMT DEF ListedIsNeverMissing
<1>9. ReportInv'
    BY <1>0, <1>1, ReportKept
<1> QED  BY <1>9, <1>4, <1>5, <1>6, <1>7, <1>8 DEF ObsInv

----------------------------------------------------------------------------
(* The worker becomes idle or starts *)

\* An idle worker has no tasks.
LEMMA Idle ==
    ASSUME scan' = None
    PROVE  ~OfProject' /\ scan' \notin CarScans /\ TaskInv' /\ (SoldWasRead' => SoldInv')
<1>1. scan' \notin ProjectScans /\ scan' \notin CarScans
    BY ListingAssumption
<1> QED  BY <1>1 DEF OfProject, TaskInv, SoldInv

LEMMA FailStep == ObsInv /\ (FailProject \/ FailCar) => ObsInv'
<1> SUFFICES ASSUME ObsInv, FailProject \/ FailCar PROVE ObsInv'
    OBVIOUS
<1>0. TypeInv /\ TaskInv /\ SoldInv /\ SearchInv /\ BaseInv /\ PriceInv /\ ToldInv /\ ListedIsNeverMissing /\ ReportInv
    BY DEF ObsInv
<1>1. /\ scan # None /\ scan.phase # "publish" /\ scan' = None
      /\ market' = market /\ cars' = cars /\ link' = link /\ project' = project
      /\ told' = told /\ past' = past
    BY DEF FailProject, FailCar
<1>2. ~OfProject' /\ scan' \notin CarScans /\ TaskInv' /\ (SoldWasRead' => SoldInv')
    BY <1>1, Idle
<1>3. TypeInv'
    BY <1>0, <1>1, Zenon DEF TypeInv, TypeOK
<1>4. SoldInv' /\ PriceInv' /\ BaseInv' /\ ListedIsNeverMissing'
    BY <1>0, <1>1, <1>2, Zenon DEF SoldInv, SoldWasRead, PriceInv, BaseInv, ListedIsNeverMissing
<1>5. SearchInv'
    BY <1>0, <1>1, <1>2, Zenon DEF SearchInv, Kept
<1>6. ToldInv'
    BY <1>0, <1>1, Zenon DEF ToldInv, Remembered, Publishing
<1>7. ReportInv'
    BY <1>0, <1>2, ReportKept
<1> QED  BY <1>7, <1>2, <1>3, <1>4, <1>5, <1>6 DEF ObsInv

LEMMA CrashStep == ObsInv /\ Crash => ObsInv'
<1> SUFFICES ASSUME ObsInv, Crash PROVE ObsInv'
    OBVIOUS
<1>0. TypeInv /\ TaskInv /\ SoldInv /\ SearchInv /\ BaseInv /\ PriceInv /\ ToldInv /\ ListedIsNeverMissing /\ ReportInv
    BY DEF ObsInv
<1>1. /\ scan # None /\ scan' = None
      /\ market' = market /\ cars' = cars /\ link' = link /\ project' = project /\ told' = told
      /\ past' = IF scan.phase = "publish"
                 THEN [past EXCEPT !.lost = @ \cup {<<scan.project, scan.task.car>>}] ELSE past
    BY DEF Crash
<1>2. ~OfProject' /\ scan' \notin CarScans /\ TaskInv' /\ (SoldWasRead' => SoldInv')
    BY <1>1, Idle
<1>3. /\ past' \in Pasts /\ past'.changes = past.changes
      /\ past'.real = past.real /\ past'.out = past.out
      /\ past'.sold = past.sold /\ past'.full = past.full
      /\ past'.gone = past.gone /\ past'.quiet = past.quiet
      /\ past'.lost = IF scan.phase = "publish"
                      THEN past.lost \cup {<<scan.project, scan.task.car>>} ELSE past.lost
  <2>1. past \in Pasts
      BY <1>0 DEF TypeInv
  <2>2. CASE scan.phase # "publish"
      BY <1>1, <2>1, <2>2
  <2>3. CASE scan.phase = "publish"
    <3> DEFINE lost == past.lost \cup {<<scan.project, scan.task.car>>}
    <3>1. lost \in SUBSET (Projects \X Cars)
      <4>1. scan \in CarScans
          BY <1>0, <1>1, <2>3, ScanTypes
      <4>2. scan.project \in Projects /\ scan.task.car \in Cars
          BY <4>1, Shapes, TaskFields
      <4> QED  BY <2>1, <4>2, PastFields, SMT
    <3>2. past' = [past EXCEPT !.lost = lost]
        BY <1>1, <2>3
    <3> HIDE DEF lost
    <3>3. past' \in Pasts
        BY <2>1, <3>1, <3>2, Zenon DEF Pasts
    <3>4. /\ past'.changes = past.changes /\ past'.real = past.real /\ past'.out = past.out
          /\ past'.sold = past.sold /\ past'.full = past.full
          /\ past'.gone = past.gone /\ past'.quiet = past.quiet /\ past'.lost = lost
        BY <2>1, <3>2, SMT DEF Pasts
    <3> QED  BY <2>3, <3>3, <3>4 DEF lost
  <2> QED  BY <2>2, <2>3
<1>4. TypeInv'
    BY <1>0, <1>1, <1>3, Zenon DEF TypeInv, TypeOK
<1>5. SoldInv' /\ PriceInv' /\ BaseInv' /\ ListedIsNeverMissing'
    BY <1>0, <1>1, <1>2, <1>3, Zenon
      DEF SoldInv, SoldWasRead, PriceInv, BaseInv, ListedIsNeverMissing
<1>6. SearchInv'
    BY <1>0, <1>1, <1>2, <1>3, Zenon DEF SearchInv, Kept
<1>7. ToldInv'
  <2> SUFFICES ASSUME NEW p \in Projects, NEW c \in Cars,
                      link[p][c] # None, <<p, c>> \notin past'.lost
               PROVE  /\ told[p][c] # None
                      /\ <<p, c>> \notin past.gone =>
                            Tells(c, told[p][c], link[p][c].seen, <<p, c>> \in past.quiet)
      BY <1>1, <1>3, Zenon DEF ToldInv, Remembered, Publishing
  <2>1. ~Publishing(p, c) /\ <<p, c>> \notin past.lost
      BY <1>3, Zenon DEF Publishing
  <2> QED  BY <1>0, <2>1, Zenon DEF ToldInv, Remembered
<1>8. ReportInv'
    BY <1>0, <1>2, ReportKept
<1> QED  BY <1>8, <1>2, <1>4, <1>5, <1>6, <1>7 DEF ObsInv

LEMMA FinishProjectStep == ObsInv /\ FinishProject => ObsInv'
<1> SUFFICES ASSUME ObsInv, FinishProject PROVE ObsInv'
    OBVIOUS
<1>0. TypeInv /\ TaskInv /\ SoldInv /\ SearchInv /\ BaseInv /\ PriceInv /\ ToldInv /\ ListedIsNeverMissing /\ ReportInv
    BY DEF ObsInv
<1> DEFINE p == scan.project
           base == IF scan.all /\ project[p].rev = scan.rev THEN scan.rev ELSE project[p].base
<1>1. /\ scan # None /\ scan.phase = "finish" /\ scan' = None
      /\ market' = market /\ cars' = cars /\ link' = link /\ told' = told
      /\ project' = [project EXCEPT ![p] = [@ EXCEPT !.base = base, !.done = TRUE]]
      /\ past' = IF scan.all THEN [past EXCEPT !.full[p] = @ \cup {scan.rev}] ELSE past
    BY DEF FinishProject
<1>2. ~OfProject' /\ scan' \notin CarScans /\ TaskInv' /\ (SoldWasRead' => SoldInv')
    BY <1>1, Idle
<1>3. OfProject /\ p \in Projects /\ scan.rev \in Nat
    BY <1>0, <1>1, ScanTypes, Shapes DEF OfProject
<1>4. /\ past' \in Pasts /\ past'.changes = past.changes
      /\ past'.real = past.real /\ past'.out = past.out
      /\ past'.sold = past.sold /\ past'.lost = past.lost
      /\ past'.gone = past.gone /\ past'.quiet = past.quiet
      /\ \A q \in Projects : past'.full[q] =
            IF scan.all /\ q = p THEN past.full[q] \cup {scan.rev} ELSE past.full[q]
  <2>1. past \in Pasts
      BY <1>0 DEF TypeInv
  <2>2. CASE ~scan.all
      BY <1>1, <2>1, <2>2
  <2>3. CASE scan.all
    <3> DEFINE full == [past.full EXCEPT ![p] = @ \cup {scan.rev}]
    <3>1. /\ full \in [Projects -> SUBSET Nat]
          /\ \A q \in Projects : full[q] =
                IF q = p THEN past.full[q] \cup {scan.rev} ELSE past.full[q]
      <4>1. past.full \in [Projects -> SUBSET Nat]
          BY <2>1, PastFields
      <4> HIDE DEF p
      <4> QED  BY <1>3, <4>1, SMT
    <3>2. past' = [past EXCEPT !.full = full]
        BY <1>1, <2>3, Zenon
    <3> HIDE DEF full
    <3>3. past' \in Pasts
        BY <2>1, <3>1, <3>2, Zenon DEF Pasts
    <3>4. /\ past'.changes = past.changes /\ past'.real = past.real /\ past'.out = past.out
          /\ past'.sold = past.sold /\ past'.full = full
          /\ past'.gone = past.gone /\ past'.quiet = past.quiet /\ past'.lost = past.lost
        BY <2>1, <3>2, SMT DEF Pasts
    <3> QED  BY <2>3, <3>1, <3>3, <3>4
  <2> QED  BY <2>2, <2>3
<1>5. /\ project' \in [Projects -> [rev : 1 .. MaxChanges + 1, base : 0 .. MaxChanges + 1,
                                     done : BOOLEAN]]
      /\ \A q \in Projects :
            /\ project'[q].rev = project[q].rev
            /\ project'[q].base = IF q = p THEN base ELSE project[q].base
  <2>1. project \in [Projects -> [rev : 1 .. MaxChanges + 1, base : 0 .. MaxChanges + 1,
                                   done : BOOLEAN]]
      BY <1>0 DEF TypeInv, TypeOK
  <2> DEFINE new == [project[p] EXCEPT !.base = base, !.done = TRUE]
  <2>2. project' = [project EXCEPT ![p] = new]
      BY <1>1
  <2>3. base \in 0 .. MaxChanges + 1
      BY <1>3, <2>1, ListingAssumption, SMT
  <2> HIDE DEF base
  <2>4. project[p] \in [rev : 1 .. MaxChanges + 1, base : 0 .. MaxChanges + 1, done : BOOLEAN]
      BY <1>3, <2>1
  <2>5. new \in [rev : 1 .. MaxChanges + 1, base : 0 .. MaxChanges + 1, done : BOOLEAN]
      BY <2>3, <2>4, Zenon
  <2>6. new.rev = project[p].rev /\ new.base = base
      BY <2>4, SMT
  <2> HIDE DEF new, p
  <2> QED  BY <1>3, <2>1, <2>2, <2>5, <2>6, SMT
<1>6. TypeInv'
    BY <1>0, <1>1, <1>4, <1>5, Zenon DEF TypeInv, TypeOK
<1>7. SoldInv' /\ PriceInv' /\ ListedIsNeverMissing'
    BY <1>0, <1>1, <1>2, <1>4, Zenon DEF SoldInv, SoldWasRead, PriceInv, ListedIsNeverMissing
<1>8. SearchInv'
    BY <1>0, <1>1, <1>2, <1>4, <1>5, Zenon DEF SearchInv, Kept
<1>9. BaseInv'
  <2>1. \A q \in Projects : project[q].base \in past.full[q] \cup {0}
      BY <1>0 DEF BaseInv
  <2>2. base \in past'.full[p] \cup {0}
    <3>1. (base = scan.rev /\ scan.all) \/ base = project[p].base
        OBVIOUS
    <3> QED  BY <1>3, <1>4, <2>1, <3>1, Zenon
  <2>3. \A q \in Projects \ {p} : project'[q].base \in past'.full[q] \cup {0}
      BY <1>4, <1>5, <2>1, Zenon
  <2> QED  BY <1>2, <1>3, <1>5, <2>2, <2>3, Zenon DEF BaseInv
<1>10. ToldInv'
    BY <1>0, <1>1, <1>4, Zenon DEF ToldInv, Remembered, Publishing
<1>11. ReportInv'
    BY <1>0, <1>2, ReportKept
<1> QED  BY <1>11, <1>2, <1>6, <1>7, <1>8, <1>9, <1>10 DEF ObsInv

LEMMA StartProjectStep ==
    ASSUME NEW p \in Projects, ObsInv, StartProject(p)
    PROVE  ObsInv'
<1>0. TypeInv /\ TaskInv /\ SoldInv /\ SearchInv /\ BaseInv /\ PriceInv /\ ToldInv /\ ListedIsNeverMissing /\ ReportInv
    BY DEF ObsInv
<1>1. PICK mode \in {"FAST", "ACCURATE"}, all \in BOOLEAN :
        scan' = [phase |-> "pages", project |-> p,
                 mode |-> ProjectScanModes(p, mode, all).mode,
                 all |-> ProjectScanModes(p, mode, all).all,
                 rev |-> project[p].rev, baseline |-> project[p].rev # project[p].base,
                 page |-> 1, fingerprints |-> {}, rows |-> {},
                 found |-> {}, tasks |-> {}, sold |-> {}, reported |-> {}]
    BY Zenon DEF StartProject
<1>2. /\ scan = None
      /\ market' = market /\ cars' = cars /\ link' = link /\ project' = project /\ told' = told
      /\ past' = [past EXCEPT !.scans = @ + 1]
    BY DEF StartProject
<1>3. /\ past' \in Pasts /\ past'.changes = past.changes
      /\ past'.real = past.real /\ past'.out = past.out /\ past'.full = past.full
      /\ past'.sold = past.sold /\ past'.lost = past.lost
      /\ past'.gone = past.gone /\ past'.quiet = past.quiet
  <2>1. past \in Pasts
      BY <1>0 DEF TypeInv
  <2> QED  BY <1>2, <2>1, SMT DEF Pasts
<1>4. /\ scan' \in ProjectScans /\ scan'.phase = "pages" /\ scan'.project = p
      /\ scan'.rev = project[p].rev /\ scan'.page = 1 /\ scan'.tasks = {} /\ scan'.found = {}
      /\ scan'.sold = {} /\ scan'.reported = {} /\ scan'.baseline = (project[p].rev # project[p].base)
  <2> DEFINE modes == ProjectScanModes(p, mode, all)
  <2>1. modes.mode \in {"FAST", "ACCURATE"} /\ modes.all \in BOOLEAN
    <3>1. modes \in {[mode |-> "ACCURATE", all |-> TRUE], [mode |-> mode, all |-> all]}
        BY Zenon DEF ProjectScanModes
    <3> HIDE DEF modes
    <3>2. modes.mode \in {"ACCURATE", mode} /\ modes.all \in {TRUE, all}
      <4>1. CASE modes = [mode |-> "ACCURATE", all |-> TRUE]
          BY <4>1, SMT
      <4>2. CASE modes = [mode |-> mode, all |-> all]
          BY <4>2, SMT
      <4> QED  BY <3>1, <4>1, <4>2
    <3> QED  BY <3>2, Zenon
  <2>2. project[p].rev \in Nat
      BY <1>0 DEF TypeInv, TypeOK
  <2> HIDE DEF modes
  <2>3. scan' = [phase |-> "pages", project |-> p, mode |-> modes.mode, all |-> modes.all,
                 rev |-> project[p].rev, baseline |-> project[p].rev # project[p].base,
                 page |-> 1, fingerprints |-> {}, rows |-> {},
                 found |-> {}, tasks |-> {}, sold |-> {}, reported |-> {}]
      BY <1>1 DEF modes
  <2>4. scan' \in ProjectScans
      BY <2>1, <2>2, <2>3, SMT DEF ProjectScans
  <2> QED  BY <2>3, <2>4, SMT
<1>5. OfProject' /\ scan' \notin CarScans
    BY <1>4, Shapes DEF OfProject
<1>6. TypeInv'
    BY <1>0, <1>2, <1>3, <1>4, Zenon DEF TypeInv, TypeOK
<1>7. TaskInv'
    BY <1>4, <1>5, Zenon DEF TaskInv
<1>8. SoldInv' /\ PriceInv' /\ ListedIsNeverMissing'
    BY <1>0, <1>2, <1>3, <1>4, Zenon DEF SoldInv, SoldWasRead, PriceInv, ListedIsNeverMissing
<1>9. SearchInv'
  <2>1. Kept(p)' = Kept(p) /\ Kept(p) \subseteq Results(market, project[p].rev)
      BY <1>0, <1>3 DEF SearchInv, Kept
  <2>2. ASSUME NEW c \in Kept(p) PROVE ~(Position(c, scan.rev)' < 0)
    <3>1. c \in Results(market, project[p].rev)
        BY <2>1
    <3>2. Position(c, project[p].rev) \in Nat
        BY <1>0, <3>1, PositionInResults
    <3>3. Position(c, scan.rev)' = Position(c, project[p].rev)
        BY <1>2, <1>4 DEF Position
    <3> QED  BY <3>2, <3>3, SMT
  <2>3. (scan'.page - 1) * PageSize = 0
      BY <1>4, ListingAssumption, SMT
  <2>4. Kept(p) \subseteq Matches(project[p].rev)
      BY <2>1 DEF Results
  <2>5. \A q \in Projects : Kept(q)' \subseteq Results(market', project'[q].rev)
      BY <1>0, <1>2, <1>3, Zenon DEF SearchInv, Kept
  <2>6. /\ Kept(p)' \subseteq Matches(scan'.rev) /\ scan'.page >= 1
        /\ \A c \in Kept(p)' :
              Position(c, scan.rev)' < (scan'.page - 1) * PageSize => c \in scan'.rows
      BY <1>4, <2>1, <2>2, <2>3, <2>4
  <2> QED  BY <1>4, <2>5, <2>6, Zenon DEF SearchInv
<1>10. BaseInv'
  <2>1. project[p].rev \in Nat \ {0}
      BY <1>0, RowTypes DEF TypeInv, TypeOK
  <2>2. \A q \in Projects : project[q].base \in past.full[q] \cup {0}
      BY <1>0 DEF BaseInv
  <2>3. ~scan'.baseline => project[p].rev \in past.full[p]
      BY <1>4, <2>1, <2>2
  <2> QED  BY <1>2, <1>3, <1>4, <2>2, <2>3, Zenon DEF BaseInv
<1>11. ToldInv'
    BY <1>0, <1>2, <1>3, <1>4, SMT DEF ToldInv, Remembered, Publishing
<1>12. ReportInv'
  <2>1. Items(scan'.reported, Keys', told'[scan'.project])
      BY <1>4 DEF Items
  <2> QED  BY <1>4, <2>1, Zenon DEF ReportInv, ItemInv, FreshInv
<1> QED  BY <1>6, <1>7, <1>8, <1>9, <1>10, <1>11, <1>12 DEF ObsInv

----------------------------------------------------------------------------
(* Steps of a scan that write nothing *)

\* The history of a step: more cars may be outside the results.
Widened ==
    /\ past' \in Pasts /\ past'.changes = past.changes /\ past'.real = past.real
    /\ past'.sold = past.sold /\ past'.full = past.full /\ past'.lost = past.lost
    /\ past'.gone = past.gone /\ past'.quiet = past.quiet
    /\ \A p \in Projects : past.out[p] \subseteq past'.out[p]

LEMMA SamePast == TypeInv /\ past' = past => Widened
    BY DEF TypeInv, Widened

\* A step of a scan that leaves the tables alone and keeps what the scan knows
\* of its project has only its tasks and its progress to account for.
LEMMA ScanFrame ==
    ASSUME ObsInv, OfProject, scan' \in ProjectScans,
           scan'.project = scan.project, scan'.rev = scan.rev, scan'.baseline = scan.baseline,
           scan'.sold = scan.sold, scan'.reported = scan.reported,
           Widened, UNCHANGED <<market, cars, link, project, told>>
    PROVE  /\ TypeInv' /\ SoldInv' /\ BaseInv' /\ PriceInv' /\ ToldInv' /\ ListedIsNeverMissing'
           /\ ItemInv'
           /\ OfProject' /\ scan' \notin CarScans
           /\ \A p \in Projects : Kept(p)' \subseteq Kept(p) /\ Followed(p)' \subseteq Followed(p)
           /\ \A c, rev : Position(c, rev)' = Position(c, rev)
           /\ \A t, p : Current(t, p)' = Current(t, p)
<1>0. TypeInv /\ SoldInv /\ BaseInv /\ PriceInv /\ ToldInv /\ ListedIsNeverMissing /\ ReportInv
    BY DEF ObsInv
<1>1. /\ market' = market /\ cars' = cars /\ link' = link /\ project' = project
      /\ told' = told
      /\ past' \in Pasts /\ past'.changes = past.changes /\ past'.real = past.real
      /\ past'.sold = past.sold /\ past'.full = past.full /\ past'.lost = past.lost
      /\ past'.gone = past.gone /\ past'.quiet = past.quiet
      /\ \A p \in Projects : past.out[p] \subseteq past'.out[p]
    BY DEF Widened
<1>2. OfProject' /\ scan' \notin CarScans /\ scan.phase # "publish" /\ scan'.phase # "publish"
    BY Shapes, SMT DEF OfProject
<1>3. TypeInv'
    BY <1>0, <1>1, ZenonT(60) DEF TypeInv, TypeOK
<1>4. SoldInv' /\ BaseInv' /\ PriceInv'
    BY <1>0, <1>1, <1>2, Zenon DEF SoldInv, SoldWasRead, BaseInv, PriceInv
<1>5. ToldInv'
    BY <1>0, <1>1, <1>2, Zenon DEF ToldInv, Remembered, Publishing
<1>6. ListedIsNeverMissing'
    BY <1>0, <1>1 DEF ListedIsNeverMissing
<1>7. ItemInv'
  <2>1. Items(scan.reported, Keys, told[scan.project])
      BY <1>0 DEF ReportInv, ItemInv
  <2>2. Keys' = Keys
      BY <1>1, Zenon DEF Keys
  <2> QED  BY <1>1, <2>1, <2>2, Zenon DEF ItemInv
<1>8. \A p \in Projects : Kept(p)' \subseteq Kept(p) /\ Followed(p)' \subseteq Followed(p)
    BY <1>1 DEF Kept, Followed
<1>9. /\ \A c, rev : Position(c, rev)' = Position(c, rev)
      /\ \A t, p : Current(t, p)' = Current(t, p)
    BY <1>1, Zenon DEF Position, Results, Current
<1> QED  BY <1>2, <1>3, <1>4, <1>5, <1>6, <1>7, <1>8, <1>9

LEMMA CollectSearchPageStep == ObsInv /\ CollectSearchPage => ObsInv'
<1> SUFFICES ASSUME ObsInv, CollectSearchPage PROVE ObsInv'
    OBVIOUS
<1>0. TypeInv /\ TaskInv /\ SearchInv /\ FreshInv
    BY DEF ObsInv, ReportInv
<1>1. PICK answer \in Answers :
        /\ answer.rows \notin scan.fingerprints
        /\ scan' = [scan EXCEPT
             !.fingerprints = @ \cup {answer.rows},
             !.rows = @ \cup answer.rows,
             !.page = @ + 1,
             !.phase = IF ~scan.all \/ ~answer.next THEN "rows" ELSE @]
        /\ past' = Cut(answer)
    BY DEF CollectSearchPage
<1>2. scan # None /\ scan.phase = "pages" /\ UNCHANGED <<market, cars, link, project, told>>
    BY DEF CollectSearchPage, Enumerating
<1>3. OfProject /\ scan \in ProjectScans
    BY <1>0, <1>2, ScanTypes DEF OfProject
<1> DEFINE p == scan.project
           n == scan.page
           rev == scan.rev
           P == Page(n, rev)
           B == Behind(n, rev)
<1>4. /\ p \in Projects /\ n \in Nat /\ n >= 1 /\ rev \in Nat /\ scan.rows \in SUBSET Cars
      /\ scan.fingerprints \in SUBSET SUBSET Cars
    BY <1>0, <1>2, <1>3, Shapes DEF SearchInv
<1>5. answer.rows = P
  <2>0. \/ \E next : answer = [rows |-> P, next |-> next]
        \/ \E rows \in scan.fingerprints, next \in BOOLEAN :
              answer = [rows |-> rows, next |-> next]
      BY SMT DEF Answers
  <2>1. ASSUME NEW next, answer = [rows |-> P, next |-> next]
        PROVE  answer.rows = P
      BY <2>1
  <2>2. ASSUME NEW rows \in scan.fingerprints, NEW next \in BOOLEAN,
               answer = [rows |-> rows, next |-> next]
        PROVE  FALSE
      BY <1>1, <2>2
  <2> QED  BY <2>0, <2>1, <2>2, Zenon
<1>6. P \subseteq Cars /\ B \subseteq Cars
    BY ListingAssumption DEF Page, Behind, Results, Matches
<1> DEFINE phase == IF ~scan.all \/ ~answer.next THEN "rows" ELSE scan.phase
<1>7. /\ scan' \in ProjectScans /\ scan'.phase = phase /\ scan'.page = n + 1
      /\ scan'.rows = scan.rows \cup P
      /\ scan'.project = p /\ scan'.rev = rev /\ scan'.baseline = scan.baseline
      /\ scan'.sold = scan.sold /\ scan'.tasks = scan.tasks /\ scan'.found = scan.found
      /\ scan'.all = scan.all /\ scan'.reported = scan.reported
  <2>1. scan' = [scan EXCEPT !.fingerprints = scan.fingerprints \cup {P},
                    !.rows = scan.rows \cup P, !.page = n + 1, !.phase = phase]
    <3>1. phase = IF ~scan.all \/ ~answer.next THEN "rows" ELSE scan.phase
        OBVIOUS
    <3> HIDE DEF phase, P
    <3> QED  BY <1>1, <1>3, <1>5, <3>1, SMT DEF ProjectScans
  <2>2. phase \in {"pages", "rows"}
      BY <1>2
  <2> HIDE DEF phase, P
  <2>3. /\ scan.fingerprints \cup {P} \in SUBSET SUBSET Cars
        /\ scan.rows \cup P \in SUBSET Cars /\ n + 1 \in Nat
        /\ phase \in {"pages", "rows", "details", "finish"}
      BY <1>4, <1>6, <2>2, SMT
  <2>4. scan' \in ProjectScans
      BY <1>3, <2>1, <2>3, Zenon DEF ProjectScans
  <2> QED  BY <1>3, <2>1, <2>4, SMT DEF ProjectScans
<1>w. Widened /\ (~answer.next => B \subseteq past'.out[p])
  <2>1. past \in Pasts
      BY <1>0 DEF TypeInv
  <2>2. CASE answer.next
    <3>1. past' = past
        BY <1>1, <2>2 DEF Cut
    <3> QED  BY <1>0, <2>2, <3>1, SamePast
  <2>3. CASE ~answer.next
    <3> DEFINE out == [past.out EXCEPT ![p] = @ \cup B]
    <3>1. past' = [past EXCEPT !.out = out]
        BY <1>1, <2>3, Zenon DEF Cut
    <3>2. /\ out \in [Projects -> SUBSET Cars] /\ B \subseteq out[p]
          /\ \A q \in Projects : past.out[q] \subseteq out[q]
      <4>1. past.out \in [Projects -> SUBSET Cars]
          BY <2>1, PastFields
      <4> HIDE DEF B, p
      <4> QED  BY <1>4, <1>6, <4>1
    <3> HIDE DEF out, B
    <3>3. past' \in Pasts
        BY <2>1, <3>1, <3>2, Zenon DEF Pasts
    <3>4. /\ past'.changes = past.changes /\ past'.real = past.real /\ past'.out = out
          /\ past'.sold = past.sold /\ past'.full = past.full /\ past'.lost = past.lost
          /\ past'.gone = past.gone /\ past'.quiet = past.quiet
        BY <2>1, <3>1, SMT DEF Pasts
    <3> QED  BY <3>2, <3>3, <3>4 DEF Widened
  <2> QED  BY <2>2, <2>3
<1>8. TypeInv' /\ SoldInv' /\ BaseInv' /\ PriceInv' /\ ToldInv' /\ ListedIsNeverMissing' /\ ItemInv'
    BY <1>2, <1>3, <1>7, <1>w, ScanFrame
<1>9. /\ OfProject' /\ scan' \notin CarScans
      /\ \A q \in Projects : Kept(q)' \subseteq Kept(q) /\ Followed(q)' \subseteq Followed(q)
      /\ \A c, r : Position(c, r)' = Position(c, r)
    BY <1>2, <1>3, <1>7, <1>w, ScanFrame
<1>10. TaskInv' /\ FreshInv'
  <2>1. scan.tasks = {} /\ scan.found = {} /\ scan.reported = {}
      BY <1>0, <1>2, <1>3 DEF TaskInv, FreshInv
  <2> QED  BY <1>7, <1>9, <2>1, Zenon DEF TaskInv, FreshInv
<1>11. SearchInv'
  <2>1. ASSUME NEW c \in Kept(p)'
        PROVE  /\ c \in Results(market, rev) /\ Position(c, rev) \in Nat
               /\ Position(c, rev) < n * PageSize => c \in scan'.rows
               /\ ~answer.next => c \in scan'.rows
    <3>0. c \in Kept(p) /\ c \notin past'.out[p]
        BY <1>4, <1>7, <1>9 DEF Kept
    <3>1. c \in Results(market, rev)
      <4>1. Kept(p) \subseteq Results(market, project[p].rev) /\ Kept(p) \subseteq Matches(rev)
          BY <1>0, <1>3, <1>4, Zenon DEF SearchInv
      <4> QED  BY <3>0, <4>1 DEF Results
    <3>2. /\ Position(c, rev) \in Nat /\ Cardinality(Results(market, rev)) \in Nat
          /\ Position(c, rev) < Cardinality(Results(market, rev))
        BY <1>0, <3>1, PositionInResults
    <3>3. (n - 1) * PageSize \in Int /\ n * PageSize \in Int
        BY <1>4, ListingAssumption, SMT
    <3>4. Position(c, rev) < (n - 1) * PageSize => c \in scan.rows
        BY <1>0, <1>2, <1>3, <3>0 DEF SearchInv
    <3>5. Position(c, rev) < n * PageSize => c \in scan'.rows
      <4>1. CASE Position(c, rev) < (n - 1) * PageSize
          BY <1>7, <3>4, <4>1
      <4>2. CASE ~(Position(c, rev) < (n - 1) * PageSize)
        <5>1. (n - 1) * PageSize =< Position(c, rev)
            BY <3>2, <3>3, <4>2, SMT
        <5> QED  BY <1>7, <3>1, <5>1, Zenon DEF Page
      <4> QED  BY <4>1, <4>2
    <3>6. ~answer.next => Position(c, rev) < n * PageSize
      <4>1. ~answer.next => ~(Position(c, rev) >= n * PageSize)
          BY <1>w, <3>0, <3>1 DEF Behind
      <4> QED  BY <3>2, <3>3, <4>1, SMT
    <3> QED  BY <3>1, <3>2, <3>5, <3>6
  <2>2. \A q \in Projects : Kept(q)' \subseteq Results(market', project'[q].rev)
      BY <1>0, <1>2, <1>9 DEF SearchInv
  <2>3. Kept(p)' \subseteq Matches(scan'.rev)
    <3>1. Kept(p) \subseteq Matches(rev)
        BY <1>0, <1>3, Zenon DEF SearchInv
    <3>2. Kept(p)' \subseteq Kept(p)
        BY <1>4, <1>7, <1>9
    <3> QED  BY <1>7, <3>1, <3>2
  <2>4. ASSUME scan'.phase = "pages"
        PROVE  /\ scan'.page >= 1
               /\ \A c \in Kept(p)' :
                    Position(c, rev)' < (scan'.page - 1) * PageSize => c \in scan'.rows
    <3>1. scan'.page >= 1 /\ scan'.page - 1 = n
        BY <1>4, <1>7, SMT
    <3>2. ASSUME NEW c \in Kept(p)', Position(c, rev) < (scan'.page - 1) * PageSize
          PROVE  c \in scan'.rows
        BY <2>1, <3>1, <3>2
    <3>3. \A c : Position(c, rev)' = Position(c, rev)
        BY <1>4, <1>7, <1>9
    <3> QED  BY <3>1, <3>2, <3>3
  <2>5. ASSUME scan'.phase = "rows", scan'.all
        PROVE  Followed(p)' \subseteq scan'.found \cup scan'.rows
    <3>1. ~answer.next
        BY <1>2, <1>7, <2>5
    <3>2. Followed(p)' \subseteq Kept(p)'
        BY DEF Followed
    <3> QED  BY <2>1, <3>1, <3>2
  <2>6. scan'.phase # "details"
      BY <1>2, <1>7
  <2> QED  BY <1>7, <2>2, <2>3, <2>4, <2>5, <2>6, Zenon DEF SearchInv
<1> QED  BY <1>8, <1>10, <1>11 DEF ObsInv, ReportInv

\* A new task is current.
LEMMA NewTask ==
    ASSUME TypeInv, NEW p \in Projects, NEW c \in Cars, NEW kind \in {"FULL", "PRICE_STATUS"},
           NEW found \in BOOLEAN
    PROVE  LET task == Task(p, c, kind, found)
           IN  task \in Tasks /\ task.car = c /\ task.found = found /\ Current(task, p)
<1> DEFINE task == Task(p, c, kind, found)
           known == IF cars[c] = None THEN 0 ELSE cars[c].price
           tracked == link[p][c] = None \/ link[p][c].tracked
           previous == PreviousState(link[p][c])
<1>1. known \in Prices \cup {0}
    BY RowTypes, SMT DEF CarStates
<1>2. tracked \in BOOLEAN
    BY RowTypes, SMT DEF Links
<1>3. /\ previous \in PreviousStates \cup {None}
      /\ link[p][c] = None => previous = None
      /\ link[p][c] # None => previous # None /\ previous.seen = link[p][c].seen
  <2>1. CASE link[p][c] = None
      BY <2>1 DEF PreviousState
  <2>2. CASE link[p][c] # None
    <3>1. previous = [seen |-> link[p][c].seen, search |-> link[p][c].search]
        BY <2>2 DEF PreviousState
    <3>2. link[p][c].seen \in CarStates /\ link[p][c].search \in SearchStates
        BY <2>2, RowTypes, SMT DEF Links
    <3>3. previous \in PreviousStates /\ previous.seen = link[p][c].seen
        BY <3>1, <3>2, SMT DEF PreviousStates
    <3> QED  BY <2>2, <3>3, ListingAssumption
  <2> QED  BY <2>1, <2>2
<1>4. task = [car |-> c, kind |-> kind, found |-> found, previous |-> previous,
              known |-> known, tracked |-> tracked]
    BY DEF Task
<1> HIDE DEF task, known, tracked, previous
<1>5. task \in Tasks
    BY <1>1, <1>2, <1>3, <1>4, Zenon DEF Tasks
<1>6. task.car = c /\ task.found = found /\ task.previous = previous /\ task.known = known
    BY <1>4, SMT
<1>7. Current(task, p)
    BY <1>3, <1>6, Zenon DEF Current, known
<1> QED  BY <1>5, <1>6, <1>7 DEF task

LEMMA ProbeMissingStep == ObsInv /\ ProbeMissing => ObsInv'
<1> SUFFICES ASSUME ObsInv, ProbeMissing PROVE ObsInv'
    OBVIOUS
<1>0. TypeInv /\ TaskInv /\ SearchInv /\ FreshInv
    BY DEF ObsInv, ReportInv
<1> DEFINE p == scan.project
           Probe(c) == Task(p, c, "PRICE_STATUS", FALSE)
           probes == {Probe(c) : c \in MissingCars}
<1>1. /\ scan # None /\ scan.phase = "rows" /\ scan.rows = {}
      /\ scan' = [scan EXCEPT !.phase = "details", !.tasks = @ \cup probes]
      /\ UNCHANGED <<market, cars, link, project, told, past>>
    BY DEF ProbeMissing
<1>2. OfProject /\ scan \in ProjectScans /\ p \in Projects /\ scan.tasks \in SUBSET Tasks
    BY <1>0, <1>1, ScanTypes, Shapes DEF OfProject
<1>3. ASSUME NEW c \in MissingCars
      PROVE  c \in Cars /\ c \notin scan.found /\ link[p][c] # None /\ cars[c] # None
  <2>1. c \in Cars /\ c \notin scan.found /\ link[p][c] # None
      BY DEF MissingCars
  <2> QED  BY <1>0, <1>2, <2>1, RowTypes
<1>4. ASSUME NEW c \in MissingCars
      PROVE  /\ Probe(c) \in Tasks /\ Probe(c).car = c /\ Probe(c).found = FALSE
             /\ Current(Probe(c), p)
    BY <1>0, <1>2, <1>3, NewTask
<1> HIDE DEF Probe
<1>5. /\ scan' \in ProjectScans /\ scan'.phase = "details" /\ scan'.tasks = scan.tasks \cup probes
      /\ scan'.project = p /\ scan'.rev = scan.rev /\ scan'.baseline = scan.baseline
      /\ scan'.sold = scan.sold /\ scan'.found = scan.found /\ scan'.rows = {}
      /\ scan'.all = scan.all /\ scan'.reported = scan.reported
  <2>1. probes \in SUBSET Tasks
      BY <1>4
  <2> HIDE DEF probes
  <2>2. scan.tasks \cup probes \in SUBSET Tasks
      BY <1>2, <2>1
  <2>3. scan' \in ProjectScans
      BY <1>1, <1>2, <2>2, Zenon DEF ProjectScans
  <2> QED  BY <1>1, <1>2, <2>3, SMT DEF ProjectScans
<1>6. TypeInv' /\ SoldInv' /\ BaseInv' /\ PriceInv' /\ ToldInv' /\ ListedIsNeverMissing' /\ ItemInv'
    BY <1>0, <1>1, <1>2, <1>5, SamePast, ScanFrame
<1>7. /\ OfProject' /\ scan' \notin CarScans
      /\ \A q \in Projects : Kept(q)' \subseteq Kept(q) /\ Followed(q)' \subseteq Followed(q)
      /\ \A t, q : Current(t, q)' = Current(t, q)
    BY <1>0, <1>1, <1>2, <1>5, SamePast, ScanFrame
<1>8. TaskInv'
  <2>1. ASSUME NEW t \in scan'.tasks
        PROVE  /\ Current(t, p)'
               /\ IF t.found THEN cars[t.car] = None \/ t.car \in scan.found
                  ELSE link[p][t.car] # None
    <3>1. CASE t \in scan.tasks
      <4>1. /\ Current(t, p)
            /\ IF t.found THEN cars[t.car] = None \/ t.car \in scan.found
               ELSE link[p][t.car] # None
          BY <1>0, <1>2, <3>1 DEF TaskInv
      <4> QED  BY <1>5, <1>7, <4>1
    <3>2. CASE t \in probes
      <4>1. PICK c \in MissingCars : t = Probe(c)
          BY <3>2
      <4>2. Current(t, p) /\ t.found = FALSE /\ t.car = c /\ link[p][c] # None
          BY <1>3, <1>4, <4>1
      <4> QED  BY <1>5, <1>7, <4>2
    <3> QED  BY <1>5, <3>1, <3>2
  <2>2. ASSUME NEW s \in scan'.tasks, NEW t \in scan'.tasks, s.car = t.car
        PROVE  s = t
    <3>1. ASSUME NEW u \in scan.tasks, NEW v \in probes PROVE u.car # v.car
      <4>1. PICK c \in MissingCars : v = Probe(c)
          OBVIOUS
      <4>2. v.car = c /\ c \notin scan.found /\ link[p][c] # None /\ cars[c] # None
          BY <1>3, <1>4, <4>1
      <4>3. cars[u.car] = None \/ u.car \in scan.found
          BY <1>0, <1>1, <1>2 DEF TaskInv
      <4> QED  BY <4>2, <4>3
    <3>2. CASE s \in scan.tasks /\ t \in scan.tasks
        BY <1>0, <1>2, <2>2, <3>2 DEF TaskInv
    <3>3. CASE s \in probes /\ t \in probes
        BY <1>4, <2>2, <3>3
    <3> QED  BY <1>5, <2>2, <3>1, <3>2, <3>3
  <2> QED  BY <1>1, <1>5, <1>7, <2>1, <2>2, Zenon DEF TaskInv
<1>9. SearchInv'
  <2>1. \A q \in Projects : Kept(q)' \subseteq Results(market', project'[q].rev)
      BY <1>0, <1>1, <1>7 DEF SearchInv
  <2>2. Kept(p)' \subseteq Matches(scan'.rev)
      BY <1>0, <1>2, <1>5, <1>7, Zenon DEF SearchInv
  <2>3. scan.all => Followed(p) \subseteq scan.found
      BY <1>0, <1>1, <1>2 DEF SearchInv
  <2> QED  BY <1>2, <1>5, <1>7, <2>1, <2>2, <2>3, Zenon DEF SearchInv
<1>10. FreshInv'
  <2>1. scan.reported \subseteq scan.found
      BY <1>0, <1>1, <1>2 DEF FreshInv
  <2>2. ASSUME NEW t \in scan'.tasks PROVE t.car \notin scan.reported
    <3>1. CASE t \in scan.tasks
        BY <1>0, <1>2, <3>1 DEF FreshInv
    <3>2. CASE t \in probes
      <4>1. PICK c \in MissingCars : t = Probe(c)
          BY <3>2
      <4> QED  BY <1>3, <1>4, <2>1, <4>1
    <3> QED  BY <1>5, <3>1, <3>2
  <2> QED  BY <1>5, <2>2, Zenon DEF FreshInv
<1> QED  BY <1>6, <1>8, <1>9, <1>10 DEF ObsInv, ReportInv

----------------------------------------------------------------------------
(* The search absence *)

\* A link goes missing only in a complete scan with a baseline, and only when
\* its car was sold or not found; nothing else about a link changes.
LEMMA AbsenceEffect ==
    ASSUME TypeInv, OfProject, ApplySearchAbsence
    PROVE  /\ link' \in [Projects -> [Cars -> Links \cup {None}]]
           /\ \A q \in Projects, d \in Cars :
                \/ link'[q][d] = link[q][d]
                \/ /\ q = scan.project /\ scan.all /\ ~scan.baseline
                   /\ link[q][d] # None /\ link[q][d].tracked
                   /\ link'[q][d] # None
                   /\ link'[q][d].seen = link[q][d].seen
                   /\ link'[q][d].search = "NOT_FOUND_IN_SEARCH" =>
                        d \in scan.sold \/ d \notin scan.found
<1> DEFINE p == scan.project
           Mark(c) == [link[p][c] EXCEPT !.search = MarkAbsent(c, link[p][c])]
           row == [c \in Cars |-> IF link[p][c] = None \/ ~link[p][c].tracked THEN link[p][c]
                                  ELSE Mark(c)]
<1>1. p \in Projects /\ link \in [Projects -> [Cars -> Links \cup {None}]]
    BY Shapes DEF OfProject, TypeInv, TypeOK
<1>2. link' = IF scan.baseline \/ ~scan.all THEN link ELSE [link EXCEPT ![p] = row]
    BY Zenon DEF ApplySearchAbsence
<1>3. ASSUME NEW c \in Cars, link[p][c] # None
      PROVE  /\ Mark(c) \in Links /\ Mark(c) # None /\ Mark(c).seen = link[p][c].seen
             /\ Mark(c).search = "NOT_FOUND_IN_SEARCH" => c \in scan.sold \/ c \notin scan.found
  <2> DEFINE mark == MarkAbsent(c, link[p][c])
  <2>1. /\ mark \in SearchStates
        /\ mark = "NOT_FOUND_IN_SEARCH" => c \in scan.sold \/ c \notin scan.found
      BY SMT DEF MarkAbsent, ApplyMissing, SearchStates
  <2>2. link[p][c] \in Links
      BY <1>1, <1>3
  <2> HIDE DEF mark
  <2>3. Mark(c) = [link[p][c] EXCEPT !.search = mark]
      BY DEF mark
  <2> HIDE DEF Mark
  <2>4. Mark(c) \in Links
      BY <2>1, <2>2, <2>3, Zenon DEF Links
  <2>5. Mark(c).seen = link[p][c].seen /\ Mark(c).search = mark
      BY <2>2, <2>3, SMT DEF Links
  <2> QED  BY <2>1, <2>4, <2>5, ListingAssumption
<1> HIDE DEF Mark
<1>4. row \in [Cars -> Links \cup {None}]
  <2>1. \A c \in Cars : link[p][c] \in Links \cup {None}
      BY <1>1
  <2> QED  BY <1>3, <2>1
<1>5. \A d \in Cars : row[d] =
          IF link[p][d] = None \/ ~link[p][d].tracked THEN link[p][d] ELSE Mark(d)
    OBVIOUS
<1> HIDE DEF row
<1>6. CASE scan.baseline \/ ~scan.all
    BY <1>1, <1>2, <1>6
<1>7. CASE ~(scan.baseline \/ ~scan.all)
  <2>1. link' = [link EXCEPT ![p] = row]
      BY <1>2, <1>7
  <2>2. link' \in [Projects -> [Cars -> Links \cup {None}]]
      BY <1>1, <1>4, <2>1
  <2>3. \A q \in Projects : link'[q] = IF q = p THEN row ELSE link[q]
      BY <1>1, <2>1
  <2>4. ASSUME NEW q \in Projects, NEW d \in Cars
        PROVE  \/ link'[q][d] = link[q][d]
               \/ /\ q = scan.project /\ scan.all /\ ~scan.baseline
                  /\ link[q][d] # None /\ link[q][d].tracked
                  /\ link'[q][d] # None
                  /\ link'[q][d].seen = link[q][d].seen
                  /\ link'[q][d].search = "NOT_FOUND_IN_SEARCH" =>
                       d \in scan.sold \/ d \notin scan.found
    <3>1. CASE q # p \/ link[p][d] = None \/ ~link[p][d].tracked
        BY <1>5, <2>3, <3>1
    <3>2. CASE ~(q # p \/ link[p][d] = None \/ ~link[p][d].tracked)
      <4>1. link'[q][d] = Mark(d)
          BY <1>5, <2>3, <3>2
      <4> QED  BY <1>3, <1>7, <3>2, <4>1
    <3> QED  BY <3>1, <3>2
  <2> QED  BY <2>2, <2>4
<1> QED  BY <1>6, <1>7

LEMMA ApplySearchAbsenceStep == ObsInv /\ ApplySearchAbsence => ObsInv'
<1> SUFFICES ASSUME ObsInv, ApplySearchAbsence PROVE ObsInv'
    OBVIOUS
<1>0. TypeInv /\ TaskInv /\ SoldInv /\ SearchInv /\ BaseInv /\ PriceInv /\ ToldInv /\ ListedIsNeverMissing /\ ReportInv
    BY DEF ObsInv
<1>1. /\ scan # None /\ scan.phase = "details" /\ scan.tasks = {}
      /\ scan' = [scan EXCEPT !.phase = "finish"]
      /\ market' = market /\ cars' = cars /\ project' = project /\ told' = told /\ past' = past
    BY DEF ApplySearchAbsence
<1>2. OfProject /\ scan \in ProjectScans /\ scan.project \in Projects
    BY <1>0, <1>1, ScanTypes, Shapes DEF OfProject
<1>3. /\ link' \in [Projects -> [Cars -> Links \cup {None}]]
      /\ \A q \in Projects, d \in Cars :
            \/ link'[q][d] = link[q][d]
            \/ /\ q = scan.project /\ scan.all /\ ~scan.baseline
               /\ link[q][d] # None /\ link[q][d].tracked
               /\ link'[q][d] # None
               /\ link'[q][d].seen = link[q][d].seen
               /\ link'[q][d].search = "NOT_FOUND_IN_SEARCH" =>
                    d \in scan.sold \/ d \notin scan.found
    BY <1>0, <1>2, AbsenceEffect
<1>4. /\ scan' \in ProjectScans /\ scan'.phase = "finish" /\ scan'.tasks = {}
      /\ scan'.project = scan.project /\ scan'.rev = scan.rev /\ scan'.baseline = scan.baseline
      /\ scan'.sold = scan.sold /\ scan'.rows = scan.rows /\ scan'.reported = scan.reported
  <2>1. scan' \in ProjectScans
      BY <1>1, <1>2, Zenon DEF ProjectScans
  <2> QED  BY <1>1, <1>2, <2>1, SMT DEF ProjectScans
<1>5. OfProject' /\ scan' \notin CarScans
    BY <1>4, Shapes DEF OfProject
<1>6. TypeInv'
  <2>1. \A q \in Projects, d \in Cars : link'[q][d] # None => cars[d] # None
      BY <1>0, <1>3, RowTypes
  <2>2. TypeOK'
      BY <1>0, <1>1, <1>3, <2>1, ZenonT(60) DEF TypeInv, TypeOK
  <2> QED  BY <1>0, <1>1, <1>4, <2>2, Zenon DEF TypeInv
<1>7. TaskInv'
    BY <1>4, <1>5, Zenon DEF TaskInv
<1>8. SoldInv' /\ BaseInv' /\ PriceInv'
    BY <1>0, <1>1, <1>2, <1>4, <1>5, Zenon DEF SoldInv, SoldWasRead, BaseInv, PriceInv
<1>9. SearchInv'
  <2>1. \A q \in Projects : Kept(q)' = Kept(q)
      BY <1>1 DEF Kept
  <2>2. Kept(scan.project)' \subseteq Matches(scan'.rev)
      BY <1>0, <1>2, <1>4, <2>1 DEF SearchInv
  <2>3. \A q \in Projects : Kept(q)' \subseteq Results(market', project'[q].rev)
      BY <1>0, <1>1, <2>1 DEF SearchInv
  <2> QED  BY <1>4, <2>2, <2>3, Zenon DEF SearchInv
<1>10. ToldInv'
  <2>1. \A q, d : ~Publishing(q, d) /\ ~Publishing(q, d)'
      BY <1>1, <1>4 DEF Publishing
  <2>2. \A q \in Projects, d \in Cars :
          link'[q][d] # None => link[q][d] # None /\ link'[q][d].seen = link[q][d].seen
      BY <1>3
  <2> QED  BY <1>0, <1>1, <2>1, <2>2, Zenon DEF ToldInv, Remembered
<1>11. ListedIsNeverMissing'
  <2> SUFFICES ASSUME NEW q \in Projects, NEW d \in Cars, link'[q][d] # None,
                      link'[q][d].search = "NOT_FOUND_IN_SEARCH",
                      d \notin past.out[q], d \notin past.sold
               PROVE  FALSE
      BY <1>1, Zenon DEF ListedIsNeverMissing
  <2>1. link'[q][d] # link[q][d]
      BY <1>0 DEF ListedIsNeverMissing
  <2>2. /\ q = scan.project /\ scan.all /\ link[q][d] # None /\ link[q][d].tracked
        /\ d \in scan.sold \/ d \notin scan.found
      BY <1>3, <2>1
  <2>3. d \notin scan.sold
      BY <1>0, <1>2 DEF SoldInv
  <2>4. d \in Followed(q)
      BY <2>2 DEF Followed, Kept
  <2>5. d \in scan.found
      BY <1>0, <1>1, <1>2, <2>2, <2>4 DEF SearchInv
  <2> QED  BY <2>2, <2>3, <2>5
<1>12. ReportInv'
  <2>1. ItemInv'
    <3>1. Items(scan.reported, Keys, told[scan.project])
        BY <1>0, <1>2 DEF ReportInv, ItemInv
    <3>2. Keys' = Keys
        BY <1>1, Zenon DEF Keys
    <3> QED  BY <1>1, <1>4, <3>1, <3>2, Zenon DEF ItemInv
  <2>2. FreshInv'
    <3>1. \A d \in scan.rows : d \notin scan.reported
        BY <1>0, <1>2, Zenon DEF ReportInv, FreshInv
    <3> QED  BY <1>4, <3>1, Zenon DEF FreshInv
  <2> QED  BY <2>1, <2>2 DEF ReportInv
<1> QED  BY <1>12, <1>6, <1>7, <1>8, <1>9, <1>10, <1>11 DEF ObsInv

----------------------------------------------------------------------------
(* The refresh of one car *)

LEMMA StartCarStep ==
    ASSUME NEW p \in Projects, NEW c \in Cars, ObsInv, StartCar(p, c)
    PROVE  ObsInv'
<1>0. TypeInv /\ TaskInv /\ SoldInv /\ SearchInv /\ BaseInv /\ PriceInv /\ ToldInv /\ ListedIsNeverMissing /\ ReportInv
    BY DEF ObsInv
<1> DEFINE task == Task(p, c, "FULL", FALSE)
<1>1. /\ scan = None /\ link[p][c] # None
      /\ scan' = [phase |-> "car", project |-> p, task |-> task]
      /\ market' = market /\ cars' = cars /\ link' = link /\ project' = project /\ told' = told
      /\ past' = [past EXCEPT !.scans = @ + 1]
    BY DEF StartCar
<1>2. /\ past' \in Pasts /\ past'.changes = past.changes
      /\ past'.real = past.real /\ past'.out = past.out /\ past'.full = past.full
      /\ past'.sold = past.sold /\ past'.lost = past.lost
      /\ past'.gone = past.gone /\ past'.quiet = past.quiet
  <2>1. past \in Pasts
      BY <1>0 DEF TypeInv
  <2> QED  BY <1>1, <2>1, SMT DEF Pasts
<1>3. task \in Tasks /\ task.car = c /\ Current(task, p)
    BY <1>0, NewTask
<1> HIDE DEF task
<1>4. /\ scan' \in CarScans /\ scan'.phase = "car" /\ scan'.project = p /\ scan'.task = task
    BY <1>1, <1>3, SMT DEF CarScans
<1>5. ~OfProject'
    BY <1>4, Shapes DEF OfProject
<1>6. TypeInv'
    BY <1>0, <1>1, <1>2, <1>4, Zenon DEF TypeInv, TypeOK
<1>7. TaskInv'
  <2>1. Current(task, p) => task.previous # None
      BY <1>1, <1>3 DEF Current
  <2>2. Current(scan.task, scan.project)'
      BY <1>1, <1>3, <1>4, Zenon DEF Current
  <2>3. scan'.task.previous # None /\ link'[scan'.project][scan'.task.car] # None
      BY <1>1, <1>3, <1>4, <2>1
  <2> QED  BY <1>4, <1>5, <2>2, <2>3, Zenon DEF TaskInv
<1>8. SoldInv' /\ BaseInv' /\ PriceInv' /\ ListedIsNeverMissing'
    BY <1>0, <1>1, <1>2, <1>5, Zenon
      DEF SoldInv, SoldWasRead, BaseInv, PriceInv, ListedIsNeverMissing
<1>9. SearchInv'
    BY <1>0, <1>1, <1>2, <1>5, Zenon DEF SearchInv, Kept
<1>10. ToldInv'
    BY <1>0, <1>1, <1>2, <1>4, SMT DEF ToldInv, Remembered, Publishing
<1>11. ReportInv'
    BY <1>0, <1>5, ReportKept
<1> QED  BY <1>11, <1>6, <1>7, <1>8, <1>9, <1>10 DEF ObsInv

LEMMA RefreshCarStep == ObsInv /\ RefreshCar => ObsInv'
<1> SUFFICES ASSUME ObsInv, RefreshCar PROVE ObsInv'
    OBVIOUS
<1>0. TypeInv /\ TaskInv /\ SoldInv /\ SearchInv /\ BaseInv /\ PriceInv /\ ToldInv /\ ListedIsNeverMissing /\ ReportInv
    BY DEF ObsInv
<1> DEFINE p == scan.project
           task == scan.task
           c == task.car
<1>1. PICK detail \in ReadVerifiedDetail(c, "FULL", task.known) :
        /\ cars' = [cars EXCEPT ![c] = UpsertCar(cars[c], detail)]
        /\ link' = [link EXCEPT ![p][c] =
                        ObservedLink(@, UpsertCar(cars[c], detail), FALSE, task.previous)]
        /\ past' = IF detail = Sold THEN [past EXCEPT !.sold = @ \cup {c}] ELSE past
    BY Zenon DEF RefreshCar
<1>2. /\ scan # None /\ scan.phase = "car" /\ scan' = [scan EXCEPT !.phase = "publish"]
      /\ market' = market /\ project' = project /\ told' = told
    BY DEF RefreshCar
<1>3. /\ scan \in CarScans /\ p \in Projects /\ task \in Tasks /\ c \in Cars
      /\ task.known \in Prices \cup {0}
    BY <1>0, <1>2, ScanTypes, Shapes, TaskFields
<1>4. /\ link[p][c] \in Links /\ link[p][c] # None /\ cars[c] \in CarStates
      /\ task.previous # None /\ task.previous.seen = link[p][c].seen
  <2>1. link[p][c] # None /\ task.previous # None /\ Current(task, p)
      BY <1>0, <1>2, <1>3 DEF TaskInv
  <2>2. task.previous.seen = link[p][c].seen
      BY <2>1 DEF Current
  <2> QED  BY <1>0, <1>3, <2>1, <2>2, RowTypes
<1> DEFINE car == UpsertCar(cars[c], detail)
<1>5. /\ detail \in Details
      /\ detail.sold <=> detail = Sold
  <2> DEFINE known == task.known
  <2>1. detail \in ReadVerifiedDetail(c, "FULL", known) \cup {Unread} /\ known \in Prices \cup {0}
      BY <1>1, <1>3
  <2> HIDE DEF c, known
  <2> QED  BY <1>0, <1>3, <2>1, VerifiedRead
<1>6. /\ car \in CarStates
      /\ car.status = "SOLD" <=> detail.sold
    BY <1>4, <1>5, UpsertedCar, Zenon
<1> HIDE DEF car
<1>7. /\ scan' \in CarScans /\ scan'.phase = "publish" /\ scan'.project = p /\ scan'.task = task
  <2>1. scan' \in CarScans
      BY <1>2, <1>3, Zenon DEF CarScans
  <2> QED  BY <1>2, <1>3, <2>1, SMT DEF CarScans
<1>8. ~OfProject' /\ ~OfProject
    BY <1>3, <1>7, Shapes DEF OfProject
<1>9. /\ cars' \in [Cars -> CarStates \cup {None}]
      /\ \A d \in Cars : cars'[d] = IF d = c THEN car ELSE cars[d]
  <2>1. cars \in [Cars -> CarStates \cup {None}] /\ cars' = [cars EXCEPT ![c] = car]
      BY <1>0, <1>1 DEF TypeInv, TypeOK, car
  <2> HIDE DEF c
  <2> QED  BY <1>3, <1>6, <2>1
<1>10. /\ link' \in [Projects -> [Cars -> Links \cup {None}]]
       /\ \A q \in Projects, d \in Cars :
            IF q = p /\ d = c
            THEN /\ link'[q][d] # None /\ link'[q][d].seen = car
                 /\ link'[q][d].search = link[q][d].search
            ELSE link'[q][d] = link[q][d]
  <2> DEFINE new == [link[p][c] EXCEPT !.seen = car, !.search = link[p][c].search]
  <2>1. link' = [link EXCEPT ![p] = [link[p] EXCEPT ![c] = new]]
    <3>1. ObservedLink(link[p][c], car, FALSE, task.previous) = new
        BY <1>4, SMT DEF ObservedLink, Links
    <3> HIDE DEF new
    <3>2. link' = [link EXCEPT ![p][c] = ObservedLink(@, car, FALSE, task.previous)]
        BY <1>1 DEF car
    <3> QED  BY <3>1, <3>2, Zenon
  <2>2. link[p][c].search \in SearchStates
      BY <1>4, SMT DEF Links
  <2>3. new \in Links
      BY <1>4, <1>6, <2>2, Zenon DEF Links
  <2>4. new # None /\ new.seen = car /\ new.search = link[p][c].search
    <3>1. new.seen = car /\ new.search = link[p][c].search
        BY <1>4, SMT DEF Links
    <3> QED  BY <2>3, <3>1, ListingAssumption, Zenon
  <2> HIDE DEF new
  <2>5. link \in [Projects -> [Cars -> Links \cup {None}]]
      BY <1>0 DEF TypeInv, TypeOK
  <2> HIDE DEF p, c
  <2> QED  BY <1>3, <2>1, <2>3, <2>4, <2>5, SMT
<1>11. /\ past' \in Pasts /\ past'.changes = past.changes
       /\ past'.real = past.real /\ past'.out = past.out /\ past'.full = past.full
       /\ past'.lost = past.lost /\ past'.gone = past.gone /\ past'.quiet = past.quiet
       /\ past'.sold = IF detail.sold THEN past.sold \cup {c} ELSE past.sold
  <2>1. past \in Pasts
      BY <1>0 DEF TypeInv
  <2>2. CASE detail # Sold
      BY <1>1, <1>5, <2>1, <2>2
  <2>3. CASE detail = Sold
    <3> DEFINE sold == past.sold \cup {c}
    <3>1. past' = [past EXCEPT !.sold = sold] /\ sold \in SUBSET Cars
        BY <1>1, <1>3, <2>1, <2>3, PastFields
    <3> HIDE DEF sold
    <3>2. past' \in Pasts
        BY <2>1, <3>1, Zenon DEF Pasts
    <3>3. /\ past'.changes = past.changes
          /\ past'.real = past.real /\ past'.out = past.out /\ past'.full = past.full
          /\ past'.lost = past.lost /\ past'.gone = past.gone /\ past'.quiet = past.quiet
          /\ past'.sold = sold
        BY <2>1, <3>1, SMT DEF Pasts
    <3> QED  BY <1>5, <2>3, <3>2, <3>3 DEF sold
  <2> QED  BY <2>2, <2>3
<1>12. TypeInv'
  <2>1. \A q \in Projects, d \in Cars : link'[q][d] # None => cars'[d] # None
    <3>1. car # None
        BY <1>6, ListingAssumption
    <3> QED  BY <1>0, <1>9, <1>10, <3>1, RowTypes
  <2>2. TypeOK'
      BY <1>0, <1>2, <1>9, <1>10, <2>1, Zenon DEF TypeInv, TypeOK
  <2> QED  BY <1>0, <1>2, <1>7, <1>11, <2>2, Zenon DEF TypeInv
<1>13. TaskInv'
  <2>1. /\ link'[scan'.project][scan'.task.car] # None
        /\ link'[scan'.project][scan'.task.car].seen = cars'[scan'.task.car]
      BY <1>3, <1>7, <1>9, <1>10
  <2> QED  BY <1>4, <1>7, <1>8, <2>1, Zenon DEF TaskInv
<1>14. SoldInv'
  <2> SUFFICES ASSUME NEW d \in Cars, cars'[d] # None, cars'[d].status = "SOLD"
               PROVE  d \in past'.sold
      BY <1>8, Zenon DEF SoldInv, SoldWasRead
  <2>1. CASE d = c
      BY <1>6, <1>9, <1>11, <2>1
  <2>2. CASE d # c
      BY <1>0, <1>9, <1>11, <2>2 DEF SoldInv, SoldWasRead
  <2> QED  BY <2>1, <2>2
<1>15. SearchInv' /\ BaseInv' /\ PriceInv'
    BY <1>0, <1>2, <1>8, <1>11, Zenon DEF SearchInv, Kept, BaseInv, PriceInv
<1>16. ToldInv'
  <2> SUFFICES ASSUME NEW q \in Projects, NEW d \in Cars,
                      link'[q][d] # None, <<q, d>> \notin past.lost
               PROVE  /\ told[q][d] # None
                      /\ <<q, d>> \notin past.gone =>
                            Tells(d, told[q][d], Remembered(q, d)', <<q, d>> \in past.quiet)
      BY <1>2, <1>11, Zenon DEF ToldInv
  <2>1. ~Publishing(q, d)
      BY <1>2 DEF Publishing
  <2>2. link[q][d] # None /\ Remembered(q, d)' = link[q][d].seen
    <3>1. CASE q = p /\ d = c
      <4>1. Publishing(q, d)'
          BY <1>7, <3>1, ListingAssumption DEF Publishing
      <4> QED  BY <1>4, <1>7, <3>1, <4>1 DEF Remembered
    <3>2. CASE ~(q = p /\ d = c)
      <4>1. ~Publishing(q, d)'
          BY <1>7, <3>2, SMT DEF Publishing
      <4> QED  BY <1>10, <3>2, <4>1 DEF Remembered
    <3> QED  BY <3>1, <3>2
  <2> QED  BY <1>0, <2>1, <2>2, Zenon DEF ToldInv, Remembered
<1>17. ListedIsNeverMissing'
    BY <1>0, <1>4, <1>10, <1>11, SMT DEF ListedIsNeverMissing
<1>18. ReportInv'
    BY <1>0, <1>8, ReportKept
<1> QED  BY <1>18, <1>12, <1>13, <1>14, <1>15, <1>16, <1>17 DEF ObsInv

\* Marking a silent change touches the history of quiet pairs only.
LEMMA SilencedHistory ==
    ASSUME NEW h \in Pasts, NEW p \in Projects, NEW c \in Cars, NEW car, NEW previous
    PROVE  LET new == Silenced(h, p, c, car, previous)
           IN  /\ new \in Pasts /\ new.changes = h.changes
               /\ new.real = h.real /\ new.out = h.out /\ new.full = h.full
               /\ new.lost = h.lost /\ new.gone = h.gone /\ new.sold = h.sold
               /\ h.quiet \subseteq new.quiet
               /\ Unreported(car, previous) => <<p, c>> \in new.quiet
<1> DEFINE new == Silenced(h, p, c, car, previous)
<1>1. CASE ~Unreported(car, previous)
    BY <1>1 DEF Silenced
<1>2. CASE Unreported(car, previous)
  <2> DEFINE quiet == h.quiet \cup {<<p, c>>}
  <2>1. new = [h EXCEPT !.quiet = quiet]
      BY <1>2 DEF Silenced
  <2>2. quiet \in SUBSET (Projects \X Cars)
      BY PastFields, SMT
  <2> HIDE DEF quiet, new
  <2>3. new \in Pasts
      BY <2>1, <2>2, Zenon DEF Pasts
  <2>4. /\ new.changes = h.changes
        /\ new.real = h.real /\ new.out = h.out /\ new.full = h.full
        /\ new.lost = h.lost /\ new.gone = h.gone /\ new.sold = h.sold /\ new.quiet = quiet
      BY <2>1, SMT DEF Pasts
  <2> QED  BY <1>2, <2>3, <2>4 DEF quiet, new
<1> QED  BY <1>1, <1>2

LEMMA PublishCarStep == ObsInv /\ PublishCar => ObsInv'
<1> SUFFICES ASSUME ObsInv, PublishCar PROVE ObsInv'
    OBVIOUS
<1>0. TypeInv /\ TaskInv /\ SoldInv /\ SearchInv /\ BaseInv /\ PriceInv /\ ToldInv /\ ListedIsNeverMissing /\ ReportInv
    BY DEF ObsInv
<1>1. /\ scan # None /\ scan.phase = "publish" /\ scan' = None
      /\ market' = market /\ cars' = cars /\ link' = link /\ project' = project
    BY Zenon DEF PublishCar
<1>2. /\ scan \in CarScans /\ scan.project \in Projects /\ scan.task.car \in Cars
      /\ scan.task \in Tasks
    BY <1>0, <1>1, ScanTypes, Shapes, TaskFields
<1>p. PICK p \in Projects, c \in Cars, previous \in PreviousStates \cup {None} :
         p = scan.project /\ c = scan.task.car /\ previous = scan.task.previous
    BY <1>2, TaskFields
<1>c. PICK car \in CarStates \cup {None}, search \in {link[p][c].search} :
         car = cars[c] /\ search = link[p][c].search
    BY <1>0, RowTypes
<1> DEFINE change == ChangeReport(car, previous, search)
<1>w. /\ told' = [told EXCEPT ![p] =
                    DedupeReport(@, {}, [car |-> c, change |-> change, price |-> car.price])]
      /\ past' = Silenced(past, p, c, car, previous)
    BY <1>p, <1>c, Zenon DEF PublishCar
<1>3. /\ link[p][c] # None /\ link[p][c] \in Links /\ cars[c] \in CarStates
      /\ previous # None /\ previous \in PreviousStates /\ link[p][c].seen = car
      /\ car \in CarStates
  <2>1. link[p][c] # None /\ previous # None /\ link[p][c].seen = cars[c]
      BY <1>0, <1>1, <1>2, <1>p DEF TaskInv
  <2> QED  BY <1>0, <1>2, <1>p, <1>c, <2>1, RowTypes, TaskFields
<1>4. ~OfProject' /\ scan' \notin CarScans /\ TaskInv' /\ (SoldWasRead' => SoldInv')
    BY <1>1, Idle
<1>5. /\ past' \in Pasts /\ past'.changes = past.changes
      /\ past'.real = past.real /\ past'.out = past.out /\ past'.full = past.full
      /\ past'.lost = past.lost /\ past'.gone = past.gone /\ past'.sold = past.sold
      /\ past.quiet \subseteq past'.quiet
      /\ Unreported(car, previous) => <<p, c>> \in past'.quiet
  <2>1. past \in Pasts
      BY <1>0 DEF TypeInv
  <2> QED  BY <1>w, <2>1, SilencedHistory, SMT
<1>7. /\ told' \in [Projects -> [Cars -> Reports \cup {None}]]
      /\ change \in Omitted => \A q \in Projects, d \in Cars : told'[q][d] = told[q][d]
      /\ change \notin Omitted =>
            \E item \in Reports :
                /\ item.car = c /\ item.change = change /\ item.price = car.price
                /\ \A q \in Projects, d \in Cars :
                      told'[q][d] = IF q = p /\ d = c THEN item ELSE told[q][d]
  <2>1. change \in Statuses \cup {"MATERIAL_UPDATE"} \cup Omitted
      BY <1>3, ChangeFacts
  <2>2. Joins(p, c, car, change, {})
      BY <1>w DEF Joins
  <2> HIDE DEF change
  <2>3. /\ told' \in [Projects -> [Cars -> Reports \cup {None}]]
        /\ IF change \in Omitted THEN \A q \in Projects, d \in Cars : told'[q][d] = told[q][d]
           ELSE \E kept : Shared(kept, p, c, car, change, {})
      BY <1>0, <1>3, <2>1, <2>2, NewReport
  <2> QED  BY <2>3 DEF Shared
<1>8. TypeInv'
    BY <1>0, <1>1, <1>5, <1>7, Zenon DEF TypeInv, TypeOK
<1>9. SoldInv' /\ BaseInv' /\ PriceInv' /\ ListedIsNeverMissing'
    BY <1>0, <1>1, <1>4, <1>5, Zenon
      DEF SoldInv, SoldWasRead, BaseInv, PriceInv, ListedIsNeverMissing
<1>10. SearchInv'
    BY <1>0, <1>1, <1>4, <1>5, Zenon DEF SearchInv, Kept
<1>11. ToldInv'
  <2> SUFFICES ASSUME NEW q \in Projects, NEW d \in Cars,
                      link[q][d] # None, <<q, d>> \notin past.lost
               PROVE  /\ told'[q][d] # None
                      /\ <<q, d>> \notin past.gone =>
                            Tells(d, told'[q][d], link[q][d].seen, <<q, d>> \in past'.quiet)
      BY <1>1, <1>5, Zenon DEF ToldInv, Remembered, Publishing
  <2>1. CASE q = p /\ d = c
    <3>1. /\ told[p][c] # None
          /\ <<p, c>> \notin past.gone =>
                Tells(c, told[p][c], previous.seen, <<p, c>> \in past.quiet)
      <4>1. Publishing(p, c)
          BY <1>1, <1>p DEF Publishing
      <4>2. <<p, c>> \notin past.lost
          BY <2>1
      <4> QED  BY <1>0, <1>p, <1>3, <4>1, <4>2, Zenon DEF ToldInv, Remembered
    <3> DEFINE silent == <<p, c>> \in past.quiet
               before == told[p][c]
    <3>2. silent \/ Unreported(car, previous) => <<p, c>> \in past'.quiet
        BY <1>5, Zenon
    <3>3. CASE change \in Omitted
      <4>1. told'[p][c] = before
          BY <1>7, <3>3
      <4>2. /\ car.status = "SOLD" => previous.seen.status = "SOLD"
            /\ car.status # "SOLD" =>
                  /\ previous.seen.price = car.price
                  /\ previous.seen.status = car.status \/ Unreported(car, previous)
          BY <1>3, <3>3, ChangeFacts, SoldIsReported
      <4>3. <<p, c>> \notin past.gone => Tells(c, before, car, <<p, c>> \in past'.quiet)
          BY <3>1, <3>2, <4>2 DEF Tells
      <4> QED  BY <1>3, <2>1, <3>1, <4>1, <4>3, Zenon
    <3>4. CASE change \notin Omitted
      <4>1. PICK item \in Reports :
                /\ item.car = c /\ item.change = change /\ item.price = car.price
                /\ told'[p][c] = item
          BY <1>7, <3>4
      <4>2. item # None
          BY ListingAssumption
      <4>3. Tells(c, item, car, <<p, c>> \in past'.quiet)
        <5> DEFINE quiet == <<p, c>> \in past'.quiet
        <5>1. /\ car \in CarStates /\ previous \in PreviousStates \cup {None} /\ previous # None
              /\ ChangeReport(car, previous, search) \notin Omitted
              /\ item.change = ChangeReport(car, previous, search)
            BY <1>3, <3>4, <4>1
        <5> HIDE DEF quiet
        <5>2. Tells(c, item, car, quiet)
            BY <4>1, <5>1, ItemTells
        <5> QED  BY <5>2 DEF quiet
      <4> QED  BY <1>3, <2>1, <4>1, <4>2, <4>3, Zenon
    <3> QED  BY <3>3, <3>4
  <2>2. CASE ~(q = p /\ d = c)
    <3>1. told'[q][d] = told[q][d] /\ ~Publishing(q, d)
      <4>1. told'[q][d] = told[q][d]
          BY <1>7, <2>2, Zenon
      <4> QED  BY <1>p, <4>1, <2>2, Zenon DEF Publishing
    <3>2. <<q, d>> \in past.quiet => <<q, d>> \in past'.quiet
        BY <1>5
    <3>3. /\ told[q][d] # None
          /\ <<q, d>> \notin past.gone =>
                Tells(d, told[q][d], link[q][d].seen, <<q, d>> \in past.quiet)
        BY <1>0, <2>2, <3>1, Zenon DEF ToldInv, Remembered
    <3> QED  BY <3>1, <3>2, <3>3, Zenon DEF Tells
  <2> QED  BY <2>1, <2>2
<1>12. ReportInv'
    BY <1>0, <1>4, ReportKept
<1> QED  BY <1>12, <1>4, <1>8, <1>9, <1>10, <1>11 DEF ObsInv

----------------------------------------------------------------------------
(* The commit of an observation *)

\* A scan commits what it observed of a car, knowing what the link remembers;
\* h is the history that the read of the listing has left.
Observing(p, c, car, markFound, previous, rest, h) ==
    /\ OfProject /\ rest \in ProjectScans
    /\ scan.project = p /\ rest.project = p
    /\ rest.rev = scan.rev /\ rest.baseline = scan.baseline
    /\ rest.reported = scan.reported /\ c \notin scan.reported
    /\ p \in Projects /\ c \in Cars /\ car \in CarStates /\ markFound \in BOOLEAN
    /\ previous \in PreviousStates \cup {None}
    /\ IF link[p][c] = None THEN previous = None
       ELSE previous # None /\ previous.seen = link[p][c].seen
    /\ h \in Pasts /\ h.changes = past.changes /\ h.real = past.real /\ h.out = past.out
    /\ h.full = past.full /\ h.lost = past.lost /\ h.quiet = past.quiet
    /\ past.sold \subseteq h.sold /\ past.gone \subseteq h.gone /\ rest.sold \subseteq h.sold
    /\ car.status = "SOLD" => c \in h.sold /\ (link[p][c] = None => <<p, c>> \in h.gone)
    /\ Observe(p, c, car, markFound, previous, rest, h)
    /\ market' = market /\ project' = project

\* The worker's state goes on from rest; the car may have an item now.
LEMMA ObservedScan ==
    ASSUME NEW p, NEW c, NEW car, NEW markFound, NEW previous, NEW rest, NEW h,
           Observing(p, c, car, markFound, previous, rest, h)
    PROVE  /\ scan' \in ProjectScans /\ scan'.phase = rest.phase /\ scan'.project = p
           /\ scan'.all = rest.all /\ scan'.rev = scan.rev /\ scan'.baseline = scan.baseline
           /\ scan'.rows = rest.rows /\ scan'.found = rest.found /\ scan'.tasks = rest.tasks
           /\ scan'.sold = rest.sold
           /\ scan'.reported \subseteq scan.reported \cup {c}
<1>1. /\ rest \in ProjectScans /\ rest.project = p /\ rest.rev = scan.rev
      /\ rest.baseline = scan.baseline /\ rest.reported = scan.reported /\ c \in Cars
    BY DEF Observing
<1> DEFINE more == rest.reported \cup {c}
<1>2. scan' = rest \/ scan' = [rest EXCEPT !.reported = more]
    BY Zenon DEF Observing, Observe
<1>3. more \in SUBSET Cars
    BY <1>1, Shapes
<1>4. CASE scan' = rest
    BY <1>1, <1>4
<1>5. CASE scan' = [rest EXCEPT !.reported = more]
  <2> HIDE DEF more
  <2>1. scan' \in ProjectScans
      BY <1>1, <1>3, <1>5, Zenon DEF ProjectScans
  <2>2. /\ scan'.phase = rest.phase /\ scan'.project = rest.project
        /\ scan'.all = rest.all /\ scan'.rev = rest.rev /\ scan'.baseline = rest.baseline
        /\ scan'.rows = rest.rows /\ scan'.found = rest.found /\ scan'.tasks = rest.tasks
        /\ scan'.sold = rest.sold /\ scan'.reported = more
      BY <1>1, <1>5, SMT DEF ProjectScans
  <2> QED  BY <1>1, <2>1, <2>2 DEF more
<1> QED  BY <1>2, <1>4, <1>5

\* The rows that are written: the car, and the link with the car it remembers.
LEMMA ObservedRows ==
    ASSUME TypeInv, NEW p, NEW c, NEW car, NEW markFound, NEW previous, NEW rest, NEW h,
           Observing(p, c, car, markFound, previous, rest, h)
    PROVE  /\ cars' \in [Cars -> CarStates \cup {None}]
           /\ \A d \in Cars : cars'[d] = IF d = c THEN car ELSE cars[d]
           /\ link' \in [Projects -> [Cars -> Links \cup {None}]]
           /\ \A q \in Projects, d \in Cars :
                IF q = p /\ d = c
                THEN /\ link'[q][d] # None /\ link'[q][d].seen = car
                     /\ link'[q][d].tracked => link[q][d] = None \/ link[q][d].tracked
                     /\ link'[q][d].search = "NOT_FOUND_IN_SEARCH" =>
                            link[q][d] # None /\ link[q][d].search = "NOT_FOUND_IN_SEARCH"
                ELSE link'[q][d] = link[q][d]
<1>1. p \in Projects /\ c \in Cars /\ car \in CarStates
    BY DEF Observing
<1>2. /\ cars' = [cars EXCEPT ![c] = car]
      /\ link' = [link EXCEPT ![p][c] = ObservedLink(link[p][c], car, markFound, previous)]
    BY Zenon DEF Observing, Observe
<1>3. /\ cars \in [Cars -> CarStates \cup {None}]
      /\ link \in [Projects -> [Cars -> Links \cup {None}]]
    BY DEF TypeInv, TypeOK
<1> DEFINE old == link[p][c]
           new == ObservedLink(old, car, markFound, previous)
<1>4. /\ new \in Links /\ new # None /\ new.seen = car
      /\ new.tracked => old = None \/ old.tracked
      /\ new.search = "NOT_FOUND_IN_SEARCH" => old # None /\ old.search = "NOT_FOUND_IN_SEARCH"
  <2>1. CASE old = None
    <3>1. new = [seen |-> car, search |-> "FOUND", tracked |-> TRUE]
        BY <2>1 DEF ObservedLink
    <3> HIDE DEF new
    <3>2. new \in Links /\ new.seen = car /\ new.search = "FOUND"
        BY <1>1, <3>1, SMT DEF Links, SearchStates
    <3> QED  BY <2>1, <3>2, ListingAssumption
  <2>2. CASE old # None
    <3> DEFINE search == IF markFound /\ previous.search # "FOUND" THEN "FOUND" ELSE old.search
    <3>1. old \in Links
        BY <1>1, <1>3, <2>2
    <3>2. new = [old EXCEPT !.seen = car, !.search = search]
      <4> HIDE DEF old
      <4> QED  BY <2>2, <3>1, SMT DEF ObservedLink, Links
    <3>3. search \in SearchStates /\ search \in {"FOUND", old.search}
      <4>1. old.search \in SearchStates /\ "FOUND" \in SearchStates
          BY <3>1, SMT DEF Links, SearchStates
      <4> HIDE DEF old
      <4> QED  BY <4>1
    <3> HIDE DEF new, search, old
    <3>4. new \in Links
        BY <1>1, <3>1, <3>2, <3>3, Zenon DEF Links
    <3>5. new.seen = car /\ new.search = search /\ new.tracked = old.tracked
        BY <3>1, <3>2, SMT DEF Links
    <3> QED  BY <2>2, <3>3, <3>4, <3>5, ListingAssumption
  <2> QED  BY <2>1, <2>2
<1>5. link' = [link EXCEPT ![p] = [link[p] EXCEPT ![c] = new]]
    BY <1>2, Zenon
<1> HIDE DEF new
<1>6. /\ cars' \in [Cars -> CarStates \cup {None}]
      /\ \A d \in Cars : cars'[d] = IF d = c THEN car ELSE cars[d]
    BY <1>1, <1>2, <1>3, SMT
<1>7. /\ link' \in [Projects -> [Cars -> Links \cup {None}]]
      /\ \A q \in Projects, d \in Cars :
            link'[q][d] = IF q = p /\ d = c THEN new ELSE link[q][d]
    BY <1>1, <1>3, <1>4, <1>5, SMT
<1> QED  BY <1>4, <1>6, <1>7

LEMMA ObservedHistory ==
    ASSUME NEW p, NEW c, NEW car, NEW markFound, NEW previous, NEW rest, NEW h,
           Observing(p, c, car, markFound, previous, rest, h)
    PROVE  /\ past' \in Pasts /\ past'.changes = past.changes
           /\ past'.real = past.real /\ past'.out = past.out /\ past'.full = past.full
           /\ past'.lost = past.lost /\ past'.gone = h.gone /\ past'.sold = h.sold
           /\ past.quiet \subseteq past'.quiet
           /\ Unreported(car, previous) => <<p, c>> \in past'.quiet
<1>1. /\ h \in Pasts /\ p \in Projects /\ c \in Cars
      /\ h.changes = past.changes /\ h.real = past.real /\ h.out = past.out
      /\ h.full = past.full /\ h.lost = past.lost /\ h.quiet = past.quiet
    BY DEF Observing
<1>2. past' = Silenced(h, p, c, car, previous)
    BY Zenon DEF Observing, Observe
<1>3. /\ past' \in Pasts /\ past'.changes = h.changes
      /\ past'.real = h.real /\ past'.out = h.out /\ past'.full = h.full
      /\ past'.lost = h.lost /\ past'.gone = h.gone /\ past'.sold = h.sold
      /\ h.quiet \subseteq past'.quiet
      /\ Unreported(car, previous) => <<p, c>> \in past'.quiet
    BY <1>1, <1>2, SilencedHistory, SMT
<1> QED  BY <1>1, <1>3

\* The group of publications that an observation joins.
Group(c, car) == {d \in scan.reported : Keys[d] = ReportKey(c, car)}

LEMMA GroupFacts ==
    ASSUME TypeInv, OfProject, ItemInv, NEW p \in Projects, p = scan.project, NEW c \in Cars, NEW car,
           c \notin scan.reported
    PROVE  /\ Group(c, car) \in SUBSET Cars
           /\ \A d, e \in Group(c, car) : told[p][d] # None /\ told[p][d] = told[p][e]
           /\ \A d \in Group(c, car) :
                /\ d # c /\ Vehicle[c] = Vehicle[d] /\ Vehicle[d] # None
                /\ told[p][d].car \in Group(c, car)
<1>1. scan.reported \subseteq Cars
    BY Shapes DEF OfProject
<1>2. Items(scan.reported, Keys, told[p])
    BY DEF ItemInv
<1>3. \A d \in Group(c, car) :
        /\ d \in scan.reported /\ d \in Cars
        /\ Keys[d] = ReportKey(c, car) /\ Keys[d] = ReportKey(d, cars[d])
    BY <1>1 DEF Group, Keys
<1>4. ASSUME NEW d \in Group(c, car)
      PROVE  /\ d # c /\ Vehicle[c] = Vehicle[d] /\ Vehicle[d] # None
             /\ told[p][d].car \in Group(c, car)
  <2>1. d # c /\ ReportKey(c, car) = ReportKey(d, cars[d])
      BY <1>3
  <2>2. Vehicle[c] = Vehicle[d] /\ Vehicle[d] # None
      BY <1>3, <2>1, SameVehicle
  <2>3. told[p][d].car \in Group(c, car)
      BY <1>2, <1>3 DEF Group, Items
  <2> QED  BY <2>1, <2>2, <2>3
<1>5. \A d, e \in Group(c, car) : told[p][d] # None /\ told[p][d] = told[p][e]
    BY <1>2, <1>3 DEF Items
<1> QED  BY <1>3, <1>4, <1>5

\* The stored report after an observation: the group and the car share an item.
ReportMade(p, c, car, change) ==
    IF change \in Omitted
    THEN /\ \A q \in Projects, d \in Cars : told'[q][d] = told[q][d]
         /\ scan'.reported = scan.reported
    ELSE /\ scan'.reported = scan.reported \cup {c}
         /\ \E kept : Shared(kept, p, c, car, change, Group(c, car))

LEMMA ObservedReport ==
    ASSUME TypeInv, ItemInv, NEW p, NEW c, NEW car, NEW markFound, NEW previous, NEW rest, NEW h,
           Observing(p, c, car, markFound, previous, rest, h)
    PROVE  /\ told' \in [Projects -> [Cars -> Reports \cup {None}]]
           /\ \E search : ReportMade(p, c, car, ChangeReport(car, previous, search))
<1>1. /\ OfProject /\ p \in Projects /\ p = scan.project /\ c \in Cars /\ car \in CarStates
      /\ previous \in PreviousStates \cup {None} /\ c \notin scan.reported
      /\ rest \in ProjectScans /\ rest.reported = scan.reported
    BY DEF Observing
<1> DEFINE search == ObservedLink(link[p][c], car, markFound, previous).search
           change == ChangeReport(car, previous, search)
           group == Group(c, car)
<1>2. /\ Joins(p, c, car, change, group)
      /\ scan' = IF change \in Omitted THEN rest
                 ELSE [rest EXCEPT !.reported = rest.reported \cup {c}]
  <2>1. group = {d \in rest.reported : ReportKey(d, cars[d]) = ReportKey(c, car)}
    <3>1. \A d \in scan.reported : Keys[d] = ReportKey(d, cars[d])
        BY <1>1, Shapes DEF Keys, OfProject
    <3> QED  BY <1>1, <3>1 DEF Group
  <2>2. Observe(p, c, car, markFound, previous, rest, h)
      BY DEF Observing
  <2> HIDE DEF group
  <2> QED  BY <2>1, <2>2, Zenon DEF Observe, Joins
<1>3. /\ group \in SUBSET Cars
      /\ \A d, e \in group : told[p][d] # None /\ told[p][d] = told[p][e]
    BY <1>1, GroupFacts
<1>4. change \in Statuses \cup {"MATERIAL_UPDATE"} \cup Omitted
    BY <1>1, ChangeFacts
<1>5. /\ change \in Omitted => scan'.reported = scan.reported
      /\ change \notin Omitted => scan'.reported = scan.reported \cup {c}
  <2> HIDE DEF change
  <2> QED  BY <1>1, <1>2, SMT DEF ProjectScans
<1> HIDE DEF search, group
<1>6. PICK s, ch : s = search /\ ch = ChangeReport(car, previous, s) /\ ch = change
    OBVIOUS
<1>7. /\ told' \in [Projects -> [Cars -> Reports \cup {None}]]
      /\ IF ch \in Omitted THEN \A q \in Projects, d \in Cars : told'[q][d] = told[q][d]
         ELSE \E kept : Shared(kept, p, c, car, ch, group)
  <2> HIDE DEF change
  <2>1. /\ ch \in Statuses \cup {"MATERIAL_UPDATE"} \cup Omitted
        /\ Joins(p, c, car, ch, group)
      BY <1>2, <1>4, <1>6
  <2> QED  BY <1>1, <1>3, <2>1, NewReport
<1>8. ReportMade(p, c, car, ch)
  <2> HIDE DEF change
  <2> QED  BY <1>5, <1>6, <1>7, Zenon DEF ReportMade, group
<1> QED  BY <1>6, <1>7, <1>8, Zenon

\* The report of the observation tells what the link now remembers.
LEMMA ObservedTold ==
    ASSUME TypeInv, ToldInv, ItemInv, NEW p, NEW c, NEW car, NEW markFound, NEW previous,
           NEW rest, NEW h, Observing(p, c, car, markFound, previous, rest, h)
    PROVE  ToldInv' /\ ItemInv' /\ told' \in [Projects -> [Cars -> Reports \cup {None}]]
<1>1. /\ p \in Projects /\ c \in Cars /\ car \in CarStates /\ OfProject /\ p = scan.project
      /\ previous \in PreviousStates \cup {None}
      /\ IF link[p][c] = None THEN previous = None
         ELSE previous # None /\ previous.seen = link[p][c].seen
      /\ past.gone \subseteq h.gone /\ c \notin scan.reported
      /\ car.status = "SOLD" => (link[p][c] = None => <<p, c>> \in h.gone)
    BY DEF Observing
<1>2. /\ past'.lost = past.lost /\ past'.gone = h.gone /\ past.quiet \subseteq past'.quiet
      /\ Unreported(car, previous) => <<p, c>> \in past'.quiet
    BY ObservedHistory
<1>3. /\ \A d \in Cars : cars'[d] = IF d = c THEN car ELSE cars[d]
      /\ \A q \in Projects, d \in Cars :
            IF q = p /\ d = c THEN link'[q][d].seen = car ELSE link'[q][d] = link[q][d]
    BY ObservedRows
<1>4. /\ scan' \in ProjectScans /\ scan'.project = p /\ scan.reported \in SUBSET Cars
      /\ \A q, d : ~Publishing(q, d) /\ ~Publishing(q, d)'
  <2>1. scan' \in ProjectScans /\ scan'.project = p
      BY ObservedScan
  <2>2. scan.phase # "publish" /\ scan'.phase # "publish" /\ scan.reported \in SUBSET Cars
      BY <1>1, <2>1, Shapes, SMT DEF OfProject
  <2> QED  BY <2>1, <2>2 DEF Publishing
<1>5. \A q \in Projects, d \in Cars :
         (link[q][d] # None /\ <<q, d>> \notin past.lost) =>
            /\ told[q][d] # None
            /\ <<q, d>> \notin past.gone =>
                  Tells(d, told[q][d], link[q][d].seen, <<q, d>> \in past.quiet)
    BY <1>4, Zenon DEF ToldInv, Remembered
<1>6. ToldInv' <=> \A q \in Projects, d \in Cars :
         (link'[q][d] # None /\ <<q, d>> \notin past.lost) =>
            /\ told'[q][d] # None
            /\ <<q, d>> \notin h.gone =>
                  Tells(d, told'[q][d], link'[q][d].seen, <<q, d>> \in past'.quiet)
    BY <1>2, <1>4, Zenon DEF ToldInv, Remembered
<1>7. ASSUME NEW q \in Projects, NEW d \in Cars, ~(q = p /\ d = c), told'[q][d] = told[q][d],
             link'[q][d] # None, <<q, d>> \notin past.lost
      PROVE  /\ told'[q][d] # None
             /\ <<q, d>> \notin h.gone =>
                   Tells(d, told'[q][d], link'[q][d].seen, <<q, d>> \in past'.quiet)
  <2>1. link'[q][d] = link[q][d]
      BY <1>3, <1>7
  <2>2. /\ <<q, d>> \in past.gone => <<q, d>> \in h.gone
        /\ <<q, d>> \in past.quiet => <<q, d>> \in past'.quiet
      BY <1>1, <1>2
  <2>3. /\ told[q][d] # None
        /\ <<q, d>> \notin h.gone =>
              Tells(d, told[q][d], link[q][d].seen, <<q, d>> \in past.quiet)
      BY <1>5, <1>7, <2>1, <2>2, Zenon
  <2> QED  BY <1>7, <2>1, <2>2, <2>3 DEF Tells
<1>8. Items(scan.reported, Keys, told[p])
    BY <1>1 DEF ItemInv
<1>9. \A d \in Cars : Keys'[d] = IF d = c THEN ReportKey(c, car) ELSE Keys[d]
    BY <1>1, <1>3 DEF Keys
<1>10. told' \in [Projects -> [Cars -> Reports \cup {None}]]
    BY ObservedReport
<1>11. PICK search : ReportMade(p, c, car, ChangeReport(car, previous, search))
    BY ObservedReport
<1> DEFINE change == ChangeReport(car, previous, search)
<1>12. CASE change \in Omitted
  <2>1. /\ \A q \in Projects, d \in Cars : told'[q][d] = told[q][d]
        /\ scan'.reported = scan.reported
      BY <1>11, <1>12, Zenon DEF ReportMade
  <2>2. ASSUME link'[p][c] # None, <<p, c>> \notin past.lost
        PROVE  /\ told'[p][c] # None
               /\ <<p, c>> \notin h.gone =>
                     Tells(c, told'[p][c], link'[p][c].seen, <<p, c>> \in past'.quiet)
    <3>1. previous # None /\ previous \in PreviousStates /\ link[p][c] # None
          /\ previous.seen = link[p][c].seen
        BY <1>1, <1>12, ChangeFacts, SoldIsReported
    <3>2. /\ told[p][c] # None
          /\ <<p, c>> \notin past.gone =>
                Tells(c, told[p][c], previous.seen, <<p, c>> \in past.quiet)
        BY <1>1, <1>5, <2>2, <3>1, Zenon
    <3>3. ASSUME <<p, c>> \notin h.gone
          PROVE  Tells(c, told[p][c], car, <<p, c>> \in past'.quiet)
      <4> DEFINE silent == <<p, c>> \in past.quiet
                 before == told[p][c]
      <4>1. Tells(c, before, previous.seen, silent) /\ silent \in BOOLEAN
          BY <1>1, <3>2, <3>3
      <4> HIDE DEF silent, before
      <4>2. Tells(c, before, car, silent \/ Unreported(car, previous))
          BY <1>1, <1>12, <3>1, <4>1, OmittedTells, ZenonT(60)
      <4>3. silent \/ Unreported(car, previous) => <<p, c>> \in past'.quiet
          BY <1>2 DEF silent
      <4> QED  BY <4>2, <4>3, Zenon DEF Tells, before
    <3>4. told'[p][c] = told[p][c] /\ link'[p][c].seen = car
        BY <1>1, <1>3, <2>1
    <3> QED  BY <3>2, <3>3, <3>4, Zenon
  <2>3. ToldInv'
    <3> SUFFICES ASSUME NEW q \in Projects, NEW d \in Cars,
                        link'[q][d] # None, <<q, d>> \notin past.lost
                 PROVE  /\ told'[q][d] # None
                        /\ <<q, d>> \notin h.gone =>
                              Tells(d, told'[q][d], link'[q][d].seen, <<q, d>> \in past'.quiet)
        BY <1>6, Zenon
    <3>1. CASE q = p /\ d = c
        BY <2>2, <3>1
    <3>2. CASE ~(q = p /\ d = c)
        BY <1>7, <2>1, <3>2
    <3> QED  BY <3>1, <3>2
  <2>4. ItemInv'
    <3>1. \A d \in scan.reported :
             Keys'[d] = Keys[d] /\ told'[p][d] = told[p][d] /\ d \in Cars
        BY <1>1, <1>4, <1>9, <2>1
    <3>2. Items(scan.reported, Keys', told'[p])
        BY <1>8, <3>1 DEF Items
    <3> QED  BY <1>4, <2>1, <3>2, Zenon DEF ItemInv
  <2> QED  BY <1>10, <2>3, <2>4
<1>13. CASE change \notin Omitted
  <2>1. scan'.reported = scan.reported \cup {c}
      BY <1>11, <1>13, Zenon DEF ReportMade
  <2>s. PICK kept : Shared(kept, p, c, car, change, Group(c, car))
      BY <1>11, <1>13, Zenon DEF ReportMade
  <2>2. /\ kept \in Reports
        /\ \A q \in Projects, d \in Cars :
             told'[q][d] = IF q = p /\ d \in Group(c, car) \cup {c} THEN kept ELSE told[q][d]
        /\ \/ kept.car = c /\ kept.change = change /\ kept.price = car.price
           \/ /\ Group(c, car) # {} /\ change # "SOLD"
              /\ \A d \in Group(c, car) : told[p][d] = kept
        /\ (\E d \in Group(c, car) : told[p][d].change = "SOLD") => kept.change = "SOLD"
      BY <2>s, Zenon DEF Shared
  <2>3. kept # None
      BY <2>2, ListingAssumption
  <2>4. /\ \A d \in Group(c, car) :
              /\ d \in scan.reported /\ d \in Cars /\ d # c
              /\ Vehicle[c] = Vehicle[d] /\ Vehicle[d] # None /\ told[p][d].car \in Group(c, car)
    <3>1. \A d \in Group(c, car) :
              /\ d # c /\ Vehicle[c] = Vehicle[d] /\ Vehicle[d] # None
              /\ told[p][d].car \in Group(c, car)
        BY <1>1, GroupFacts
    <3> QED  BY <1>4, <3>1 DEF Group
  <2>5. kept.car \in Group(c, car) \cup {c}
      BY <2>2, <2>4
  <2>6. kept.car # c => Vehicle[kept.car] = Vehicle[c] /\ Vehicle[c] # None
      BY <2>4, <2>5
  <2>7. ASSUME <<p, c>> \notin h.gone PROVE Tells(c, kept, car, <<p, c>> \in past'.quiet)
    <3>1. previous = None => car.status # "SOLD"
        BY <1>1, <2>7, ListingAssumption
    <3>2. CASE kept.car = c /\ kept.change = change /\ kept.price = car.price
      <4> DEFINE quiet == <<p, c>> \in past'.quiet
      <4> HIDE DEF quiet
      <4>1. Tells(c, kept, car, quiet)
          BY <1>1, <1>13, <2>2, <3>1, <3>2, ItemTells, Zenon
      <4> QED  BY <4>1 DEF quiet
    <3>3. CASE change # "SOLD" /\ \E d \in Group(c, car) : told[p][d] = kept
      <4>1. car.status # "SOLD"
        <5>1. None \in Omitted
            BY DEF Omitted
        <5> QED  BY <1>1, <1>13, <3>1, <3>3, <5>1, ChangeFacts
      <4>2. kept.car # c
          BY <2>4, <3>3
      <4> QED  BY <2>6, <4>1, <4>2 DEF Tells
    <3> QED  BY <2>2, <3>2, <3>3
  <2>8. ASSUME NEW d \in Group(c, car), link'[p][d] # None, <<p, d>> \notin past.lost,
               <<p, d>> \notin h.gone
        PROVE  Tells(d, kept, link'[p][d].seen, <<p, d>> \in past'.quiet)
    <3>1. d \in Cars /\ d # c /\ link'[p][d] = link[p][d]
        BY <1>1, <1>3, <2>4
    <3>2. Tells(d, told[p][d], link[p][d].seen, <<p, d>> \in past.quiet)
        BY <1>1, <1>5, <2>8, <3>1
    <3>3. CASE kept = told[p][d]
      <4>1. <<p, d>> \in past.quiet => <<p, d>> \in past'.quiet
          BY <1>2
      <4> QED  BY <3>1, <3>2, <3>3, <4>1 DEF Tells
    <3>4. CASE kept.car = c
      <4>1. link[p][d].seen.status = "SOLD" => kept.change = "SOLD"
          BY <2>2, <3>2 DEF Tells
      <4>2. kept.car # d /\ Vehicle[kept.car] = Vehicle[d] /\ Vehicle[d] # None
          BY <2>4, <3>1, <3>4
      <4> QED  BY <3>1, <4>1, <4>2 DEF Tells
    <3> QED  BY <2>2, <3>3, <3>4
  <2>9. ToldInv'
    <3> SUFFICES ASSUME NEW q \in Projects, NEW d \in Cars,
                        link'[q][d] # None, <<q, d>> \notin past.lost
                 PROVE  /\ told'[q][d] # None
                        /\ <<q, d>> \notin h.gone =>
                              Tells(d, told'[q][d], link'[q][d].seen, <<q, d>> \in past'.quiet)
        BY <1>6, Zenon
    <3>1. CASE q = p /\ d = c
      <4>1. told'[q][d] = kept /\ link'[q][d].seen = car
          BY <1>1, <1>3, <2>2, <3>1
      <4> QED  BY <2>3, <2>7, <3>1, <4>1, Zenon
    <3>2. CASE q = p /\ d \in Group(c, car) /\ d # c
      <4>1. told'[q][d] = kept
          BY <2>2, <3>2
      <4> QED  BY <2>3, <2>8, <3>2, <4>1, Zenon
    <3>3. CASE ~(q = p /\ d \in Group(c, car) \cup {c})
      <4>1. told'[q][d] = told[q][d]
          BY <2>2, <3>3
      <4> QED  BY <1>7, <3>3, <4>1
    <3> QED  BY <3>1, <3>2, <3>3
  <2>10. ItemInv'
    <3>1. \A d \in Cars : told'[p][d] = IF d \in Group(c, car) \cup {c} THEN kept ELSE told[p][d]
        BY <1>1, <2>2
    <3>2. Group(c, car) = {d \in scan.reported : Keys[d] = ReportKey(c, car)}
        BY DEF Group
    <3>3. Items(scan.reported \cup {c}, Keys', told'[p])
      <4>k. PICK k, key, key2, item, item2, reported, group :
              /\ k = ReportKey(c, car) /\ key = Keys /\ key2 = Keys'
              /\ item = told[p] /\ item2 = told'[p]
              /\ reported = scan.reported /\ group = Group(c, car)
          OBVIOUS
      <4> DEFINE joined == group \cup {c}
                 all == reported \cup {c}
      <4>1. /\ reported \in SUBSET Cars /\ c \in Cars /\ c \notin reported
            /\ Items(reported, key, item) /\ group = {d \in reported : key[d] = k}
            /\ \A d \in Cars : key2[d] = IF d = c THEN k ELSE key[d]
            /\ \A d \in Cars : item2[d] = IF d \in joined THEN kept ELSE item[d]
            /\ kept # None /\ kept.car \in joined
          BY <1>1, <1>4, <1>8, <1>9, <2>3, <2>5, <3>1, <3>2, <4>k
      <4>2. /\ joined \subseteq all /\ all \subseteq Cars
            /\ \A d \in joined : key2[d] = k /\ item2[d] = kept
            /\ \A d \in all \ joined :
                  d \in reported /\ key2[d] = key[d] /\ key[d] # k /\ item2[d] = item[d]
          BY <4>1
      <4>3. ASSUME NEW d \in all
            PROVE  item2[d] # None /\ item2[d].car \in all /\ key2[item2[d].car] = key2[d]
        <5>1. CASE d \in joined
            BY <4>1, <4>2, <5>1
        <5>2. CASE d \notin joined
          <6>1. item[d] # None /\ item[d].car \in reported /\ key[item[d].car] = key[d]
              BY <4>1, <4>2, <5>2 DEF Items
          <6>2. item[d].car \in Cars /\ item[d].car # c /\ key2[item[d].car] = key[item[d].car]
              BY <4>1, <6>1
          <6> QED  BY <4>2, <5>2, <6>1, <6>2
        <5> QED  BY <5>1, <5>2
      <4>4. ASSUME NEW d \in all, NEW e \in all, key2[d] = key2[e]
            PROVE  item2[d] = item2[e]
        <5>1. CASE d \in joined \/ e \in joined
          <6>1. d \in joined /\ e \in joined
              BY <4>2, <4>4, <5>1
          <6> QED  BY <4>2, <6>1
        <5>2. CASE d \notin joined /\ e \notin joined
            BY <4>1, <4>2, <4>4, <5>2 DEF Items
        <5> QED  BY <5>1, <5>2
      <4>5. Items(all, key2, item2)
        <5> HIDE DEF all
        <5> QED  BY <4>3, <4>4 DEF Items
      <4> QED  BY <4>k, <4>5
    <3> QED  BY <1>4, <2>1, <3>3, Zenon DEF ItemInv
  <2> QED  BY <1>10, <2>9, <2>10
<1> QED  BY <1>12, <1>13

\* What an observation keeps; its tasks and its progress are left to the step.
LEMMA ObservedFrame ==
    ASSUME ObsInv, NEW p, NEW c, NEW car, NEW markFound, NEW previous, NEW rest, NEW h,
           Observing(p, c, car, markFound, previous, rest, h)
    PROVE  /\ TypeInv' /\ SoldInv' /\ BaseInv' /\ PriceInv' /\ ToldInv' /\ ListedIsNeverMissing'
           /\ ItemInv'
           /\ OfProject' /\ scan' \notin CarScans
           /\ \A q \in Projects : Kept(q)' = Kept(q)
           /\ Followed(p)' \subseteq Followed(p) \cup (IF link[p][c] = None THEN {c} ELSE {})
           /\ \A d, rev : Position(d, rev)' = Position(d, rev)
           /\ \A t \in Tasks : t.car # c => Current(t, p)' = Current(t, p)
<1>0. TypeInv /\ TaskInv /\ SoldInv /\ SearchInv /\ BaseInv /\ PriceInv /\ ToldInv /\ ListedIsNeverMissing /\ ReportInv
    BY DEF ObsInv
<1>1. /\ cars' \in [Cars -> CarStates \cup {None}]
      /\ \A d \in Cars : cars'[d] = IF d = c THEN car ELSE cars[d]
      /\ link' \in [Projects -> [Cars -> Links \cup {None}]]
      /\ \A q \in Projects, d \in Cars :
            IF q = p /\ d = c
            THEN /\ link'[q][d] # None /\ link'[q][d].seen = car
                 /\ link'[q][d].tracked => link[q][d] = None \/ link[q][d].tracked
                 /\ link'[q][d].search = "NOT_FOUND_IN_SEARCH" =>
                        link[q][d] # None /\ link[q][d].search = "NOT_FOUND_IN_SEARCH"
            ELSE link'[q][d] = link[q][d]
    BY <1>0, ObservedRows
<1>2. /\ past' \in Pasts /\ past'.changes = past.changes
      /\ past'.real = past.real /\ past'.out = past.out /\ past'.full = past.full
      /\ past'.sold = h.sold /\ past.sold \subseteq past'.sold
  <2>1. past.sold \subseteq h.sold
      BY DEF Observing
  <2> QED  BY <2>1, ObservedHistory
<1>3. ToldInv' /\ ItemInv' /\ told' \in [Projects -> [Cars -> Reports \cup {None}]]
    BY <1>0, ObservedTold DEF ReportInv
<1>4. /\ scan \in ProjectScans /\ scan' \in ProjectScans /\ OfProject /\ OfProject'
      /\ scan' \notin CarScans
      /\ scan.project = p /\ scan'.project = p /\ p \in Projects /\ c \in Cars /\ car \in CarStates
      /\ scan'.rev = scan.rev /\ scan'.baseline = scan.baseline /\ scan'.sold \subseteq h.sold
      /\ car.status = "SOLD" => c \in h.sold
      /\ market' = market /\ project' = project
  <2>1. /\ scan' \in ProjectScans /\ scan'.project = p /\ scan'.sold = rest.sold
        /\ scan'.rev = scan.rev /\ scan'.baseline = scan.baseline
      BY ObservedScan
  <2> QED  BY <2>1, Shapes, Zenon DEF Observing, OfProject
<1>5. TypeInv'
  <2>1. \A q \in Projects, d \in Cars : link'[q][d] # None => cars'[d] # None
    <3>1. car # None
        BY <1>4, ListingAssumption
    <3> QED  BY <1>0, <1>1, <3>1, RowTypes
  <2>2. TypeOK'
      BY <1>0, <1>1, <1>3, <1>4, <2>1, Zenon DEF TypeInv, TypeOK
  <2> QED  BY <1>0, <1>2, <1>4, <2>2, Zenon DEF TypeInv
<1>6. SoldInv'
  <2> SUFFICES ASSUME NEW d \in Cars, cars'[d] # None, cars'[d].status = "SOLD"
               PROVE  d \in past'.sold
      BY <1>2, <1>4, Zenon DEF SoldInv, SoldWasRead
  <2>1. CASE d = c
      BY <1>1, <1>2, <1>4, <2>1
  <2>2. CASE d # c
      BY <1>0, <1>1, <1>2, <2>2 DEF SoldInv, SoldWasRead
  <2> QED  BY <2>1, <2>2
<1>7. BaseInv' /\ PriceInv'
    BY <1>0, <1>2, <1>4, Zenon DEF BaseInv, PriceInv
<1>8. ListedIsNeverMissing'
  <2> SUFFICES ASSUME NEW q \in Projects, NEW d \in Cars, link'[q][d] # None,
                      link'[q][d].search = "NOT_FOUND_IN_SEARCH"
               PROVE  d \in past.out[q] \cup past.sold
      BY <1>2, Zenon DEF ListedIsNeverMissing
  <2>1. link[q][d] # None /\ link[q][d].search = "NOT_FOUND_IN_SEARCH"
      BY <1>1
  <2> QED  BY <1>0, <2>1 DEF ListedIsNeverMissing
<1>9. \A q \in Projects : Kept(q)' = Kept(q)
    BY <1>2 DEF Kept
<1>10. Followed(p)' \subseteq Followed(p) \cup (IF link[p][c] = None THEN {c} ELSE {})
  <2> SUFFICES ASSUME NEW d \in Followed(p)', d # c \/ link[p][c] # None PROVE d \in Followed(p)
      OBVIOUS
  <2>1. d \in Kept(p) /\ d \in Cars /\ d \notin past'.sold /\ link'[p][d] # None /\ link'[p][d].tracked
      BY <1>4, <1>9 DEF Followed, Kept
  <2>2. link[p][d] # None /\ link[p][d].tracked
      BY <1>1, <1>4, <2>1
  <2> QED  BY <1>2, <2>1, <2>2 DEF Followed
<1>11. \A d, rev : Position(d, rev)' = Position(d, rev)
    BY <1>4, Zenon DEF Position
<1>12. ASSUME NEW t \in Tasks, t.car # c PROVE Current(t, p)' = Current(t, p)
  <2>1. t.car \in Cars
      BY TaskFields
  <2>2. cars'[t.car] = cars[t.car] /\ link'[p][t.car] = link[p][t.car]
      BY <1>1, <1>4, <1>12, <2>1
  <2> QED  BY <2>2, Zenon DEF Current
<1> QED  BY <1>3, <1>4, <1>5, <1>6, <1>7, <1>8, <1>9, <1>10, <1>11, <1>12

----------------------------------------------------------------------------
(* The rows of the search *)

LEMMA ProcessRowStep == ObsInv /\ ProcessRow => ObsInv'
<1> SUFFICES ASSUME ObsInv, ProcessRow PROVE ObsInv'
    OBVIOUS
<1>0. TypeInv /\ TaskInv /\ SoldInv /\ SearchInv /\ FreshInv
    BY DEF ObsInv, ReportInv
<1>1. scan # None /\ scan.phase = "rows" /\ scan.rows # {} /\ market' = market /\ project' = project
    BY DEF ProcessRow
<1>2. /\ OfProject /\ scan \in ProjectScans /\ scan.project \in Projects /\ scan.rows \in SUBSET Cars
      /\ scan.found \in SUBSET Cars /\ scan.tasks \in SUBSET Tasks
    BY <1>0, <1>1, ScanTypes, Shapes DEF OfProject
<1>p. PICK p \in Projects : p = scan.project
    BY <1>2
<1>c. PICK c \in scan.rows : c = Min(scan.rows)
  <2>1. scan.rows \in SUBSET Nat
      BY <1>2, ListingAssumption
  <2> QED  BY <1>1, <2>1, MinIsMember
<1> DEFINE found == IF cars[c] = None THEN scan.found ELSE scan.found \cup {c}
           rest == [scan EXCEPT !.rows = @ \ {c}, !.found = IF cars[c] = None THEN @ ELSE @ \cup {c}]
<1>3. PICK listPrice \in Prices \cup {0} :
        \/ /\ Skipped(p, c)
           /\ scan' = [scan EXCEPT !.rows = @ \ {c}]
           /\ UNCHANGED <<cars, link, told, past>>
        \/ /\ ~Skipped(p, c) /\ DetailReadKind(c, listPrice) # None
           /\ scan' = [rest EXCEPT !.tasks = @ \cup {Task(p, c, DetailReadKind(c, listPrice), TRUE)}]
           /\ UNCHANGED <<cars, link, told, past>>
        \/ /\ ~Skipped(p, c) /\ DetailReadKind(c, listPrice) = None
           /\ Observe(p, c, cars[c], TRUE, PreviousState(link[p][c]), rest, past)
    BY <1>p, <1>c, Zenon DEF ProcessRow
<1>4. c \in Cars
    BY <1>2
<1> DEFINE kind == DetailReadKind(c, listPrice)
<1>5. /\ kind \in {"FULL", "PRICE_STATUS", None}
      /\ kind = None => cars[c] # None
    BY ListingAssumption, SMT DEF DetailReadKind
<1>6. found \in SUBSET Cars /\ scan.found \subseteq found
    BY <1>2, <1>p, <1>4
<1>7. /\ rest \in ProjectScans /\ rest.phase = "rows" /\ rest.rows = scan.rows \ {c}
      /\ rest.found = found /\ rest.tasks = scan.tasks /\ rest.all = scan.all
      /\ rest.project = p /\ rest.rev = scan.rev /\ rest.baseline = scan.baseline
      /\ rest.sold = scan.sold /\ rest.reported = scan.reported
  <2>1. rest = [scan EXCEPT !.rows = scan.rows \ {c}, !.found = found]
    <3>1. CASE cars[c] = None
        BY <1>2, <1>p, <3>1, SMT DEF ProjectScans
    <3>2. CASE cars[c] # None
        BY <1>2, <1>p, <3>2, SMT DEF ProjectScans
    <3> QED  BY <3>1, <3>2
  <2> HIDE DEF found, rest
  <2>2. scan.rows \ {c} \in SUBSET Cars
      BY <1>2, <1>p
  <2>3. rest \in ProjectScans
      BY <1>2, <1>p, <1>6, <2>1, <2>2, Zenon DEF ProjectScans
  <2> QED  BY <1>1, <1>2, <1>p, <2>1, <2>3, SMT DEF ProjectScans
<1>8. /\ \A t \in scan.tasks : /\ Current(t, p) /\ t.car # c /\ t.car \notin scan.rows /\ t.found
                               /\ cars[t.car] = None \/ t.car \in scan.found
      /\ \A s, t \in scan.tasks : s.car = t.car => s = t
    BY <1>0, <1>1, <1>2, <1>p, <1>4 DEF TaskInv
<1>9. /\ \A q \in Projects : Kept(q) \subseteq Results(market, project[q].rev)
      /\ Kept(p) \subseteq Matches(scan.rev)
      /\ scan.all => Followed(p) \subseteq scan.found \cup scan.rows
    BY <1>0, <1>1, <1>2, <1>p, Zenon DEF SearchInv
<1>f. /\ \A t \in scan.tasks : t.car \notin scan.reported
      /\ \A d \in scan.rows : d \notin scan.reported
      /\ scan.reported \subseteq scan.found
    BY <1>0, <1>1, <1>2 DEF FreshInv
<1>10. CASE Skipped(p, c) /\ scan' = [scan EXCEPT !.rows = @ \ {c}] /\ UNCHANGED <<cars, link, told, past>>
  <2>1. /\ scan' \in ProjectScans /\ scan'.phase = "rows" /\ scan'.rows = scan.rows \ {c}
        /\ scan'.found = scan.found /\ scan'.tasks = scan.tasks /\ scan'.all = scan.all
        /\ scan'.project = p /\ scan'.rev = scan.rev /\ scan'.baseline = scan.baseline
        /\ scan'.sold = scan.sold /\ scan'.reported = scan.reported
    <3>1. scan.rows \ {c} \in SUBSET Cars
        BY <1>2, <1>p
    <3>2. scan' \in ProjectScans
        BY <1>2, <1>p, <1>10, <3>1, Zenon DEF ProjectScans
    <3> QED  BY <1>1, <1>2, <1>p, <1>10, <3>2, SMT DEF ProjectScans
  <2>2. /\ TypeInv' /\ SoldInv' /\ BaseInv' /\ PriceInv' /\ ToldInv' /\ ListedIsNeverMissing' /\ ItemInv'
        /\ OfProject' /\ scan' \notin CarScans
        /\ \A q \in Projects : Kept(q)' \subseteq Kept(q) /\ Followed(q)' \subseteq Followed(q)
        /\ \A t, q : Current(t, q)' = Current(t, q)
      BY <1>0, <1>1, <1>2, <1>p, <1>10, <2>1, SamePast, ScanFrame
  <2>3. TaskInv'
    <3>1. \A t \in scan'.tasks : /\ Current(t, p)' /\ t.car \notin scan'.rows
                                 /\ cars'[t.car] = None \/ t.car \in scan'.found
        BY <1>8, <1>10, <2>1, <2>2
    <3> QED  BY <1>8, <2>1, <2>2, <3>1, Zenon DEF TaskInv
  <2>4. c \notin Followed(p)
      BY <1>0, <1>4, <1>10 DEF Skipped, Followed, SoldInv, SoldWasRead
  <2>5. SearchInv'
    <3>1. scan'.all => Followed(p)' \subseteq scan'.found \cup scan'.rows
        BY <1>2, <1>p, <1>9, <2>1, <2>2, <2>4
    <3>2. /\ \A q \in Projects : Kept(q)' \subseteq Results(market', project'[q].rev)
          /\ Kept(p)' \subseteq Matches(scan'.rev)
        BY <1>1, <1>2, <1>p, <1>9, <2>1, <2>2
    <3> QED  BY <1>2, <1>p, <2>1, <3>1, <3>2, Zenon DEF SearchInv
  <2>6. FreshInv'
      BY <1>f, <2>1, Zenon DEF FreshInv
  <2> QED  BY <2>2, <2>3, <2>5, <2>6 DEF ObsInv, ReportInv
<1>11. CASE /\ ~Skipped(p, c) /\ kind # None
            /\ scan' = [rest EXCEPT !.tasks = @ \cup {Task(p, c, kind, TRUE)}]
            /\ UNCHANGED <<cars, link, told, past>>
  <2>1. PICK task \in Tasks :
            /\ task = Task(p, c, kind, TRUE)
            /\ task.car = c /\ task.found = TRUE /\ Current(task, p)
      BY <1>0, <1>2, <1>p, <1>4, <1>5, <1>11, NewTask
  <2>2. scan' = [rest EXCEPT !.tasks = @ \cup {task}]
      BY <1>11, <2>1
  <2> HIDE DEF rest
  <2>3. /\ scan' \in ProjectScans /\ scan'.phase = "rows" /\ scan'.rows = scan.rows \ {c}
        /\ scan'.found = found /\ scan'.tasks = scan.tasks \cup {task} /\ scan'.all = scan.all
        /\ scan'.project = p /\ scan'.rev = scan.rev /\ scan'.baseline = scan.baseline
        /\ scan'.sold = scan.sold /\ scan'.reported = scan.reported
    <3>1. scan.tasks \cup {task} \in SUBSET Tasks
        BY <1>2, <1>p, <2>1
    <3>2. scan' = [rest EXCEPT !.tasks = scan.tasks \cup {task}]
        BY <1>7, <2>2
    <3>3. scan' \in ProjectScans
        BY <1>7, <3>1, <3>2, Zenon DEF ProjectScans
    <3> HIDE DEF found
    <3> QED  BY <1>7, <3>2, <3>3, SMT DEF ProjectScans
  <2>4. /\ TypeInv' /\ SoldInv' /\ BaseInv' /\ PriceInv' /\ ToldInv' /\ ListedIsNeverMissing' /\ ItemInv'
        /\ OfProject' /\ scan' \notin CarScans
        /\ \A q \in Projects : Kept(q)' \subseteq Kept(q) /\ Followed(q)' \subseteq Followed(q)
        /\ \A t, q : Current(t, q)' = Current(t, q)
      BY <1>0, <1>1, <1>2, <1>p, <1>11, <2>3, SamePast, ScanFrame
  <2>5. TaskInv'
    <3>1. ASSUME NEW t \in scan'.tasks
          PROVE  /\ Current(t, p)' /\ t.car \notin scan'.rows /\ t.found
                 /\ cars'[t.car] = None \/ t.car \in scan'.found
      <4>1. CASE t \in scan.tasks
          BY <1>6, <1>8, <1>11, <2>3, <2>4, <4>1
      <4>2. CASE t = task
        <5>1. cars'[c] = None \/ c \in scan'.found
            BY <1>11, <2>3
        <5> QED  BY <2>1, <2>3, <2>4, <4>2, <5>1
      <4> QED  BY <2>3, <4>1, <4>2
    <3>2. ASSUME NEW s \in scan'.tasks, NEW t \in scan'.tasks, s.car = t.car
          PROVE  s = t
      <4>1. s \in scan.tasks \/ s = task
          BY <2>3
      <4>2. t \in scan.tasks \/ t = task
          BY <2>3
      <4> QED  BY <1>8, <2>1, <3>2, <4>1, <4>2
    <3> QED  BY <2>3, <2>4, <3>1, <3>2, Zenon DEF TaskInv
  <2>6. c \in Followed(p) => c \in found
    <3>1. link[p][c] # None => cars[c] # None
        BY <1>0, <1>2, <1>p, <1>4, RowTypes
    <3> QED  BY <3>1 DEF Followed
  <2>7. SearchInv'
    <3>1. scan'.all => Followed(p)' \subseteq scan'.found \cup scan'.rows
        BY <1>2, <1>p, <1>6, <1>9, <2>3, <2>4, <2>6
    <3>2. /\ \A q \in Projects : Kept(q)' \subseteq Results(market', project'[q].rev)
          /\ Kept(p)' \subseteq Matches(scan'.rev)
        BY <1>1, <1>2, <1>p, <1>9, <2>3, <2>4
    <3> QED  BY <1>2, <1>p, <2>3, <3>1, <3>2, Zenon DEF SearchInv
  <2>8. FreshInv'
    <3>1. \A t \in scan'.tasks : t.car \notin scan'.reported
        BY <1>f, <2>1, <2>3
    <3>2. scan'.reported \subseteq scan'.found /\ \A d \in scan'.rows : d \notin scan'.reported
        BY <1>6, <1>f, <2>3
    <3> QED  BY <2>3, <3>1, <3>2, Zenon DEF FreshInv
  <2> QED  BY <2>4, <2>5, <2>7, <2>8 DEF ObsInv, ReportInv
<1>12. CASE /\ ~Skipped(p, c) /\ kind = None
            /\ Observe(p, c, cars[c], TRUE, PreviousState(link[p][c]), rest, past)
  <2>1. PICK car \in CarStates : car = cars[c] /\ car.status # "SOLD"
    <3>1. cars[c] \in CarStates \cup {None}
        BY <1>0, <1>4, RowTypes
    <3> QED  BY <1>5, <1>12, <3>1 DEF Skipped
  <2>2. PICK previous \in PreviousStates \cup {None} :
            /\ previous = PreviousState(link[p][c])
            /\ IF link[p][c] = None THEN previous = None
               ELSE previous # None /\ previous.seen = link[p][c].seen
    <3> DEFINE t == Task(p, c, "FULL", TRUE)
    <3>1. t \in Tasks /\ t.car = c /\ Current(t, p)
        BY <1>0, <1>4, NewTask
    <3>2. t.previous = PreviousState(link[p][c])
        BY DEF Task
    <3> HIDE DEF t
    <3> QED  BY <3>1, <3>2, TaskFields DEF Current
  <2>3. past \in Pasts /\ scan.sold \subseteq past.sold
      BY <1>0, <1>2 DEF TypeInv, SoldInv
  <2> HIDE DEF rest
  <2>4. Observe(p, c, car, TRUE, previous, rest, past)
      BY <1>12, <2>1, <2>2
  <2>r. PICK r, h : r = rest /\ h = past
      OBVIOUS
  <2>5. Observing(p, c, car, TRUE, previous, r, h)
      BY <1>1, <1>2, <1>p, <1>4, <1>7, <1>f, <2>1, <2>2, <2>3, <2>4, <2>r, Zenon DEF Observing
  <2>s. /\ scan' \in ProjectScans /\ scan'.phase = "rows" /\ scan'.rows = scan.rows \ {c}
        /\ scan'.found = found /\ scan'.tasks = scan.tasks /\ scan'.all = scan.all
        /\ scan'.project = p /\ scan'.rev = scan.rev
        /\ scan'.reported \subseteq scan.reported \cup {c}
    <3>1. /\ scan' \in ProjectScans /\ scan'.phase = r.phase /\ scan'.project = p
          /\ scan'.all = r.all /\ scan'.rev = scan.rev /\ scan'.baseline = scan.baseline
          /\ scan'.rows = r.rows /\ scan'.found = r.found /\ scan'.tasks = r.tasks
          /\ scan'.sold = r.sold
          /\ scan'.reported \subseteq scan.reported \cup {c}
        BY <2>5, ObservedScan
    <3> QED  BY <1>7, <2>r, <3>1, Zenon
  <2>6. /\ TypeInv' /\ SoldInv' /\ BaseInv' /\ PriceInv' /\ ToldInv' /\ ListedIsNeverMissing' /\ ItemInv'
        /\ OfProject' /\ scan' \notin CarScans
        /\ \A q \in Projects : Kept(q)' = Kept(q)
        /\ Followed(p)' \subseteq Followed(p) \cup {c}
        /\ \A t \in Tasks : t.car # c => Current(t, p)' = Current(t, p)
      BY <2>5, ObservedFrame
  <2>7. scan'.found = scan.found \cup {c}
      BY <2>s, <2>1, ListingAssumption
  <2>8. \A d \in Cars : cars'[d] = cars[d]
    <3>1. cars' = [cars EXCEPT ![c] = car]
        BY <2>4, Zenon DEF Observe
    <3>2. cars \in [Cars -> CarStates \cup {None}]
        BY <1>0 DEF TypeInv, TypeOK
    <3> QED  BY <2>1, <3>1, <3>2
  <2>9. TaskInv'
    <3>1. ASSUME NEW t \in scan'.tasks
          PROVE  /\ Current(t, p)' /\ t.car \notin scan'.rows /\ t.found
                 /\ cars'[t.car] = None \/ t.car \in scan'.found
      <4>1. t \in scan.tasks /\ t \in Tasks /\ t.car \in Cars
          BY <1>2, <2>s, TaskFields
      <4>2. /\ Current(t, p) /\ t.car # c /\ t.car \notin scan.rows /\ t.found
            /\ cars[t.car] = None \/ t.car \in scan.found
          BY <1>8, <4>1
      <4>3. Current(t, p)'
          BY <2>6, <4>1, <4>2
      <4> QED  BY <2>s, <2>7, <2>8, <4>1, <4>2, <4>3
    <3>2. \A s, t \in scan'.tasks : s.car = t.car => s = t
        BY <1>8, <2>s
    <3> QED  BY <2>s, <2>6, <3>1, <3>2, Zenon DEF TaskInv
  <2>10. SearchInv'
    <3>1. scan'.all => Followed(p)' \subseteq scan'.found \cup scan'.rows
        BY <1>9, <2>s, <2>6, <2>7
    <3>2. /\ \A q \in Projects : Kept(q)' \subseteq Results(market', project'[q].rev)
          /\ Kept(p)' \subseteq Matches(scan'.rev)
        BY <1>1, <1>9, <2>s, <2>6
    <3> QED  BY <2>s, <3>1, <3>2, Zenon DEF SearchInv
  <2>11. FreshInv'
    <3>1. \A t \in scan'.tasks : t.car \notin scan'.reported
        BY <1>8, <1>f, <2>s
    <3>2. scan'.reported \subseteq scan'.found /\ \A d \in scan'.rows : d \notin scan'.reported
        BY <1>f, <2>s, <2>7
    <3> QED  BY <2>s, <3>1, <3>2, Zenon DEF FreshInv
  <2> QED  BY <2>6, <2>9, <2>10, <2>11 DEF ObsInv, ReportInv
<1> QED  BY <1>3, <1>10, <1>11, <1>12

----------------------------------------------------------------------------
(* The results of the detail reads *)

\* A result that commits no observation may add to the history and mark a
\* tracked link as found.
LEMMA ReadFrame ==
    ASSUME ObsInv, OfProject, scan' \in ProjectScans,
           scan'.project = scan.project, scan'.rev = scan.rev, scan'.baseline = scan.baseline,
           scan'.sold = scan.sold, scan'.reported = scan.reported,
           UNCHANGED <<market, cars, project, told>>,
           past' \in Pasts, past'.changes = past.changes, past'.real = past.real,
           past'.out = past.out, past'.full = past.full, past'.lost = past.lost,
           past'.quiet = past.quiet, past.sold \subseteq past'.sold, past.gone \subseteq past'.gone,
           link' \in [Projects -> [Cars -> Links \cup {None}]],
           \A q \in Projects, d \in Cars :
              \/ link'[q][d] = link[q][d]
              \/ /\ link[q][d] # None /\ link'[q][d] # None
                 /\ link'[q][d].seen = link[q][d].seen /\ link'[q][d].tracked = link[q][d].tracked
                 /\ link'[q][d].search # "NOT_FOUND_IN_SEARCH"
    PROVE  /\ TypeInv' /\ SoldInv' /\ BaseInv' /\ PriceInv' /\ ToldInv' /\ ListedIsNeverMissing'
           /\ ItemInv'
           /\ OfProject' /\ scan' \notin CarScans
           /\ \A q \in Projects : Kept(q)' = Kept(q) /\ Followed(q)' \subseteq Followed(q)
           /\ \A q \in Projects, d \in Cars : link'[q][d] = None <=> link[q][d] = None
           /\ \A t \in Tasks, q \in Projects : Current(t, q) => Current(t, q)'
<1>0. TypeInv /\ SoldInv /\ BaseInv /\ PriceInv /\ ToldInv /\ ListedIsNeverMissing /\ ReportInv
    BY DEF ObsInv
<1>1. market' = market /\ cars' = cars /\ project' = project /\ told' = told
    OBVIOUS
<1>2. OfProject' /\ scan' \notin CarScans /\ scan.phase # "publish" /\ scan'.phase # "publish"
    BY Shapes, SMT DEF OfProject
<1>3. \A q \in Projects, d \in Cars :
         /\ link'[q][d] = None <=> link[q][d] = None
         /\ link[q][d] # None => /\ link'[q][d].seen = link[q][d].seen
                                 /\ link'[q][d].tracked = link[q][d].tracked
    OBVIOUS
<1>4. TypeInv'
  <2>1. \A q \in Projects, d \in Cars : link'[q][d] # None => cars'[d] # None
      BY <1>0, <1>1, <1>3, RowTypes
  <2>2. TypeOK'
      BY <1>0, <1>1, <2>1, Zenon DEF TypeInv, TypeOK
  <2> QED  BY <1>0, <1>1, <2>2, Zenon DEF TypeInv
<1>5. SoldInv'
  <2>1. scan'.sold \subseteq past'.sold
      BY <1>0 DEF SoldInv
  <2>2. SoldWasRead'
      BY <1>0, <1>1 DEF SoldInv, SoldWasRead
  <2> QED  BY <2>1, <2>2 DEF SoldInv
<1>6. BaseInv' /\ PriceInv'
    BY <1>0, <1>1, <1>2, Zenon DEF BaseInv, PriceInv
<1>7. ToldInv'
  <2>1. past'.lost = past.lost /\ past'.quiet = past.quiet
      OBVIOUS
  <2>2. \A q \in Projects, d \in Cars :
            link'[q][d] # None => link[q][d] # None /\ Remembered(q, d)' = Remembered(q, d)
      BY <1>2, <1>3, SMT DEF Remembered, Publishing
  <2>3. \A q \in Projects, d \in Cars : <<q, d>> \in past.gone => <<q, d>> \in past'.gone
      OBVIOUS
  <2> QED  BY <1>0, <1>1, <2>1, <2>2, <2>3, SMT DEF ToldInv
<1>8. ListedIsNeverMissing'
  <2> SUFFICES ASSUME NEW q \in Projects, NEW d \in Cars, link'[q][d] # None,
                      link'[q][d].search = "NOT_FOUND_IN_SEARCH"
               PROVE  d \in past.out[q] \cup past'.sold
      BY Zenon DEF ListedIsNeverMissing
  <2>1. link'[q][d] = link[q][d]
      OBVIOUS
  <2> QED  BY <1>0, <2>1 DEF ListedIsNeverMissing
<1>9. \A q \in Projects : Kept(q)' = Kept(q)
    BY DEF Kept
<1>10. ASSUME NEW q \in Projects PROVE Followed(q)' \subseteq Followed(q)
    BY <1>3, <1>9 DEF Followed, Kept
<1>11. ASSUME NEW t \in Tasks, NEW q \in Projects, Current(t, q) PROVE Current(t, q)'
  <2>1. t.car \in Cars
      BY TaskFields
  <2>2. link'[q][t.car] = None <=> link[q][t.car] = None
      BY <1>3, <2>1
  <2>3. link[q][t.car] # None => link'[q][t.car].seen = link[q][t.car].seen
      BY <1>3, <2>1
  <2> QED  BY <1>1, <1>11, <2>2, <2>3, Zenon DEF Current
<1>12. ItemInv'
  <2>1. Items(scan.reported, Keys, told[scan.project])
      BY <1>0 DEF ReportInv, ItemInv
  <2>2. Keys' = Keys
      BY <1>1, Zenon DEF Keys
  <2> QED  BY <1>1, <2>1, <2>2, Zenon DEF ItemInv
<1> QED  BY <1>12, <1>2, <1>3, <1>4, <1>5, <1>6, <1>7, <1>8, <1>9, <1>10, <1>11

\* The history after the page of a car was read.
ReadHistory(p, c, detail) ==
    IF detail # Sold THEN past
    ELSE [past EXCEPT !.sold = @ \cup {c},
            !.gone = IF link[p][c] = None THEN @ \cup {<<p, c>>} ELSE @]

LEMMA ReadHistoryFields ==
    ASSUME past \in Pasts, NEW p \in Projects, NEW c \in Cars, NEW detail
    PROVE  LET h == ReadHistory(p, c, detail)
           IN  /\ h \in Pasts /\ h.changes = past.changes /\ h.real = past.real /\ h.out = past.out
               /\ h.full = past.full /\ h.lost = past.lost /\ h.quiet = past.quiet
               /\ past.sold \subseteq h.sold /\ past.gone \subseteq h.gone
               /\ detail = Sold => c \in h.sold /\ (link[p][c] = None => <<p, c>> \in h.gone)
<1> DEFINE h == ReadHistory(p, c, detail)
<1>1. CASE detail # Sold
    BY <1>1 DEF ReadHistory
<1>2. CASE detail = Sold
  <2> DEFINE sold == past.sold \cup {c}
             gone == IF link[p][c] = None THEN past.gone \cup {<<p, c>>} ELSE past.gone
  <2>1. h = [past EXCEPT !.sold = sold, !.gone = gone]
    <3>1. CASE link[p][c] = None
        BY <1>2, <3>1, SMT DEF ReadHistory, Pasts
    <3>2. CASE link[p][c] # None
        BY <1>2, <3>2, SMT DEF ReadHistory, Pasts
    <3> QED  BY <3>1, <3>2
  <2>2. /\ sold \in SUBSET Cars /\ gone \in SUBSET (Projects \X Cars)
        /\ past.sold \subseteq sold /\ past.gone \subseteq gone /\ c \in sold
        /\ link[p][c] = None => <<p, c>> \in gone
      BY PastFields, SMT
  <2> HIDE DEF sold, gone, h
  <2>3. h \in Pasts
      BY <2>1, <2>2, Zenon DEF Pasts
  <2>4. /\ h.changes = past.changes /\ h.real = past.real /\ h.out = past.out
        /\ h.full = past.full /\ h.lost = past.lost /\ h.quiet = past.quiet
        /\ h.sold = sold /\ h.gone = gone
      BY <2>1, SMT DEF Pasts
  <2> QED  BY <2>2, <2>3, <2>4 DEF h
<1> QED  BY <1>1, <1>2

\* The three outcomes of a result: not read, no longer tracked, applied.
LEMMA DetailOutcomes ==
    ASSUME ApplyDetail
    PROVE  \E task \in scan.tasks :
             \E detail \in ReadVerifiedDetail(task.car, task.kind, task.known) \cup {Unread} :
               LET p    == scan.project
                   c    == task.car
                   rest == [scan EXCEPT !.tasks = @ \ {task}]
               IN \/ /\ scan' = rest
                     /\ link' = IF task.found /\ link[p][c] # None /\ link[p][c].tracked
                                THEN [link EXCEPT ![p][c].search = "FOUND"] ELSE link
                     /\ UNCHANGED <<cars, told, past>>
                  \/ /\ scan' = rest /\ past' = ReadHistory(p, c, detail)
                     /\ UNCHANGED <<cars, link, told>>
                  \/ Observe(p, c, UpsertCar(cars[c], detail), task.found, task.previous,
                             [rest EXCEPT !.sold = IF detail.sold THEN @ \cup {c} ELSE @,
                                          !.found = IF task.found THEN @ \cup {c} ELSE @],
                             ReadHistory(p, c, detail))
    BY Zenon DEF ApplyDetail, ReadHistory

LEMMA ApplyDetailStep == ObsInv /\ ApplyDetail => ObsInv'
<1> SUFFICES ASSUME ObsInv, ApplyDetail PROVE ObsInv'
    OBVIOUS
<1>0. TypeInv /\ TaskInv /\ SoldInv /\ SearchInv /\ FreshInv
    BY DEF ObsInv, ReportInv
<1>1. scan # None /\ scan.phase = "details" /\ market' = market /\ project' = project
    BY DEF ApplyDetail
<1>2. /\ OfProject /\ scan \in ProjectScans /\ scan.project \in Projects
      /\ scan.found \in SUBSET Cars /\ scan.sold \in SUBSET Cars /\ scan.tasks \in SUBSET Tasks
      /\ past \in Pasts
    BY <1>0, <1>1, ScanTypes, Shapes DEF OfProject
<1>p. PICK p \in Projects : p = scan.project
    BY <1>2
<1> DEFINE Outcome(task, detail) ==
        LET c    == task.car
            rest == [scan EXCEPT !.tasks = @ \ {task}]
        IN \/ /\ scan' = rest
              /\ link' = IF task.found /\ link[p][c] # None /\ link[p][c].tracked
                         THEN [link EXCEPT ![p][c].search = "FOUND"] ELSE link
              /\ UNCHANGED <<cars, told, past>>
           \/ /\ scan' = rest /\ past' = ReadHistory(p, c, detail)
              /\ UNCHANGED <<cars, link, told>>
           \/ Observe(p, c, UpsertCar(cars[c], detail), task.found, task.previous,
                      [rest EXCEPT !.sold = IF detail.sold THEN @ \cup {c} ELSE @,
                                   !.found = IF task.found THEN @ \cup {c} ELSE @],
                      ReadHistory(p, c, detail))
<1>t. PICK task \in scan.tasks :
        \E detail \in ReadVerifiedDetail(task.car, task.kind, task.known) \cup {Unread} :
            Outcome(task, detail)
    BY <1>p, DetailOutcomes, Zenon
<1>d. PICK detail \in ReadVerifiedDetail(task.car, task.kind, task.known) \cup {Unread} :
        Outcome(task, detail)
    BY <1>t
<1>c. PICK c \in Cars : c = task.car
    BY <1>2, TaskFields
<1> DEFINE rest == [scan EXCEPT !.tasks = @ \ {task}]
<1>3. task \in Tasks /\ task.found \in BOOLEAN /\ task.previous \in PreviousStates \cup {None}
      /\ task.known \in Prices \cup {0}
    BY <1>2, TaskFields
<1>4. /\ rest \in ProjectScans /\ rest.phase = "details" /\ rest.rows = scan.rows
      /\ rest.found = scan.found /\ rest.tasks = scan.tasks \ {task} /\ rest.all = scan.all
      /\ rest.project = p /\ rest.rev = scan.rev /\ rest.baseline = scan.baseline
      /\ rest.sold = scan.sold /\ rest.reported = scan.reported
  <2>1. scan.tasks \ {task} \in SUBSET Tasks
      BY <1>2
  <2>2. rest \in ProjectScans
      BY <1>2, <2>1, Zenon DEF ProjectScans
  <2> QED  BY <1>1, <1>2, <1>p, <2>2, SMT DEF ProjectScans
<1>5. /\ \A t \in scan.tasks :
            /\ Current(t, p) /\ t.car \notin scan.rows
            /\ IF t.found THEN cars[t.car] = None \/ t.car \in scan.found
               ELSE link[p][t.car] # None
      /\ \A s, t \in scan.tasks : s.car = t.car => s = t
    BY <1>0, <1>2, <1>p DEF TaskInv
<1>f. /\ \A t \in scan.tasks : t.car \notin scan.reported
      /\ \A d \in scan.rows : d \notin scan.reported
    BY <1>0, <1>2 DEF FreshInv
<1>6. /\ \A q \in Projects : Kept(q) \subseteq Results(market, project[q].rev)
      /\ Kept(p) \subseteq Matches(scan.rev)
      /\ scan.all => Followed(p) \subseteq scan.found
    BY <1>0, <1>1, <1>2, <1>p, Zenon DEF SearchInv
<1>7. ASSUME scan' = rest, UNCHANGED <<cars, told>>,
             past' \in Pasts, past'.changes = past.changes, past'.real = past.real,
             past'.out = past.out, past'.full = past.full, past'.lost = past.lost,
             past'.quiet = past.quiet, past.sold \subseteq past'.sold,
             past.gone \subseteq past'.gone,
             link' \in [Projects -> [Cars -> Links \cup {None}]],
             \A q \in Projects, d \in Cars :
                \/ link'[q][d] = link[q][d]
                \/ /\ link[q][d] # None /\ link'[q][d] # None
                   /\ link'[q][d].seen = link[q][d].seen /\ link'[q][d].tracked = link[q][d].tracked
                   /\ link'[q][d].search # "NOT_FOUND_IN_SEARCH"
      PROVE  ObsInv'
  <2> HIDE DEF rest
  <2>1. /\ TypeInv' /\ SoldInv' /\ BaseInv' /\ PriceInv' /\ ToldInv' /\ ListedIsNeverMissing' /\ ItemInv'
        /\ OfProject' /\ scan' \notin CarScans
        /\ \A q \in Projects : Kept(q)' = Kept(q) /\ Followed(q)' \subseteq Followed(q)
        /\ \A q \in Projects, d \in Cars : link'[q][d] = None <=> link[q][d] = None
        /\ \A t \in Tasks, q \in Projects : Current(t, q) => Current(t, q)'
      BY <1>1, <1>2, <1>p, <1>4, <1>7, ReadFrame
  <2>2. TaskInv'
    <3>1. ASSUME NEW t \in scan'.tasks
          PROVE  /\ Current(t, p)' /\ t.car \notin scan'.rows
                 /\ IF t.found THEN cars'[t.car] = None \/ t.car \in scan'.found
                    ELSE link'[p][t.car] # None
      <4>1. t \in scan.tasks /\ t \in Tasks /\ t.car \in Cars
          BY <1>2, <1>4, <1>7, TaskFields
      <4>2. /\ Current(t, p) /\ t.car \notin scan.rows
            /\ IF t.found THEN cars[t.car] = None \/ t.car \in scan.found
               ELSE link[p][t.car] # None
          BY <1>5, <4>1
      <4>3. Current(t, p)'
          BY <2>1, <4>1, <4>2
      <4> QED  BY <1>4, <1>7, <2>1, <4>1, <4>2, <4>3
    <3>2. \A s, t \in scan'.tasks : s.car = t.car => s = t
        BY <1>4, <1>5, <1>7
    <3> QED  BY <1>4, <1>7, <2>1, <3>1, <3>2, Zenon DEF TaskInv
  <2>3. SearchInv'
    <3>1. scan'.all => Followed(p)' \subseteq scan'.found
        BY <1>4, <1>6, <1>7, <2>1
    <3>2. /\ \A q \in Projects : Kept(q)' \subseteq Results(market', project'[q].rev)
          /\ Kept(p)' \subseteq Matches(scan'.rev)
        BY <1>1, <1>4, <1>6, <1>7, <2>1
    <3> QED  BY <1>4, <1>7, <3>1, <3>2, Zenon DEF SearchInv
  <2>4. FreshInv'
    <3>1. \A t \in scan'.tasks : t.car \notin scan'.reported
        BY <1>4, <1>7, <1>f
    <3> QED  BY <1>4, <1>7, <1>f, <3>1, Zenon DEF FreshInv
  <2> QED  BY <2>1, <2>2, <2>3, <2>4 DEF ObsInv, ReportInv
<1>8. link \in [Projects -> [Cars -> Links \cup {None}]] /\ cars[c] \in CarStates \cup {None}
    BY <1>0 DEF TypeInv, TypeOK
<1>9. CASE /\ scan' = rest
           /\ link' = IF task.found /\ link[p][c] # None /\ link[p][c].tracked
                      THEN [link EXCEPT ![p][c].search = "FOUND"] ELSE link
           /\ UNCHANGED <<cars, told, past>>
  <2>1. CASE link' = link
      BY <1>2, <1>7, <1>8, <1>9, <2>1
  <2>2. CASE link[p][c] # None /\ link' = [link EXCEPT ![p][c].search = "FOUND"]
    <3> DEFINE new == [link[p][c] EXCEPT !.search = "FOUND"]
    <3>1. link[p][c] \in Links
        BY <1>8, <2>2
    <3>2. new \in Links
      <4>1. "FOUND" \in SearchStates
          BY DEF SearchStates
      <4> QED  BY <3>1, <4>1, Zenon DEF Links
    <3>3. new.seen = link[p][c].seen /\ new.tracked = link[p][c].tracked /\ new.search = "FOUND"
        BY <3>1, SMT DEF Links
    <3>4. new # None
        BY <3>2, ListingAssumption, Zenon
    <3>5. link' = [link EXCEPT ![p] = [link[p] EXCEPT ![c] = new]]
        BY <2>2, Zenon
    <3> HIDE DEF new
    <3>6. /\ link' \in [Projects -> [Cars -> Links \cup {None}]]
          /\ \A q \in Projects, d \in Cars :
                link'[q][d] = IF q = p /\ d = c THEN new ELSE link[q][d]
        BY <1>8, <3>2, <3>5, SMT
    <3>7. \A q \in Projects, d \in Cars :
                \/ link'[q][d] = link[q][d]
                \/ /\ link[q][d] # None /\ link'[q][d] # None
                   /\ link'[q][d].seen = link[q][d].seen /\ link'[q][d].tracked = link[q][d].tracked
                   /\ link'[q][d].search # "NOT_FOUND_IN_SEARCH"
        BY <2>2, <3>3, <3>4, <3>6
    <3> QED  BY <1>2, <1>7, <1>9, <3>6, <3>7
  <2> QED  BY <1>9, <2>1, <2>2
<1> DEFINE h == ReadHistory(p, c, detail)
<1>10. /\ h \in Pasts /\ h.changes = past.changes /\ h.real = past.real /\ h.out = past.out
       /\ h.full = past.full /\ h.lost = past.lost /\ h.quiet = past.quiet
       /\ past.sold \subseteq h.sold /\ past.gone \subseteq h.gone
       /\ detail = Sold => c \in h.sold /\ (link[p][c] = None => <<p, c>> \in h.gone)
    BY <1>2, ReadHistoryFields
<1>11. CASE scan' = rest /\ past' = h /\ UNCHANGED <<cars, link, told>>
  <2> HIDE DEF h
  <2> QED  BY <1>7, <1>8, <1>10, <1>11
<1> DEFINE after == [rest EXCEPT !.sold = IF detail.sold THEN @ \cup {c} ELSE @,
                                 !.found = IF task.found THEN @ \cup {c} ELSE @]
<1>12. CASE Observe(p, c, UpsertCar(cars[c], detail), task.found, task.previous, after, h)
  <2>1. /\ detail \in Details
        /\ detail.sold <=> detail = Sold
    <3>1. detail \in ReadVerifiedDetail(c, task.kind, task.known) \cup {Unread}
        BY <1>c
    <3> QED  BY <1>0, <1>3, <3>1, VerifiedRead
  <2>2. PICK car \in CarStates :
            /\ car = UpsertCar(cars[c], detail)
            /\ car.status = "SOLD" <=> detail.sold
      BY <1>8, <2>1, UpsertedCar
  <2> DEFINE sold == IF detail.sold THEN scan.sold \cup {c} ELSE scan.sold
             found == IF task.found THEN scan.found \cup {c} ELSE scan.found
  <2>a. /\ after \in ProjectScans /\ after.phase = "details" /\ after.rows = scan.rows
        /\ after.found = found /\ after.tasks = scan.tasks \ {task} /\ after.all = scan.all
        /\ after.project = p /\ after.rev = scan.rev /\ after.baseline = scan.baseline
        /\ after.sold = sold /\ after.reported = scan.reported
    <3> HIDE DEF rest
    <3>1. after = [rest EXCEPT !.sold = sold, !.found = found]
      <4>1. CASE detail.sold
          BY <1>4, <4>1, SMT DEF ProjectScans
      <4>2. CASE ~detail.sold
          BY <1>4, <4>2, SMT DEF ProjectScans
      <4> QED  BY <4>1, <4>2
    <3>2. sold \in SUBSET Cars /\ found \in SUBSET Cars
        BY <1>2
    <3> HIDE DEF sold, found, after
    <3>3. after \in ProjectScans
        BY <1>4, <3>1, <3>2, Zenon DEF ProjectScans
    <3> QED  BY <1>4, <3>1, <3>3, SMT DEF ProjectScans
  <2>4. sold \subseteq h.sold /\ (detail.sold => detail = Sold)
    <3>1. scan.sold \subseteq past.sold
        BY <1>0, <1>2 DEF SoldInv
    <3> HIDE DEF h
    <3> QED  BY <1>10, <2>1, <3>1
  <2>5. IF link[p][c] = None THEN task.previous = None
        ELSE task.previous # None /\ task.previous.seen = link[p][c].seen
      BY <1>5, <1>c DEF Current
  <2>6. Observe(p, c, car, task.found, task.previous, after, h)
      BY <1>12, <2>2
  <2> HIDE DEF h, rest, after, sold
  <2>7. Observing(p, c, car, task.found, task.previous, after, h)
    <3>1. car.status = "SOLD" => c \in h.sold /\ (link[p][c] = None => <<p, c>> \in h.gone)
        BY <1>10, <2>2, <2>4
    <3>2. c \notin scan.reported
        BY <1>c, <1>f
    <3> QED  BY <1>1, <1>2, <1>p, <1>3, <1>10, <2>a, <2>4, <2>5, <2>6, <3>1, <3>2, Zenon DEF Observing
  <2>8. PICK g, r : r = after /\ Observing(p, c, car, task.found, task.previous, r, g)
      BY <2>7
  <2>3. /\ scan' \in ProjectScans /\ scan'.phase = "details" /\ scan'.rows = scan.rows
        /\ scan'.found = found /\ scan'.tasks = scan.tasks \ {task} /\ scan'.all = scan.all
        /\ scan'.project = p /\ scan'.rev = scan.rev
        /\ scan'.reported \subseteq scan.reported \cup {c}
      BY <2>a, <2>8, ObservedScan
  <2>9. /\ TypeInv' /\ SoldInv' /\ BaseInv' /\ PriceInv' /\ ToldInv' /\ ListedIsNeverMissing' /\ ItemInv'
        /\ OfProject' /\ scan' \notin CarScans
        /\ \A q \in Projects : Kept(q)' = Kept(q)
        /\ Followed(p)' \subseteq Followed(p) \cup (IF link[p][c] = None THEN {c} ELSE {})
        /\ \A t \in Tasks : t.car # c => Current(t, p)' = Current(t, p)
      BY <2>8, ObservedFrame
  <2>10. \A d \in Cars \ {c} : cars'[d] = cars[d] /\ link'[p][d] = link[p][d]
      BY <1>0, <2>8, ObservedRows
  <2>11. TaskInv'
    <3>1. ASSUME NEW t \in scan'.tasks
          PROVE  /\ Current(t, p)' /\ t.car \notin scan'.rows
                 /\ IF t.found THEN cars'[t.car] = None \/ t.car \in scan'.found
                    ELSE link'[p][t.car] # None
      <4>1. t \in scan.tasks /\ t \in Tasks /\ t.car \in Cars /\ t # task
          BY <1>2, <2>3, TaskFields
      <4>2. /\ Current(t, p) /\ t.car \notin scan.rows /\ t.car # c
            /\ IF t.found THEN cars[t.car] = None \/ t.car \in scan.found
               ELSE link[p][t.car] # None
          BY <1>5, <1>c, <4>1
      <4>3. Current(t, p)'
          BY <2>9, <4>1, <4>2
      <4>4. cars'[t.car] = cars[t.car] /\ link'[p][t.car] = link[p][t.car]
          BY <2>10, <4>1, <4>2
      <4>5. scan.found \subseteq scan'.found
          BY <2>3
      <4> QED  BY <2>3, <4>2, <4>3, <4>4, <4>5
    <3>2. \A s, t \in scan'.tasks : s.car = t.car => s = t
        BY <1>5, <2>3
    <3> QED  BY <2>3, <2>9, <3>1, <3>2, Zenon DEF TaskInv
  <2>12. SearchInv'
    <3>1. link[p][c] = None => c \in found
      <4>1. link[p][c] = None => task.found
          BY <1>5, <1>c
      <4> QED  BY <4>1
    <3>2. scan'.all => Followed(p)' \subseteq scan'.found
      <4>1. scan.found \subseteq found
          OBVIOUS
      <4> HIDE DEF found
      <4> QED  BY <1>6, <2>3, <2>9, <3>1, <4>1
    <3>3. /\ \A q \in Projects : Kept(q)' \subseteq Results(market', project'[q].rev)
          /\ Kept(p)' \subseteq Matches(scan'.rev)
        BY <1>1, <1>6, <2>3, <2>9
    <3> QED  BY <2>3, <3>2, <3>3, Zenon DEF SearchInv
  <2>13. FreshInv'
    <3>1. \A t \in scan'.tasks : t.car \notin scan'.reported
        BY <1>5, <1>c, <1>f, <2>3
    <3>2. \A d \in scan'.rows : d \notin scan'.reported
        BY <1>5, <1>c, <1>f, <2>3
    <3> QED  BY <2>3, <3>1, <3>2, Zenon DEF FreshInv
  <2> QED  BY <2>9, <2>11, <2>12, <2>13 DEF ObsInv, ReportInv
<1> QED  BY <1>d, <1>c, <1>9, <1>11, <1>12

----------------------------------------------------------------------------
(* The invariant of the specification *)

LEMMA NextInv == ObsInv /\ [Next]_vars => ObsInv'
<1> SUFFICES ASSUME ObsInv, [Next]_vars PROVE ObsInv'
    OBVIOUS
<1>1. CASE UNCHANGED vars
    BY <1>1, Stutter
<1>2. CASE EncarChanges
    BY <1>2, EncarChangesStep
<1>3. CASE Crash
    BY <1>3, CrashStep
<1>4. ASSUME NEW p \in Projects, StartProject(p) PROVE ObsInv'
    BY <1>4, StartProjectStep
<1>5. ASSUME NEW p \in Projects, UpdateSearchConditions(p) PROVE ObsInv'
    BY <1>5, UpdateConditionsStep
<1>6. ASSUME NEW p \in Projects, NEW c \in Cars, StartCar(p, c) PROVE ObsInv'
    BY <1>6, StartCarStep
<1>7. ASSUME NEW p \in Projects, NEW c \in Cars, RemoveCarFromProject(p, c) PROVE ObsInv'
    BY <1>7, RemoveCarStep
<1>8. CASE FailProject \/ FailCar
    BY <1>8, FailStep
<1>9. CASE CollectSearchPage
    BY <1>9, CollectSearchPageStep
<1>10. CASE ProcessRow
    BY <1>10, ProcessRowStep
<1>11. CASE ProbeMissing
    BY <1>11, ProbeMissingStep
<1>12. CASE ApplyDetail
    BY <1>12, ApplyDetailStep
<1>13. CASE ApplySearchAbsence
    BY <1>13, ApplySearchAbsenceStep
<1>14. CASE FinishProject
    BY <1>14, FinishProjectStep
<1>15. CASE RefreshCar
    BY <1>15, RefreshCarStep
<1>16. CASE PublishCar
    BY <1>16, PublishCarStep
<1> QED  BY <1>1, <1>2, <1>3, <1>4, <1>5, <1>6, <1>7, <1>8, <1>9, <1>10, <1>11, <1>12, <1>13, <1>14, <1>15, <1>16, Zenon DEF Next

LEMMA ObsInvariant == Spec => []ObsInv
<1> QED  BY InitInv, NextInv, PTL DEF Spec

\* The tables and the stored reports keep their types, and no project links a
\* car that the shared table does not hold.
THEOREM ObservationTypeCorrect == Spec => []TypeOK
<1>1. ObsInv => TypeOK
    BY DEF ObsInv, TypeInv
<1> QED  BY <1>1, ObsInvariant, PTL

\* process_job and the refresh write SOLD only after the listing's own page
\* was read as sold, for any number of scans that did not find it.
THEOREM SoldOnlyAfterRead == Spec => []SoldWasRead
<1>1. ObsInv => SoldWasRead
    BY DEF ObsInv, SoldInv
<1> QED  BY <1>1, ObsInvariant, PTL

\* A car that every answer of Encar had to show is never written as missing,
\* for any page size, number of pages and order of edits and scans.
THEOREM ListedStaysFound == Spec => []ListedIsNeverMissing
<1>1. ObsInv => ListedIsNeverMissing
    BY DEF ObsInv
<1> QED  BY <1>1, ObsInvariant, PTL

\* The reports of a project have told what its links remember, whichever
\* projects share the car and wherever their scans stopped.
THEOREM ReportsTellWhatIsRemembered == Spec => []RememberedIsTold
<1>1. ASSUME ObsInv PROVE RememberedIsTold
  <2> SUFFICES ASSUME NEW p \in Projects, NEW c \in Cars, link[p][c] # None,
                      ~Publishing(p, c), <<p, c>> \notin past.lost
               PROVE  /\ told[p][c] # None
                      /\ <<p, c>> \notin past.gone =>
                            Tells(c, told[p][c], link[p][c].seen, <<p, c>> \in past.quiet)
      BY Zenon DEF RememberedIsTold, Tells
  <2>1. Remembered(p, c) = link[p][c].seen
      BY DEF Remembered
  <2> QED  BY <1>1, <2>1, Zenon DEF ObsInv, ToldInv
<1> QED  BY <1>1, ObsInvariant, PTL

----------------------------------------------------------------------------
(* The action properties *)

\* A car that is written from a verified read of its listing.
LEMMA VerifiedPrice ==
    ASSUME ObsInv, NEW c \in Cars, NEW kind, NEW known \in Prices \cup {0},
           NEW detail \in ReadVerifiedDetail(c, kind, known) \cup {Unread},
           known = IF cars[c] = None THEN 0 ELSE cars[c].price,
           cars' = [cars EXCEPT ![c] = UpsertCar(cars[c], detail)],
           NEW d \in Cars, cars[d] # None, cars[d].price # 0, cars'[d].price # cars[d].price
    PROVE  cars'[d].price \in past.real[d]
<1>0. TypeInv /\ PriceInv
    BY DEF ObsInv
<1>1. cars \in [Cars -> CarStates \cup {None}]
    BY <1>0 DEF TypeInv, TypeOK
<1> DEFINE car == UpsertCar(cars[c], detail)
<1>2. /\ detail \in Details
      /\ (known # 0 /\ detail.price \notin {0, known}) => detail.price = market[c].price
    BY <1>0, VerifiedRead
<1>3. /\ detail.price # 0 => car.price = detail.price
      /\ detail.price = 0 /\ cars[c] # None => car.price = cars[c].price
    BY <1>1, <1>2, UpsertedCar
<1> HIDE DEF car
<1>4. cars'[d] = IF d = c THEN car ELSE cars[d]
    BY <1>1 DEF car
<1>5. d = c /\ car.price # cars[c].price
    BY <1>4
<1>6. car.price = market[c].price
    BY <1>2, <1>3, <1>5
<1> QED  BY <1>0, <1>4, <1>5, <1>6 DEF PriceInv

\* The two actions that write a car from a read of its listing.
LEMMA RefreshPrice ==
    ASSUME ObsInv, RefreshCar,
           NEW d \in Cars, cars[d] # None, cars[d].price # 0, cars'[d].price # cars[d].price
    PROVE  cars'[d].price \in past.real[d]
<1>0. TypeInv /\ TaskInv
    BY DEF ObsInv
<1>1. scan \in CarScans /\ scan.phase = "car" /\ scan.project \in Projects /\ scan.task \in Tasks
    BY <1>0, ScanTypes, Shapes DEF RefreshCar
<1>t. PICK task \in Tasks : task = scan.task
    BY <1>1
<1>c. PICK c \in Cars : c = task.car
    BY TaskFields
<1>2. Current(task, scan.project) /\ task.known \in Prices \cup {0}
    BY <1>0, <1>1, <1>t, TaskFields DEF TaskInv
<1>3. task.known = IF cars[c] = None THEN 0 ELSE cars[c].price
    BY <1>2, <1>c DEF Current
<1>4. PICK detail \in ReadVerifiedDetail(c, "FULL", task.known) :
        cars' = [cars EXCEPT ![c] = UpsertCar(cars[c], detail)]
    BY <1>t, <1>c, Zenon DEF RefreshCar
<1> QED  BY <1>2, <1>3, <1>4, VerifiedPrice

LEMMA DetailPrice ==
    ASSUME ObsInv, ApplyDetail,
           NEW d \in Cars, cars[d] # None, cars[d].price # 0, cars'[d].price # cars[d].price
    PROVE  cars'[d].price \in past.real[d]
<1>0. TypeInv /\ TaskInv
    BY DEF ObsInv
<1>1. OfProject /\ scan.tasks \in SUBSET Tasks
    BY <1>0, ScanTypes, Shapes DEF ApplyDetail, OfProject
<1>t. PICK task \in scan.tasks :
        \E detail \in ReadVerifiedDetail(task.car, task.kind, task.known) \cup {Unread} :
            cars' # cars => cars' = [cars EXCEPT ![task.car] = UpsertCar(cars[task.car], detail)]
    BY ZenonT(60) DEF ApplyDetail, Observe
<1>c. PICK c \in Cars : c = task.car
    BY <1>1, TaskFields
<1>2. Current(task, scan.project) /\ task.known \in Prices \cup {0}
    BY <1>0, <1>1, TaskFields DEF TaskInv
<1>3. task.known = IF cars[c] = None THEN 0 ELSE cars[c].price
    BY <1>2, <1>c DEF Current
<1>4. PICK detail \in ReadVerifiedDetail(c, task.kind, task.known) \cup {Unread} :
        cars' # cars => cars' = [cars EXCEPT ![c] = UpsertCar(cars[c], detail)]
    BY <1>t, <1>c
<1>5. cars' # cars
    OBVIOUS
<1> QED  BY <1>2, <1>3, <1>4, <1>5, VerifiedPrice

\* Only a verified read changes the price of a known car.
LEMMA PriceStep ==
    ASSUME ObsInv, [Next]_vars,
           NEW d \in Cars, cars[d] # None, cars[d].price # 0, cars'[d].price # cars[d].price
    PROVE  cars'[d].price \in past.real[d]
<1>1. CASE ProcessRow
  <2>1. cars \in [Cars -> CarStates \cup {None}]
      BY DEF ObsInv, TypeInv, TypeOK
  <2>2. \E c : cars' = cars \/ cars' = [cars EXCEPT ![c] = cars[c]]
      BY <1>1, Zenon DEF ProcessRow, Observe
  <2> QED  BY <2>1, <2>2
<1>2. CASE cars' = cars
    BY <1>2
<1>3. RefreshCar \/ ApplyDetail \/ ProcessRow \/ cars' = cars
    BY Zenon DEF Next, vars, EncarChanges, Crash, StartProject, UpdateSearchConditions, StartCar,
       RemoveCarFromProject, FailProject, CollectSearchPage, ProbeMissing, ApplySearchAbsence,
       FinishProject, PublishCar, FailCar
<1> QED  BY <1>1, <1>2, <1>3, RefreshPrice, DetailPrice

\* read_verified_detail: no scan or refresh, whoever else changed the car
\* meanwhile, replaces a known price by one that the listing never had.
THEOREM PricesAreReal == Spec => PriceChangeIsReal
<1>1. ObsInv /\ [Next]_vars =>
        [\A c \in Cars :
            (cars[c] # None /\ cars[c].price # 0 /\ cars'[c].price # cars[c].price) =>
                cars'[c].price \in past.real[c]]_vars
    BY PriceStep
<1> QED  BY <1>1, ObsInvariant, PTL DEF Spec, PriceChangeIsReal

\* An observation never takes a car out of the search.
LEMMA ObservedSearch ==
    ASSUME TypeInv, NEW p \in Projects, NEW c \in Cars, NEW car, NEW markFound, NEW previous,
           link' = [link EXCEPT ![p][c] = ObservedLink(link[p][c], car, markFound, previous)],
           NEW q \in Projects, NEW d \in Cars, link[q][d] # None,
           link'[q][d].search = "NOT_FOUND_IN_SEARCH"
    PROVE  link[q][d].search = "NOT_FOUND_IN_SEARCH"
<1> DEFINE new == ObservedLink(link[p][c], car, markFound, previous)
<1>1. link \in [Projects -> [Cars -> Links \cup {None}]]
    BY DEF TypeInv, TypeOK
<1>2. link[p][c] # None => new.search \in {"FOUND", link[p][c].search}
  <2>1. CASE link[p][c] # None
    <3>1. link[p][c] \in Links
        BY <1>1, <2>1
    <3> QED  BY <2>1, <3>1, SMT DEF ObservedLink, Links
  <2> QED  BY <2>1
<1> HIDE DEF new
<1>3. link' = [link EXCEPT ![p] = [link[p] EXCEPT ![c] = new]]
    BY Zenon DEF new
<1>4. link'[q][d] = IF q = p /\ d = c THEN new ELSE link[q][d]
    BY <1>1, <1>3
<1> QED  BY <1>2, <1>4

LEMMA MissingStep ==
    ASSUME ObsInv, [Next]_vars, NEW q \in Projects, NEW d \in Cars,
           link[q][d] # None, link[q][d].search # "NOT_FOUND_IN_SEARCH",
           link'[q][d].search = "NOT_FOUND_IN_SEARCH", d \notin past.sold
    PROVE  scan.rev \in past.full[q]
<1>0. TypeInv /\ TaskInv /\ BaseInv
    BY DEF ObsInv
<1>1. CASE ApplySearchAbsence
  <2>1. OfProject
      BY <1>0, <1>1, ScanTypes DEF ApplySearchAbsence
  <2>2. q = scan.project /\ ~scan.baseline
      BY <1>0, <1>1, <2>1, AbsenceEffect
  <2> QED  BY <1>0, <2>1, <2>2 DEF BaseInv
<1>2. CASE ProcessRow
  <2>1. OfProject /\ scan.project \in Projects /\ Min(scan.rows) \in Cars
    <3>1. scan \in ProjectScans /\ scan.rows # {} /\ scan.rows \in SUBSET Cars
        BY <1>0, <1>2, ScanTypes, Shapes DEF ProcessRow, OfProject
    <3>2. Min(scan.rows) \in scan.rows
        BY <3>1, ListingAssumption, MinIsMember
    <3> QED  BY <3>1, <3>2, Shapes DEF OfProject
  <2>p. PICK p \in Projects : p = scan.project
      BY <2>1
  <2>c. PICK c \in Cars : c = Min(scan.rows)
      BY <2>1
  <2>2. \/ link' = link
        \/ link' = [link EXCEPT ![p][c] =
                        ObservedLink(link[p][c], cars[c], TRUE, PreviousState(link[p][c]))]
      BY <1>2, <2>p, <2>c, Zenon DEF ProcessRow, Observe
  <2> DEFINE car == cars[c]
             previous == PreviousState(link[p][c])
  <2>3. link' # link
      OBVIOUS
  <2>4. link' = [link EXCEPT ![p][c] = ObservedLink(link[p][c], car, TRUE, previous)]
      BY <2>2, <2>3
  <2> HIDE DEF car, previous
  <2> QED  BY <1>0, <2>4, ObservedSearch
<1>3. CASE RefreshCar
  <2>1. scan.project \in Projects /\ scan.task.car \in Cars
      BY <1>0, <1>3, ScanTypes, Shapes, TaskFields DEF RefreshCar
  <2>p. PICK p \in Projects : p = scan.project
      BY <2>1
  <2>c. PICK c \in Cars : c = scan.task.car
      BY <2>1
  <2>2. PICK car :
            link' = [link EXCEPT ![p][c] = ObservedLink(link[p][c], car, FALSE, scan.task.previous)]
      BY <1>3, <2>p, <2>c, Zenon DEF RefreshCar
  <2> QED  BY <1>0, <2>2, ObservedSearch
<1>4. CASE ApplyDetail
  <2>1. OfProject /\ scan.project \in Projects /\ scan.tasks \in SUBSET Tasks
      BY <1>0, <1>4, ScanTypes, Shapes DEF ApplyDetail, OfProject
  <2>p. PICK p \in Projects : p = scan.project
      BY <2>1
  <2>2. PICK task \in scan.tasks :
            \/ link' = link
            \/ link[p][task.car] # None /\ link' = [link EXCEPT ![p][task.car].search = "FOUND"]
            \/ \E car : link' = [link EXCEPT ![p][task.car] =
                                    ObservedLink(link[p][task.car], car, task.found, task.previous)]
      BY <1>4, <2>p, ZenonT(60) DEF ApplyDetail, Observe
  <2>c. PICK c \in Cars : c = task.car
      BY <2>1, TaskFields
  <2>3. CASE link[p][c] # None /\ link' = [link EXCEPT ![p][c].search = "FOUND"]
    <3> DEFINE new == [link[p][c] EXCEPT !.search = "FOUND"]
    <3>1. link \in [Projects -> [Cars -> Links \cup {None}]]
        BY <1>0 DEF TypeInv, TypeOK
    <3>2. link[p][c] \in Links
        BY <2>3, <3>1
    <3>3. new.search = "FOUND"
        BY <3>2, SMT DEF Links
    <3>4. link' = [link EXCEPT ![p] = [link[p] EXCEPT ![c] = new]]
        BY <2>3, Zenon
    <3> HIDE DEF new
    <3>5. link'[q][d] = IF q = p /\ d = c THEN new ELSE link[q][d]
        BY <3>1, <3>4
    <3> QED  BY <3>3, <3>5
  <2>4. ASSUME NEW car,
               link' = [link EXCEPT ![p][c] = ObservedLink(link[p][c], car, task.found, task.previous)]
        PROVE  FALSE
      BY <1>0, <2>4, ObservedSearch
  <2> QED  BY <2>2, <2>c, <2>3, <2>4
<1>5. ASSUME NEW p \in Projects, NEW c \in Cars, RemoveCarFromProject(p, c) PROVE FALSE
  <2>1. link \in [Projects -> [Cars -> Links \cup {None}]]
      BY <1>0 DEF TypeInv, TypeOK
  <2> DEFINE new == [link[p][c] EXCEPT !.tracked = FALSE, !.search = "REMOVED_FROM_PROJECT"]
  <2>2. link[p][c] \in Links
      BY <1>5, <2>1 DEF RemoveCarFromProject
  <2>3. new.search = "REMOVED_FROM_PROJECT"
      BY <2>2, SMT DEF Links
  <2>4. link' = [link EXCEPT ![p] = [link[p] EXCEPT ![c] = new]]
      BY <1>5, Zenon DEF RemoveCarFromProject
  <2> HIDE DEF new
  <2>5. link'[q][d] = IF q = p /\ d = c THEN new ELSE link[q][d]
      BY <2>1, <2>4
  <2> QED  BY <2>3, <2>5
<1>6. \/ link' = link \/ ApplySearchAbsence \/ ProcessRow \/ RefreshCar \/ ApplyDetail
      \/ \E p \in Projects, c \in Cars : RemoveCarFromProject(p, c)
    BY Zenon DEF Next, vars, EncarChanges, Crash, StartProject, UpdateSearchConditions, StartCar,
       FailProject, CollectSearchPage, ProbeMissing, FinishProject, PublishCar, FailCar
<1> QED  BY <1>1, <1>2, <1>3, <1>4, <1>5, <1>6

\* apply_search_absence: a first scan, a scan of a changed filter and a scan
\* that was stopped early never write a car as missing.
THEOREM NothingMissingBeforeBaseline == Spec => MissingNeedsBaseline
<1>1. ObsInv /\ [Next]_vars =>
        [\A p \in Projects, c \in Cars :
            (/\ link[p][c] # None
             /\ link[p][c].search # "NOT_FOUND_IN_SEARCH"
             /\ link'[p][c].search = "NOT_FOUND_IN_SEARCH"
             /\ c \notin past.sold) => scan.rev \in past.full[p]]_vars
    BY MissingStep
<1> QED  BY <1>1, ObsInvariant, PTL DEF Spec, MissingNeedsBaseline

=============================================================================
