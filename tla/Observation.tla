---------------------------- MODULE Observation ----------------------------
(***************************************************************************)
(* What a scan learns from Encar and what it tells the owners of projects: *)
(* the page by page enumeration of a search (scanner.py), the verified     *)
(* reading of listings, the shared table of cars and the links of every    *)
(* project to it (services.py), the change reports and the search absence  *)
(* (worker.py, the body of process_job).                                   *)
(*                                                                         *)
(* One worker runs one scan of one project, or one refresh of one car, at  *)
(* a time; the API changes links and filters, Encar changes listings and   *)
(* the process dies between any two commits.                               *)
(*                                                                         *)
(* A listing's fields other than its price are one value, its spec: the    *)
(* fingerprint is the pair of price and spec.  Some changes of the spec are *)
(* not material: they only give a field that was not known before.  A      *)
(* price that the page did not give and a spec never read are 0.           *)
(***************************************************************************)
EXTENDS Integers, FiniteSets, FiniteSetsExt

CONSTANTS
    Cars,       \* listing ids, in the order of the search results
    Projects,   \* projects, each of its own owner
    Prices, Specs,
    Minor,      \* pairs of an old and a new spec without a material change
    Vehicle,    \* the registration number on a listing's page, or None
    Narrow,     \* the cars that an even revision of the filter leaves out
    PageSize,   \* rows of a result page
    MaxPages,   \* the safety limit of collect_search_pages
    MaxScans,   \* bound on scans and refreshes
    MaxChanges, \* bound on what Encar and the users change
    None

VARIABLES
    market,    \* Encar: per listing its page, its price, its spec, and whether it is listed
    cars,      \* the table cars: price, spec and status, or None
    link,      \* the table project_cars
    project,   \* revision and baseline revision of the filter, a scan SUCCEEDED
    scan,      \* the worker's local state, None when it is idle
    told,      \* per project and car, the item of the stored reports that last told of it
    past       \* history: facts that the properties refer to

vars == <<market, cars, link, project, scan, told, past>>

----------------------------------------------------------------------------
(* Types *)

Statuses == {"NEW", "UPDATED", "SOLD", "PRICE_DROP", "PRICE_INCREASE"}
CarStates == [price : Prices \cup {0}, spec : Specs \cup {0}, status : Statuses]
SearchStates == {"FOUND", "NOT_FOUND_IN_SEARCH", "REMOVED_FROM_PROJECT"}
Links == [seen : CarStates, tracked : BOOLEAN, search : SearchStates]
Reports == [car : Cars, change : Statuses \cup {"MATERIAL_UPDATE"}, price : Prices \cup {0}]
PreviousStates == [seen : CarStates, search : SearchStates]
Tasks == [car : Cars, kind : {"FULL", "PRICE_STATUS"}, found : BOOLEAN,
          previous : PreviousStates \cup {None}, known : Prices \cup {0}, tracked : BOOLEAN]
ProjectScans == [phase : {"pages", "rows", "details", "finish"}, project : Projects,
                 mode : {"FAST", "ACCURATE"}, all : BOOLEAN, rev : Nat, baseline : BOOLEAN,
                 page : Nat, fingerprints : SUBSET SUBSET Cars, rows : SUBSET Cars,
                 found : SUBSET Cars, tasks : SUBSET Tasks, sold : SUBSET Cars,
                 reported : SUBSET Cars]
CarScans == [phase : {"car", "publish"}, project : Projects, task : Tasks]

ASSUME ListingAssumption ==
    /\ Cars \subseteq Nat /\ IsFiniteSet(Cars) /\ Narrow \subseteq Cars
    /\ Prices \subseteq Nat \ {0} /\ Prices # {}
    /\ Specs \subseteq Nat \ {0} /\ Specs # {} /\ Minor \subseteq Specs \X Specs
    /\ Vehicle \in [Cars -> Nat \cup {None}]
    /\ PageSize \in Nat \ {0} /\ MaxPages \in Nat \ {0}
    /\ MaxScans \in Nat /\ MaxChanges \in Nat
    /\ None \notin CarStates \cup Links \cup Reports \cup PreviousStates
    /\ None \notin ProjectScans \cup CarScans
    /\ None \notin Statuses \cup {"FULL", "PRICE_STATUS", "MATERIAL_UPDATE", "RELISTED"}

----------------------------------------------------------------------------
(* Encar *)

Matches(rev) == IF rev % 2 = 0 THEN Cars \ Narrow ELSE Cars

Results(m, rev) == {c \in Matches(rev) : m[c].listed}

\* The number of listings that a search shows before a car.
Position(c, rev) == Cardinality({d \in Results(market, rev) : d < c})

\* The rows of page n of a search.
Page(n, rev) ==
    {c \in Results(market, rev) :
        (n - 1) * PageSize =< Position(c, rev) /\ Position(c, rev) < n * PageSize}

\* The rows of the later pages.
Behind(n, rev) == {c \in Results(market, rev) : Position(c, rev) >= n * PageSize}

\* What the page controls and the total can say of a next page; a page that
\* was rendered without both counts as the last one.
HasNext(n, rev) == {Behind(n, rev) # {}, FALSE}

Enumerating == scan # None /\ scan.phase = "pages"

\* Cars outside the results of a project; every car when the results change
\* under an enumeration, where rows move from one page to another.
Outside(m, rev, p) ==
    IF Enumerating /\ scan.project = p THEN Cars ELSE Cars \ Results(m, rev)

\* A listing enters or leaves the search, is sold or offered again, or is edited.
Edited(listing) ==
    {[listing EXCEPT !.listed = ~@],
     [listing EXCEPT !.page = IF @ = "live" THEN "sold" ELSE "live"]}
        \cup {[listing EXCEPT !.price = price] : price \in Prices}
        \cup {[listing EXCEPT !.spec = spec] : spec \in Specs}

EncarChanges ==
    /\ past.changes < MaxChanges
    /\ \E c \in Cars : \E listing \in Edited(market[c]) \ {market[c]} :
        LET m == [market EXCEPT ![c] = listing]
        IN /\ market' = m
           /\ past' = [past EXCEPT !.changes = @ + 1, !.real[c] = @ \cup {listing.price},
                        !.out = [p \in Projects |-> @[p] \cup Outside(m, project[p].rev, p)]]
    /\ UNCHANGED <<cars, link, project, scan, told>>

----------------------------------------------------------------------------
(* The shared table of cars *)

PriceChange(old, new) ==
    IF old = 0 \/ new = 0 \/ old = new THEN None
    ELSE IF new < old THEN "PRICE_DROP" ELSE "PRICE_INCREASE"

\* A sold page says only that the listing is gone; a price probe keeps the spec.
MergeReliableDetail(old, detail) ==
    [price |-> IF detail.price = 0 THEN old.price ELSE detail.price,
     spec  |-> IF detail.spec = 0 THEN old.spec ELSE detail.spec]

UpsertedStatus(old, detail, merged) ==
    CASE detail.sold -> "SOLD"
      [] ~detail.sold /\ PriceChange(old.price, detail.price) # None ->
            PriceChange(old.price, detail.price)
      [] ~detail.sold /\ PriceChange(old.price, detail.price) = None /\ old.status = "SOLD" ->
            "UPDATED"
      [] OTHER -> IF old.spec # 0 /\ merged.spec # old.spec /\ <<old.spec, merged.spec>> \notin Minor
                  THEN "UPDATED" ELSE old.status

UpsertCar(known, detail) ==
    LET old    == IF known = None THEN [price |-> 0, spec |-> 0, status |-> "NEW"] ELSE known
        merged == MergeReliableDetail(old, detail)
    IN [price |-> merged.price, spec |-> merged.spec,
        status |-> UpsertedStatus(old, detail, merged)]

\* The state a project last saw a car in, and its place in the search.
PreviousState(l) == IF l = None THEN None ELSE [seen |-> l.seen, search |-> l.search]

\* upsert_detail and mark_found_without_detail on the project's link, then
\* _remember_observation of the car.  The session writes the column only when
\* it differs from the copy it read.
ObservedLink(l, car, markFound, previous) ==
    IF l = None THEN [seen |-> car, search |-> "FOUND", tracked |-> TRUE]
    ELSE [l EXCEPT !.seen = car,
            !.search = IF markFound /\ previous.search # "FOUND" THEN "FOUND" ELSE @]

ChangeReport(car, previous, search) ==
    IF previous = None THEN "NEW"
    ELSE IF car.status = "SOLD" THEN
        IF previous.seen.status = "SOLD" THEN None ELSE "SOLD"
    ELSE IF previous.seen.price # car.price THEN
        IF previous.seen.price > car.price THEN "PRICE_DROP" ELSE "PRICE_INCREASE"
    ELSE IF previous.seen.spec # car.spec THEN
        IF <<previous.seen.spec, car.spec>> \in Minor THEN None ELSE "MATERIAL_UPDATE"
    ELSE IF previous.seen.status # car.status THEN car.status
    ELSE IF previous.search = "NOT_FOUND_IN_SEARCH" /\ search = "FOUND" THEN "RELISTED"
    ELSE None

\* Changes without a row in the stored report.
Omitted == {None, "RELISTED"}

Priority(change) ==
    CASE change = "NEW" -> 0
      [] change \in {"PRICE_DROP", "PRICE_INCREASE"} -> 1
      [] change = "MATERIAL_UPDATE" -> 2
      [] OTHER -> 9

\* _report_key: the registration number, known once the details were read.
ReportKey(c, car) ==
    IF car.spec = 0 \/ Vehicle[c] = None THEN <<"car", c>> ELSE <<"registration", Vehicle[c]>>

\* Mutant: a sale does not take precedence.
Preferred_NoSold(old, new) == IF Priority(new.change) < Priority(old.change) THEN new ELSE old

\* The item kept for a vehicle: its last sale, else the first of the best priority.
Preferred(old, new) ==
    IF new.change = "SOLD" \/ (old.change # "SOLD" /\ Priority(new.change) < Priority(old.change))
    THEN new ELSE old

\* The run's report with one more item: one item stands for all publications of
\* a vehicle, whose ids it lists.  group: those with an item in this run.  The
\* rows for search states have the lowest priority and tell nothing of a car.
DedupeReport(report, group, item) ==
    LET kept == IF group = {} THEN item
                ELSE Preferred(report[CHOOSE d \in group : TRUE], item)
    IN IF item.change \in Omitted THEN report
       ELSE [d \in Cars |-> IF d \in group \cup {item.car} THEN kept ELSE report[d]]

\* The spec changed, but not materially: no report, whatever the status says.
Unreported(car, previous) ==
    /\ previous # None /\ car.status # "SOLD"
    /\ previous.seen.price = car.price /\ previous.seen.spec # car.spec
    /\ <<previous.seen.spec, car.spec>> \in Minor

\* History: the pairs of a project and a car with an unreported change.
Silenced(h, p, c, car, previous) ==
    IF Unreported(car, previous) THEN [h EXCEPT !.quiet = @ \cup {<<p, c>>}] ELSE h

----------------------------------------------------------------------------
(* Reading a listing *)

Sold == [sold |-> TRUE, price |-> 0, spec |-> 0]

\* A read that raised a ScanError.
Unread == [sold |-> FALSE, price |-> 0, spec |-> 0]

\* One read of a live page gives its price, or the price of a page that has
\* not settled; a price probe does not read the spec.
Reads(c, kind) ==
    IF market[c].page = "sold" THEN {Sold}
    ELSE {[sold |-> FALSE, price |-> price, spec |-> IF kind = "FULL" THEN market[c].spec ELSE 0] :
            price \in Prices}

Unsettled(c, read) == ~read.sold /\ read.price # market[c].price

\* Mutant: a changed price is taken from the first read.
ReadVerifiedDetail_Once(c, kind, known) == Reads(c, kind)

\* A price other than the known one is read a second time and must be the
\* same: two reads in a row are not unsettled in the same way.
ReadVerifiedDetail(c, kind, known) ==
    {r \in Reads(c, kind) :
        (~r.sold /\ known # 0 /\ r.price # known) => ~Unsettled(c, r)}

----------------------------------------------------------------------------
Init ==
    /\ market \in [Cars -> {[listed |-> TRUE, page |-> page, price |-> Min(Prices),
                             spec |-> Min(Specs)] : page \in {"live", "sold"}}]
    /\ cars = [c \in Cars |-> None]
    /\ link = [p \in Projects |-> [c \in Cars |-> None]]
    /\ project = [p \in Projects |-> [rev |-> 1, base |-> 0, done |-> FALSE]]
    /\ scan = None
    /\ told = [p \in Projects |-> [c \in Cars |-> None]]
    /\ past = [changes |-> 0, scans |-> 0, real |-> [c \in Cars |-> {market[c].price}],
               sold |-> {}, out |-> [p \in Projects |-> {}],
               full |-> [p \in Projects |-> {}], lost |-> {}, gone |-> {}, quiet |-> {}]

----------------------------------------------------------------------------
(* The scan of a project *)

\* Until a scan has succeeded, and after a change of the filter, the saved
\* modes are overridden.
ProjectScanModes(p, mode, all) ==
    IF ~project[p].done \/ project[p].rev # project[p].base
    THEN [mode |-> "ACCURATE", all |-> TRUE]
    ELSE [mode |-> mode, all |-> all]

StartProject(p) ==
    /\ scan = None /\ past.scans < MaxScans
    /\ \E mode \in {"FAST", "ACCURATE"}, all \in BOOLEAN :
        LET modes == ProjectScanModes(p, mode, all)
        IN scan' = [phase |-> "pages", project |-> p, mode |-> modes.mode, all |-> modes.all,
                    rev |-> project[p].rev, baseline |-> project[p].rev # project[p].base,
                    page |-> 1, fingerprints |-> {}, rows |-> {},
                    found |-> {}, tasks |-> {}, sold |-> {}, reported |-> {}]
    /\ past' = [past EXCEPT !.scans = @ + 1]
    /\ UNCHANGED <<market, cars, link, project, told>>

\* A timeout, a CAPTCHA, another page than the requested one, a page without
\* rows or past the limit fails the scan of the project; so does a cancel.
FailProject ==
    /\ scan # None /\ scan.phase \in {"pages", "rows", "details", "finish"}
    /\ scan' = None
    /\ UNCHANGED <<market, cars, link, project, told, past>>

\* Encar answers with the page that was asked for, or repeats an earlier one.
Answers ==
    {[rows |-> Page(scan.page, scan.rev), next |-> next] : next \in HasNext(scan.page, scan.rev)}
        \cup {[rows |-> rows, next |-> next] : rows \in scan.fingerprints, next \in BOOLEAN}

\* History: what an answer without a next page leaves out.
Cut(answer) ==
    IF answer.next THEN past
    ELSE [past EXCEPT !.out[scan.project] = @ \cup Behind(scan.page, scan.rev)]

\* Mutant: a repeated page is not noticed.
CollectSearchPage_Repeated ==
    /\ Enumerating
    /\ scan.page =< MaxPages
    /\ \E answer \in Answers :
        /\ scan.page > 1 => answer.rows # {}
        /\ scan' = [scan EXCEPT
             !.fingerprints = @ \cup {answer.rows},
             !.rows = @ \cup answer.rows,
             !.page = @ + 1,
             !.phase = IF ~scan.all \/ ~answer.next THEN "rows" ELSE @]
        /\ past' = Cut(answer)
    /\ UNCHANGED <<market, cars, link, project, told>>

CollectSearchPage ==
    /\ Enumerating
    /\ scan.page =< MaxPages
    /\ \E answer \in Answers :
        /\ scan.page > 1 => answer.rows # {}
        /\ answer.rows \notin scan.fingerprints
        /\ scan' = [scan EXCEPT
             !.fingerprints = @ \cup {answer.rows},
             !.rows = @ \cup answer.rows,
             !.page = @ + 1,
             !.phase = IF ~scan.all \/ ~answer.next THEN "rows" ELSE @]
        /\ past' = Cut(answer)
    /\ UNCHANGED <<market, cars, link, project, told>>

DetailReadKind(c, listPrice) ==
    IF scan.mode = "ACCURATE" \/ cars[c] = None THEN "FULL"
    ELSE IF listPrice # cars[c].price \/ listPrice = 0 \/ cars[c].price = 0 THEN "PRICE_STATUS"
    ELSE None

\* A car that is sold, or that the project no longer tracks, is skipped.
Skipped(p, c) ==
    \/ cars[c] # None /\ cars[c].status = "SOLD"
    \/ link[p][c] # None /\ ~link[p][c].tracked

\* Mutant: the report compares with the shared car.
Task_Shared(p, c, kind, found) ==
    [car |-> c, kind |-> kind, found |-> found,
     previous |-> IF link[p][c] = None THEN None ELSE [seen |-> cars[c], search |-> link[p][c].search],
     known |-> IF cars[c] = None THEN 0 ELSE cars[c].price,
     tracked |-> link[p][c] = None \/ link[p][c].tracked]

Task(p, c, kind, found) ==
    [car |-> c, kind |-> kind, found |-> found, previous |-> PreviousState(link[p][c]),
     known |-> IF cars[c] = None THEN 0 ELSE cars[c].price,
     tracked |-> link[p][c] = None \/ link[p][c].tracked]

\* The car, the project's link and the report are committed together; rest and
\* h are the worker's state and the history so far.
Observe(p, c, car, markFound, previous, rest, h) ==
    LET l      == ObservedLink(link[p][c], car, markFound, previous)
        change == ChangeReport(car, previous, l.search)
        group  == {d \in rest.reported : ReportKey(d, cars[d]) = ReportKey(c, car)}
    IN /\ cars' = [cars EXCEPT ![c] = car]
       /\ link' = [link EXCEPT ![p][c] = l]
       /\ told' = [told EXCEPT ![p] = DedupeReport(@, group,
                                        [car |-> c, change |-> change, price |-> car.price])]
       /\ scan' = IF change \in Omitted THEN rest ELSE [rest EXCEPT !.reported = @ \cup {c}]
       /\ past' = Silenced(h, p, c, car, previous)

ProcessRow ==
    /\ scan # None /\ scan.phase = "rows" /\ scan.rows # {}
    /\ \E listPrice \in Prices \cup {0} :
        LET p    == scan.project
            c    == Min(scan.rows)
            kind == DetailReadKind(c, listPrice)
            rest == [scan EXCEPT !.rows = @ \ {c},
                       !.found = IF cars[c] = None THEN @ ELSE @ \cup {c}]
        IN /\ listPrice \in {0, market[c].price}
           /\ \/ /\ Skipped(p, c)
                 /\ scan' = [scan EXCEPT !.rows = @ \ {c}]
                 /\ UNCHANGED <<cars, link, told, past>>
              \/ /\ ~Skipped(p, c) /\ kind # None
                 /\ scan' = [rest EXCEPT !.tasks = @ \cup {Task(p, c, kind, TRUE)}]
                 /\ UNCHANGED <<cars, link, told, past>>
              \/ /\ ~Skipped(p, c) /\ kind = None
                 /\ Observe(p, c, cars[c], TRUE, PreviousState(link[p][c]), rest, past)
    /\ UNCHANGED <<market, project>>

\* The linked cars that the search did not show are probed for their state.
MissingCars ==
    LET p == scan.project
    IN IF scan.baseline THEN {}
       ELSE {c \in Cars \ scan.found :
                link[p][c] # None /\ link[p][c].tracked /\ cars[c].status # "SOLD"}

ProbeMissing ==
    /\ scan # None /\ scan.phase = "rows" /\ scan.rows = {}
    /\ scan' = [scan EXCEPT !.phase = "details",
                  !.tasks = @ \cup {Task(scan.project, c, "PRICE_STATUS", FALSE) : c \in MissingCars}]
    /\ UNCHANGED <<market, cars, link, project, told, past>>

\* The session keeps the link it read with the task as long as something
\* refers to it, and then does not see that the API stopped tracking it.
TrackedInSession(p, task) ==
    {task.tracked, link[p][task.car] = None \/ link[p][task.car].tracked}

\* A detail worker has read a listing, or failed to, and the worker applies
\* the result; results come in any order.
ApplyDetail ==
    /\ scan # None /\ scan.phase = "details"
    /\ \E task \in scan.tasks :
        \E detail \in ReadVerifiedDetail(task.car, task.kind, task.known) \cup {Unread} :
            LET p    == scan.project
                c    == task.car
                rest == [scan EXCEPT !.tasks = @ \ {task}]
                h    == IF detail # Sold THEN past
                        ELSE [past EXCEPT !.sold = @ \cup {c},
                                !.gone = IF link[p][c] = None THEN @ \cup {<<p, c>>} ELSE @]
            IN \/ /\ detail = Unread
                  /\ scan' = rest
                  /\ link' = IF task.found /\ link[p][c] # None /\ link[p][c].tracked
                             THEN [link EXCEPT ![p][c].search = "FOUND"] ELSE link
                  /\ UNCHANGED <<cars, told, past>>
               \/ /\ detail # Unread /\ FALSE \in TrackedInSession(p, task)
                  /\ scan' = rest /\ past' = h
                  /\ UNCHANGED <<cars, link, told>>
               \/ /\ detail # Unread /\ TRUE \in TrackedInSession(p, task)
                  /\ Observe(p, c, UpsertCar(cars[c], detail), task.found, task.previous,
                             [rest EXCEPT !.sold = IF detail.sold THEN @ \cup {c} ELSE @,
                                          !.found = IF task.found THEN @ \cup {c} ELSE @], h)
    /\ UNCHANGED <<market, project>>

\* Mutant: a missing car is written as sold into the search state.
ApplyMissing_Sold(found, search) ==
    IF found THEN IF search = "NOT_FOUND_IN_SEARCH" THEN "RELISTED" ELSE "FOUND" ELSE "SOLD"

ApplyMissing(found, search) ==
    IF found THEN IF search = "NOT_FOUND_IN_SEARCH" THEN "RELISTED" ELSE "FOUND"
    ELSE "NOT_FOUND_IN_SEARCH"

\* The new place in the search of a tracked link.
MarkAbsent(c, l) ==
    IF c \in scan.sold THEN "NOT_FOUND_IN_SEARCH"
    ELSE IF ApplyMissing(c \in scan.found, l.search) = "RELISTED" THEN "FOUND"
    ELSE ApplyMissing(c \in scan.found, l.search)

\* Mutant: a car that the search does not show is sold.
ApplySearchAbsence_Sells ==
    /\ scan # None /\ scan.phase = "details" /\ scan.tasks = {}
    /\ scan' = [scan EXCEPT !.phase = "finish"]
    /\ cars' = IF scan.baseline \/ ~scan.all THEN cars
               ELSE [c \in Cars |->
                       IF link[scan.project][c] = None \/ c \in scan.found THEN cars[c]
                       ELSE [cars[c] EXCEPT !.status = "SOLD"]]
    /\ UNCHANGED <<market, link, project, told, past>>

ApplySearchAbsence ==
    /\ scan # None /\ scan.phase = "details" /\ scan.tasks = {}
    /\ scan' = [scan EXCEPT !.phase = "finish"]
    /\ link' = IF scan.baseline \/ ~scan.all THEN link
               ELSE [link EXCEPT ![scan.project] =
                       [c \in Cars |->
                          IF @[c] = None \/ ~@[c].tracked THEN @[c]
                          ELSE [@[c] EXCEPT !.search = MarkAbsent(c, link[scan.project][c])]]]
    /\ UNCHANGED <<market, cars, project, told, past>>

\* Mutant: the revision of now becomes the baseline.
FinishProject_Current ==
    /\ scan # None /\ scan.phase = "finish"
    /\ LET p == scan.project
           base == IF scan.all THEN project[p].rev ELSE project[p].base
       IN /\ project' = [project EXCEPT ![p] = [@ EXCEPT !.base = base, !.done = TRUE]]
          /\ past' = IF scan.all THEN [past EXCEPT !.full[p] = @ \cup {scan.rev}] ELSE past
    /\ scan' = None
    /\ UNCHANGED <<market, cars, link, told>>

\* The baseline moves only if the filter is still the one that was scanned.
FinishProject ==
    /\ scan # None /\ scan.phase = "finish"
    /\ LET p == scan.project
           base == IF scan.all /\ project[p].rev = scan.rev THEN scan.rev ELSE project[p].base
       IN /\ project' = [project EXCEPT ![p] = [@ EXCEPT !.base = base, !.done = TRUE]]
          /\ past' = IF scan.all THEN [past EXCEPT !.full[p] = @ \cup {scan.rev}] ELSE past
    /\ scan' = None
    /\ UNCHANGED <<market, cars, link, told>>

----------------------------------------------------------------------------
(* The refresh of one car *)

StartCar(p, c) ==
    /\ scan = None /\ past.scans < MaxScans
    /\ link[p][c] # None
    /\ scan' = [phase |-> "car", project |-> p, task |-> Task(p, c, "FULL", FALSE)]
    /\ past' = [past EXCEPT !.scans = @ + 1]
    /\ UNCHANGED <<market, cars, link, project, told>>

\* The car and the link are committed; the report follows in a commit of its own.
RefreshCar ==
    /\ scan # None /\ scan.phase = "car"
    /\ LET p == scan.project
           task == scan.task
           c == task.car
       IN \E detail \in ReadVerifiedDetail(c, "FULL", task.known) :
            LET car == UpsertCar(cars[c], detail)
            IN /\ TRUE \in TrackedInSession(p, task)
               /\ cars' = [cars EXCEPT ![c] = car]
               /\ link' = [link EXCEPT ![p][c] = ObservedLink(@, car, FALSE, task.previous)]
               /\ scan' = [scan EXCEPT !.phase = "publish"]
               /\ past' = IF detail = Sold THEN [past EXCEPT !.sold = @ \cup {c}] ELSE past
    /\ UNCHANGED <<market, project, told>>

\* The report of an unchanged car says MANUAL_REFRESH and nothing else.
PublishCar ==
    /\ scan # None /\ scan.phase = "publish"
    /\ LET p == scan.project
           c == scan.task.car
           change == ChangeReport(cars[c], scan.task.previous, link[p][c].search)
       IN /\ told' = [told EXCEPT ![p] = DedupeReport(@, {},
                                           [car |-> c, change |-> change, price |-> cars[c].price])]
          /\ past' = Silenced(past, p, c, cars[c], scan.task.previous)
    /\ scan' = None
    /\ UNCHANGED <<market, cars, link, project>>

\* The read failed, or the link is no longer tracked: rolled back.
FailCar ==
    /\ scan # None /\ scan.phase = "car"
    /\ scan' = None
    /\ UNCHANGED <<market, cars, link, project, told, past>>

----------------------------------------------------------------------------
(* The API and the process *)

RemoveCarFromProject(p, c) ==
    /\ past.changes < MaxChanges
    /\ link[p][c] # None /\ link[p][c].tracked
    /\ link' = [link EXCEPT ![p][c] = [@ EXCEPT !.tracked = FALSE, !.search = "REMOVED_FROM_PROJECT"]]
    /\ past' = [past EXCEPT !.changes = @ + 1]
    /\ UNCHANGED <<market, cars, project, scan, told>>

UpdateSearchConditions(p) ==
    /\ past.changes < MaxChanges
    /\ project' = [project EXCEPT ![p].rev = @ + 1]
    /\ past' = [past EXCEPT !.changes = @ + 1,
                 !.out[p] = @ \cup (Cars \ Results(market, project[p].rev + 1))]
    /\ UNCHANGED <<market, cars, link, scan, told>>

\* The process dies: committed rows stay, the run is INTERRUPTED.
Crash ==
    /\ scan # None
    /\ scan' = None
    /\ past' = IF scan.phase = "publish"
               THEN [past EXCEPT !.lost = @ \cup {<<scan.project, scan.task.car>>}] ELSE past
    /\ UNCHANGED <<market, cars, link, project, told>>

Next ==
    \/ EncarChanges \/ Crash
    \/ \E p \in Projects : StartProject(p) \/ UpdateSearchConditions(p)
    \/ \E p \in Projects, c \in Cars : StartCar(p, c) \/ RemoveCarFromProject(p, c)
    \/ FailProject \/ CollectSearchPage \/ ProcessRow \/ ProbeMissing
    \/ ApplyDetail \/ ApplySearchAbsence \/ FinishProject
    \/ RefreshCar \/ PublishCar \/ FailCar

Spec == Init /\ [][Next]_vars

----------------------------------------------------------------------------
(* Properties *)

\* The types of the tables and of the stored reports; a project never links
\* a car that the shared table does not hold.
TypeOK ==
    /\ market \in [Cars -> [listed : BOOLEAN, page : {"live", "sold"}, price : Prices, spec : Specs]]
    /\ cars \in [Cars -> CarStates \cup {None}]
    /\ link \in [Projects -> [Cars -> Links \cup {None}]]
    /\ project \in [Projects -> [rev : 1 .. MaxChanges + 1, base : 0 .. MaxChanges + 1, done : BOOLEAN]]
    /\ told \in [Projects -> [Cars -> Reports \cup {None}]]
    /\ \A p \in Projects, c \in Cars : link[p][c] # None => cars[c] # None

Publishing(p, c) == scan # None /\ scan.phase = "publish" /\ <<scan.project, scan.task.car>> = <<p, c>>

\* "A shared canonical update cannot consume another user's change report":
\* what a project's link remembers of a car its stored reports have told,
\* whoever changed the car and wherever a scan stopped.  A car remembered as sold
\* was last reported as sold; a report of the car itself says so only then, and
\* else gives the remembered price; where the item of another publication stands
\* for the car, it is one of the same vehicle.  A crash between the two commits
\* of a manual refresh loses a report; a listing that was sold when a project
\* first read it is reported as NEW; and a car that is offered again with newly
\* known fields is not reported as such.
RememberedIsTold ==
    \A p \in Projects, c \in Cars :
        LET seen == link[p][c].seen
            item == told[p][c]
        IN (/\ link[p][c] # None
            /\ ~Publishing(p, c)
            /\ <<p, c>> \notin past.lost) =>
               /\ item # None
               /\ <<p, c>> \notin past.gone =>
                    /\ seen.status = "SOLD" => item.change = "SOLD"
                    /\ IF item.car # c THEN Vehicle[item.car] = Vehicle[c] /\ Vehicle[c] # None
                       ELSE IF item.change = "SOLD" THEN seen.status = "SOLD" \/ <<p, c>> \in past.quiet
                       ELSE item.price = seen.price

\* A car is SOLD only after its own page was read as sold: no search absence,
\* however often, promotes it.
SoldWasRead == \A c \in Cars : (cars[c] # None /\ cars[c].status = "SOLD") => c \in past.sold

\* A car that has been in the results of a project's search all along and was
\* never read as sold is never NOT_FOUND_IN_SEARCH: no partial, failed,
\* repeated or first page enumeration marks it, only a page before the car's
\* that was rendered without its controls and its total.
ListedIsNeverMissing ==
    \A p \in Projects, c \in Cars :
        (link[p][c] # None /\ link[p][c].search = "NOT_FOUND_IN_SEARCH") =>
            c \in past.out[p] \cup past.sold

\* The price of a known car changes only to one that the listing really had.
PriceChangeIsReal ==
    [][\A c \in Cars :
        (cars[c] # None /\ cars[c].price # 0 /\ cars'[c].price # cars[c].price) =>
            cars'[c].price \in past.real[c]]_vars

\* A car that is not sold goes missing from a project only in a scan of a
\* filter that an earlier complete scan has taken as the baseline.
MissingNeedsBaseline ==
    [][\A p \in Projects, c \in Cars :
        (/\ link[p][c] # None
         /\ link[p][c].search # "NOT_FOUND_IN_SEARCH"
         /\ link'[p][c].search = "NOT_FOUND_IN_SEARCH"
         /\ c \notin past.sold) => scan.rev \in past.full[p]]_vars

\* Every project that follows a car it was told of learns from its own scan
\* that the car was sold, also when the scan of another project found it out.
SoldReachesEveryProject ==
    (scan # None /\ scan.phase = "finish") =>
        \A c \in Cars :
            LET p == scan.project
            IN (link[p][c] # None /\ link[p][c].tracked /\ cars[c].status = "SOLD"
                  /\ told[p][c] # None
                  /\ <<p, c>> \notin past.lost \cup past.gone) => told[p][c].change = "SOLD"
============================================================================
