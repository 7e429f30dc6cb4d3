-------------------------- MODULE CongressNightlyProofs --------------------------
(***************************************************************************)
(* For any filings, sources, days and bounds: no release loses what the    *)
(* one before it held or leaves a pair unflagged, none is older than the   *)
(* bound but for what its seed already lacked from before the window, and  *)
(* no night adds to that.                                                  *)
(***************************************************************************)
EXTENDS CongressNightly, FiniteSetTheorems, WellFoundedInduction, TLAPS

-----------------------------------------------------------------------------
(* The shapes of what the variables hold.                                  *)

Rows == [Filings -> Filing \cup {Absent}]

IsStore(s) == s = [rows |-> s.rows, lastOk |-> s.lastOk] /\ s.rows \in Rows

Shown(x, today) ==
    x \in Document /\ x.filed <= x.since /\ x.since <= today

IsJob(j) ==
    j = [step |-> j.step, by |-> j.by, todo |-> j.todo, index |-> j.index,
         allowed |-> j.allowed, era |-> j.era]

Late == {"era", "era docs", "members", "floor"}
Reading == {"senate docs", "era docs"}
Steps == {"idle", "house", "house docs", "senate", "senate docs"} \cup Late

Shapes ==
    /\ day \in Nat /\ day <= MaxDay
    /\ site = [d \in Primary |-> site[d]]
    /\ \A d \in Primary : site[d] # None => Shown(site[d], day)
    /\ release # None => IsStore(release)
    /\ IsStore(local) /\ IsStore(work) /\ IsStore(baseline)
    /\ IsJob(job) /\ job.step \in Steps /\ job.by \in {"nightly", "operator"}

-----------------------------------------------------------------------------
(* Amendments.                                                             *)

(* What a link names is there.                                             *)
Linked(rows) ==
    \A a \in Loaded(rows) :
        rows[a].supersedes # None => rows[a].supersedes \in Loaded(rows)

Flagged(rows) ==
    \A a \in Loaded(rows) : LET o == rows[a].supersedes IN
        o # None => \A f \in {a, o} : rows[f].rows > 0 => rows[f].flagged

(* Where the job is, and what it has listed.                               *)
Jobs ==
    /\ job.step # "idle" /\ job.by = "operator" =>
         release = None /\ job.step \notin Late
    /\ job.step # "idle" /\ job.by = "nightly" /\ release # None =>
         baseline = release
    /\ job.step # "idle" /\ job.by = "nightly" /\ job.step \notin Late =>
         work.lastOk = baseline.lastOk
    /\ job.step \in {"members", "floor"} =>
         Flagged(work.rows) \/ work.lastOk = baseline.lastOk
    /\ job.step = "house docs" => job.todo \subseteq Listed(House)
    /\ job.step \in Reading =>
         /\ job.todo \subseteq job.index /\ job.index \subseteq Listed(Senate)
         /\ job.index \ job.todo \subseteq Loaded(work.rows)
    /\ job.step \notin Reading \cup {"house docs"} => job.todo = {}

Links == /\ Linked(local.rows) /\ Linked(work.rows)
         /\ release # None => Linked(release.rows)

SoundInv == Shapes /\ Jobs /\ Links

-----------------------------------------------------------------------------
(* Freshness.                                                              *)

(* The filings that the window's start is taken from, and whose date each  *)
(* of them has.                                                            *)
Dated(rows) == {f \in Loaded(rows) : f \in Senate \/ (f \in Kadoa /\ Twin[f] \in Senate)}
Source(f) == IF f \in Senate THEN f ELSE Twin[f]

(* A store has what the index shows of a report, ...                       *)
Settled(rows, d) ==
    rows[d] # Absent /\ rows[d].archived /\ rows[d].kind = site[d].kind

(* ... the report is from before its window, ...                           *)
Older(rows, d) ==
    \E f \in Dated(rows) : site[d].filed + Rescan < rows[f].filed

(* ... or it is from before the window and missing.                        *)
Missed(rows, d) == ~Settled(rows, d) /\ Older(rows, d)

(* No store can hold anything that much newer.                             *)
Recent(d) == day <= site[d].filed + Rescan

(* Of what the window leaves out, a store lacks no more than its seed.     *)
Complete(rows, base) ==
    \A d \in Listed(Senate) : Missed(rows, d) => Missed(base, d)

(* All of the era that the window can leave out is there.                  *)
Swept(rows) ==
    \A d \in Listed(Senate) :
        site[d].filed <= EraEnd => Settled(rows, d) \/ Recent(d)

(* All that was there before the last run that heard the Senate.           *)
Fresh(s) ==
    s.lastOk # Never =>
        /\ s.lastOk \in Nat /\ s.lastOk <= day
        /\ \A d \in Listed(Senate) : site[d].since < s.lastOk =>
              Settled(s.rows, d) \/ Older(s.rows, d)

(* Every date is the one its index shows, and only what failed is not      *)
(* archived.                                                               *)
Plausible(rows) ==
    /\ \A f \in Dated(rows) :
          Source(f) \in Listed(Senate) /\ rows[f].filed = site[Source(f)].filed
    /\ \A f \in Loaded(rows) \cap Senate : rows[f].archived \/ rows[f].status = "failed"

Fine(s) == Fresh(s) /\ Plausible(s.rows)

(* Between the listing and the tail, of a report outside the index, ...    *)
Outside(d) ==
    /\ job.by = "nightly" =>
          \/ Settled(work.rows, d) \/ Missed(baseline.rows, d)
          \/ /\ ~Older(work.rows, d)
             /\ \A p \in job.todo : ~(site[d].filed + Rescan < site[p].filed)
    /\ job.step = "senate docs" =>
          Settled(work.rows, d) \/ Older(work.rows, d) \/ site[d].since = day
    /\ job.step = "era docs" => Recent(d) \/ ~(site[d].filed <= EraEnd)

(* ... and of one of the index that has been dealt with.                   *)
Inside(d) ==
    work.rows[d].kind = site[d].kind \/ (site[d].since = day /\ Recent(d))

FreshStores ==
    /\ Fine(local) /\ Fine(work) /\ Plausible(baseline.rows)
    /\ release # None => Fine(release)
    /\ job.by = "nightly" /\ job.step \notin Reading =>
          Complete(work.rows, baseline.rows)

FreshJobs ==
    /\ job.step \in Late =>
         work.lastOk # Never /\ day <= work.lastOk + MaxStaleness
    /\ job.era /\ job.step \in {"members", "floor"} => Swept(work.rows)
    /\ job.step \in Reading =>
         /\ work.lastOk # Never =>
              \A p \in job.todo : work.lastOk <= site[p].since \/ Older(work.rows, p)
         /\ \A d \in Listed(Senate) \ job.index : Outside(d)
         /\ \A d \in job.index \ job.todo : Inside(d)

FreshInv == FreshStores /\ FreshJobs

-----------------------------------------------------------------------------
(* What the writers of the store do to a row.                              *)

Page(page, d) ==
    /\ page.status \in {"parsed", "needs_ocr", "failed"}
    /\ page.kind = site[d].kind /\ page.filed = site[d].filed
    /\ page.rows \in Nat /\ page.archived \in BOOLEAN
    /\ page.archived \/ page.status = "failed"

LEMMA PageShape ==
    ASSUME NEW d, NEW page \in Evaluated(d) \cup FetchFailed(d)
    PROVE  Page(page, d)
<1>1. Counts \subseteq Nat
  BY CongressAssumption DEF Counts
<1>2. \E status \in {"parsed", "needs_ocr", "failed"}, n \in Nat, archived \in BOOLEAN :
         page = Fetched(d, status, n, archived) /\ (archived \/ status = "failed")
  BY <1>1 DEF Evaluated, HousePages, SenatePages, Parses, Unparsable, FetchFailed
<1> QED
  BY <1>2 DEF Page, Fetched

(* A row keeps its url, its date and its archive; only an archived one is  *)
(* parsed again.                                                           *)
Alike(rows, new) ==
    /\ new \in Rows
    /\ \A f \in Filings :
         /\ new[f] = Absent <=> rows[f] = Absent
         /\ rows[f] # Absent =>
              /\ new[f].kind = rows[f].kind
              /\ new[f].archived = rows[f].archived
              /\ new[f].filed = rows[f].filed
              /\ new[f].status = rows[f].status \/ rows[f].archived

SameLinks(rows, new) ==
    \A f \in Filings : rows[f] # Absent => new[f].supersedes = rows[f].supersedes

LEMMA RowFields ==
    ASSUME NEW rows \in Rows, NEW f \in Filings, rows[f] # Absent
    PROVE  /\ rows[f] \in Filing
           /\ rows[f].status \in {"parsed", "needs_ocr", "failed"}
           /\ rows[f].kind \in {"ptr", "paper"} /\ rows[f].archived \in BOOLEAN
           /\ rows[f].rows \in Nat /\ rows[f].flagged \in BOOLEAN
           /\ rows[f].joined \in BOOLEAN
           /\ rows[f].lifecycle \in {"active", "retired"}
           /\ rows[f].filed \in Nat
           /\ rows[f].supersedes \in Filings \cup {None}
<1>1. rows[f] \in Filing
  BY DEF Rows
<1> QED
  BY <1>1 DEF Filing

(* What an upsert makes of a store.                                        *)
Upserted(rows, f, page, new) ==
    /\ new \in Rows /\ new[f] # Absent
    /\ new[f].status = page.status /\ new[f].kind = page.kind
    /\ new[f].archived = page.archived /\ new[f].filed = page.filed
    /\ new[f].supersedes = IF rows[f] = Absent THEN None ELSE rows[f].supersedes
    /\ \A g \in Filings : g # f => new[g] = rows[g]

LEMMA UpsertRow ==
    ASSUME NEW rows \in Rows, NEW f \in Filings, NEW page,
           NEW lifecycle \in {"active", "retired"},
           page.status \in {"parsed", "needs_ocr", "failed"},
           page.kind \in {"ptr", "paper"}, page.filed \in Nat,
           page.rows \in Nat, page.archived \in BOOLEAN
    PROVE  Upserted(rows, f, page, Upsert(rows, f, page, lifecycle))
<1> DEFINE old == IF rows[f] = Absent THEN None ELSE rows[f].supersedes
           row == [status |-> page.status, kind |-> page.kind,
                   archived |-> page.archived, rows |-> page.rows,
                   flagged |-> page.rows > 0 /\ f \in DOMAIN Amends,
                   joined |-> FALSE, lifecycle |-> lifecycle,
                   filed |-> page.filed, supersedes |-> old]
<1>1. old \in Filings \cup {None}
  BY RowFields
<1>2. (page.rows > 0 /\ f \in DOMAIN Amends) \in BOOLEAN
  OBVIOUS
<1>3. row \in Filing
  <2> HIDE DEF old
  <2> QED
    BY <1>1, <1>2 DEF Filing
<1>4. row # Absent
  BY <1>3, RowAssumption DEF Absent
<1>5. Upsert(rows, f, page, lifecycle) = [rows EXCEPT ![f] = row]
  BY DEF Upsert
<1>6. [rows EXCEPT ![f] = row] \in Rows
  <2> HIDE DEF row
  <2> QED
    BY <1>3 DEF Rows
<1>7. [rows EXCEPT ![f] = row][f] = row
  <2> HIDE DEF row
  <2> QED
    BY DEF Rows
<1>8. \A g \in Filings : g # f => [rows EXCEPT ![f] = row][g] = rows[g]
  <2> HIDE DEF row
  <2> QED
    BY DEF Rows
<1> QED
  BY <1>4, <1>5, <1>6, <1>7, <1>8 DEF Upserted

LEMMA LoadRow ==
    ASSUME NEW rows \in Rows, NEW f \in Filings, rows[f] # Absent, NEW page,
           page.status \in {"parsed", "needs_ocr", "failed"}, page.rows \in Nat,
           rows[f].archived
    PROVE  Alike(rows, LoadFiling(rows, f, page))
           /\ SameLinks(rows, LoadFiling(rows, f, page))
<1> DEFINE new == LoadFiling(rows, f, page)
           tag == page.rows > 0 /\ f \in DOMAIN Amends
           row == [rows[f] EXCEPT !.status = page.status, !.rows = page.rows,
             !.flagged = tag]
<1>1. tag \in BOOLEAN
  OBVIOUS
<1>2. row \in Filing
  <2> DEFINE old == rows[f]
  <2>1. old \in Filing
    BY RowFields
  <2> HIDE DEF tag, old
  <2>2. [old EXCEPT !.status = page.status, !.rows = page.rows, !.flagged = tag]
          \in Filing
    BY <1>1, <2>1 DEF Filing
  <2> QED
    BY <2>2 DEF old
<1>3. row.kind = rows[f].kind /\ row.archived = rows[f].archived
      /\ row.filed = rows[f].filed /\ row.supersedes = rows[f].supersedes
  BY RowFields DEF Filing
<1>4. new = [rows EXCEPT ![f] = row]
  BY DEF LoadFiling, Rows
<1>5. row # Absent
  BY <1>2, RowAssumption DEF Absent
<1> HIDE DEF row, new
<1>6. new \in Rows
  BY <1>2, <1>4 DEF Rows
<1>7. \A g \in Filings : new[g] = IF g = f THEN row ELSE rows[g]
  BY <1>4 DEF Rows
<1> QED
  BY <1>3, <1>5, <1>6, <1>7 DEF Alike, SameLinks, new

(* The passes over a whole store.                                          *)
LEMMA JoinRows ==
    ASSUME NEW rows \in Rows, NEW roster
    PROVE  LET new == JoinMembers(rows, roster) IN
           /\ Alike(rows, new) /\ SameLinks(rows, new)
           /\ \A f \in Filings : rows[f] # Absent =>
                 new[f].rows = rows[f].rows /\ new[f].flagged = rows[f].flagged
<1> DEFINE new == JoinMembers(rows, roster)
<1>1. \A f \in Filings : new[f] = IF rows[f] = Absent THEN Absent
                              ELSE [rows[f] EXCEPT !.joined = f \in roster]
  BY DEF JoinMembers, Rows
<1>2. new = [f \in Filings |-> new[f]]
  BY DEF JoinMembers, Rows
<1> HIDE DEF new
<1>3. ASSUME NEW f \in Filings, rows[f] # Absent
      PROVE  /\ new[f] \in Filing /\ new[f] # Absent
             /\ new[f].kind = rows[f].kind /\ new[f].archived = rows[f].archived
             /\ new[f].filed = rows[f].filed /\ new[f].status = rows[f].status
             /\ new[f].supersedes = rows[f].supersedes
             /\ new[f].rows = rows[f].rows /\ new[f].flagged = rows[f].flagged
  <2>1. rows[f] \in Filing
    BY <1>3, RowFields
  <2>2. new[f] = [rows[f] EXCEPT !.joined = f \in roster]
    BY <1>1, <1>3
  <2>3. (f \in roster) \in BOOLEAN
    OBVIOUS
  <2>4. new[f] \in Filing
    BY <2>1, <2>2, <2>3 DEF Filing
  <2> QED
    BY <2>1, <2>2, <2>4, RowAssumption DEF Filing, Absent
<1>4. new \in Rows
  BY <1>1, <1>2, <1>3 DEF Rows
<1> QED
  BY <1>1, <1>3, <1>4, Zenon DEF Alike, SameLinks, new

LEMMA CrosswalkRows ==
    ASSUME NEW rows \in Rows
    PROVE  Alike(rows, Crosswalk(rows)) /\ SameLinks(rows, Crosswalk(rows))
<1> DEFINE new == Crosswalk(rows)
<1>1. ASSUME NEW f \in Filings
      PROVE  \/ new[f] = rows[f]
             \/ rows[f] # Absent /\ new[f] = [rows[f] EXCEPT !.lifecycle = "retired"]
  <2> DEFINE replaced == /\ f \in Kadoa \cap Loaded(rows)
                         /\ rows[f].lifecycle = "active"
                         /\ Twin[f] \in Loaded(rows)
                         /\ rows[Twin[f]].status = "parsed"
                         /\ rows[Twin[f]].kind = rows[f].kind
  <2>1. DOMAIN rows = Filings
    BY DEF Rows
  <2>2. new[f] = IF replaced THEN [rows[f] EXCEPT !.lifecycle = "retired"] ELSE rows[f]
    BY <2>1 DEF Crosswalk
  <2>3. replaced => rows[f] # Absent
    BY DEF Loaded
  <2> QED
    BY <2>2, <2>3
<1>2. new = [f \in Filings |-> new[f]]
  BY DEF Crosswalk, Rows
<1> HIDE DEF new
<1>3. ASSUME NEW f \in Filings, rows[f] # Absent
      PROVE  /\ new[f] \in Filing /\ new[f] # Absent
             /\ new[f].kind = rows[f].kind /\ new[f].archived = rows[f].archived
             /\ new[f].filed = rows[f].filed /\ new[f].status = rows[f].status
             /\ new[f].supersedes = rows[f].supersedes
  <2>1. rows[f] \in Filing
    BY <1>3, RowFields
  <2>2. CASE new[f] = rows[f]
    BY <1>3, <2>1, <2>2
  <2>3. CASE new[f] = [rows[f] EXCEPT !.lifecycle = "retired"]
    BY <2>1, <2>3, RowAssumption DEF Filing, Absent
  <2> QED
    BY <1>1, <2>2, <2>3
<1>4. new \in Rows
  BY <1>1, <1>2, <1>3 DEF Rows
<1> QED
  BY <1>1, <1>3, <1>4, Zenon DEF Alike, SameLinks, new

SameStatus(rows, new) ==
    \A f \in Filings : rows[f] # Absent => new[f].status = rows[f].status

LEMMA LinkRows ==
    ASSUME NEW rows \in Rows, NEW index, index \subseteq Loaded(rows)
    PROVE  LET new == LinkAmendments(rows, index) IN
           /\ Alike(rows, new) /\ SameStatus(rows, new)
           /\ \A f \in Filings : rows[f] # Absent =>
                 \/ new[f].supersedes = rows[f].supersedes
                 \/ new[f].supersedes = None
                 \/ new[f].supersedes \in Loaded(rows)
<1> DEFINE new == LinkAmendments(rows, index)
           Target(f) == LET found == Candidates(rows, index, f) IN
                        IF Cardinality(found) = 1 THEN CHOOSE o \in found : TRUE
                                                  ELSE None
<1>1. DOMAIN rows = Filings
  BY DEF Rows
<1>2. \A f \in Filings :
         new[f] = IF f \in index \cap DOMAIN Amends /\ rows[f] # Absent
                  THEN [rows[f] EXCEPT !.supersedes = Target(f)] ELSE rows[f]
  BY <1>1 DEF LinkAmendments
<1>3. new = [f \in Filings |-> new[f]]
  BY <1>1 DEF LinkAmendments
<1>4. ASSUME NEW f
      PROVE  Target(f) = None \/ Target(f) \in Loaded(rows)
  <2> DEFINE found == Candidates(rows, index, f)
  <2>1. found \subseteq Loaded(rows)
    BY DEF Candidates
  <2>2. CASE Cardinality(found) = 1
    <3>1. found # {}
      BY <2>2, FS_EmptySet
    <3>2. (CHOOSE o \in found : TRUE) \in found
      <4> HIDE DEF found
      <4> QED
        BY <3>1
    <3> QED
      BY <2>1, <2>2, <3>2
  <2> QED
    BY <2>2
<1>5. \A f : Target(f) \in Filings \cup {None}
  BY <1>1, <1>4 DEF Loaded
<1> HIDE DEF new, Target
<1>6. ASSUME NEW f \in Filings, rows[f] # Absent
      PROVE  /\ new[f] \in Filing /\ new[f] # Absent
             /\ new[f].kind = rows[f].kind /\ new[f].archived = rows[f].archived
             /\ new[f].filed = rows[f].filed /\ new[f].status = rows[f].status
             /\ new[f].supersedes = rows[f].supersedes
                \/ new[f].supersedes = None
                \/ new[f].supersedes \in Loaded(rows)
  <2>1. rows[f] \in Filing
    BY <1>6, RowFields
  <2>2. CASE new[f] = rows[f]
    BY <1>6, <2>1, <2>2
  <2>3. CASE new[f] = [rows[f] EXCEPT !.supersedes = Target(f)]
    <3>1. new[f] \in Filing
      BY <1>5, <2>1, <2>3 DEF Filing
    <3> QED
      BY <1>4, <2>1, <2>3, <3>1, RowAssumption DEF Filing, Absent
  <2> QED
    BY <1>2, <2>2, <2>3
<1>7. \A f \in Filings : rows[f] = Absent => new[f] = Absent
  BY <1>2
<1>8. new \in Rows
  BY <1>3, <1>6, <1>7 DEF Rows
<1> QED
  BY <1>6, <1>7, <1>8, Zenon DEF Alike, SameStatus, new

LEMMA FlagRows ==
    ASSUME NEW rows \in Rows
    PROVE  LET new == FlagPairs(rows) IN
           /\ Alike(rows, new) /\ SameLinks(rows, new) /\ SameStatus(rows, new)
           /\ Linked(rows) => Flagged(new)
<1> DEFINE linked == {a \in Loaded(rows) : rows[a].supersedes # None}
           sides == linked \cup {rows[a].supersedes : a \in linked}
           new == FlagPairs(rows)
<1>1. DOMAIN rows = Filings
  BY DEF Rows
<1>2. \A f \in Filings :
         new[f] = IF f \in sides /\ rows[f] # Absent /\ rows[f].rows > 0
                  THEN [rows[f] EXCEPT !.flagged = TRUE] ELSE rows[f]
  BY <1>1 DEF FlagPairs
<1>3. new = [f \in Filings |-> new[f]]
  BY <1>1 DEF FlagPairs
<1>4. \A a \in Loaded(rows) : rows[a].supersedes # None =>
         a \in sides /\ rows[a].supersedes \in sides
  OBVIOUS
<1> HIDE DEF new, sides
<1>5. ASSUME NEW f \in Filings, rows[f] # Absent
      PROVE  /\ new[f] \in Filing /\ new[f] # Absent
             /\ new[f].kind = rows[f].kind /\ new[f].archived = rows[f].archived
             /\ new[f].filed = rows[f].filed /\ new[f].status = rows[f].status
             /\ new[f].supersedes = rows[f].supersedes
             /\ new[f].rows = rows[f].rows
             /\ f \in sides /\ rows[f].rows > 0 => new[f].flagged
  <2>1. rows[f] \in Filing
    BY <1>5, RowFields
  <2>2. CASE new[f] = rows[f] /\ ~(f \in sides /\ rows[f].rows > 0)
    BY <1>5, <2>1, <2>2
  <2>3. CASE new[f] = [rows[f] EXCEPT !.flagged = TRUE]
    BY <2>1, <2>3, RowAssumption DEF Filing, Absent
  <2> QED
    BY <1>2, <1>5, <2>2, <2>3
<1>6. \A f \in Filings : rows[f] = Absent => new[f] = Absent
  BY <1>2
<1>7. new \in Rows
  BY <1>3, <1>5, <1>6 DEF Rows
<1>8. ASSUME Linked(rows) PROVE Flagged(new)
  <2> SUFFICES ASSUME NEW a \in Loaded(new), new[a].supersedes # None,
                      NEW f \in {a, new[a].supersedes}, new[f].rows > 0
               PROVE  new[f].flagged
    BY DEF Flagged
  <2>1. a \in Filings /\ a \in Loaded(rows)
    BY <1>1, <1>3, <1>6 DEF Loaded
  <2>2. new[a].supersedes = rows[a].supersedes
    BY <1>5, <2>1 DEF Loaded
  <2>3. f \in Filings /\ rows[f] # Absent /\ f \in sides
    BY <1>1, <1>4, <1>8, <2>1, <2>2 DEF Linked, Loaded
  <2> QED
    BY <1>5, <2>3
<1>9. Alike(rows, new) /\ SameLinks(rows, new) /\ SameStatus(rows, new)
  BY <1>5, <1>6, <1>7, Zenon DEF Alike, SameLinks, SameStatus
<1> QED
  BY <1>8, <1>9, Zenon DEF new

LEMMA AlikeChain ==
    ASSUME NEW a, NEW b, NEW c, Alike(a, b), Alike(b, c)
    PROVE  Alike(a, c)
BY DEF Alike

LEMMA AlikeLinked ==
    ASSUME NEW rows \in Rows, NEW new, Alike(rows, new), Linked(rows),
           \A f \in Filings : rows[f] # Absent =>
                 \/ new[f].supersedes = rows[f].supersedes
                 \/ new[f].supersedes = None
                 \/ new[f].supersedes \in Loaded(rows)
    PROVE  Linked(new)
<1>1. Loaded(new) = Loaded(rows)
  BY DEF Alike, Loaded, Rows
<1>2. \A f \in Loaded(rows) : f \in Filings /\ rows[f] # Absent
  BY DEF Loaded, Rows
<1> QED
  BY <1>1, <1>2 DEF Linked

(* The tail of a Senate run.                                               *)
LEMMA TailStore ==
    ASSUME NEW scope, work.rows \in Rows, Linked(work.rows),
           job.index \subseteq Loaded(work.rows)
    PROVE  /\ Alike(work.rows, Tail(scope).rows)
           /\ Linked(Tail(scope).rows) /\ Flagged(Tail(scope).rows)
           /\ IsStore(Tail(scope)) /\ SameStatus(work.rows, Tail(scope).rows)
<1> DEFINE mid == LinkAmendments(work.rows, job.index)
           new == FlagPairs(mid)
<1>1. Alike(work.rows, mid) /\ Linked(mid) /\ SameStatus(work.rows, mid)
  BY LinkRows, AlikeLinked
<1>2. mid \in Rows
  BY <1>1 DEF Alike
<1>3. Alike(mid, new) /\ SameLinks(mid, new) /\ Flagged(new) /\ SameStatus(mid, new)
  BY <1>1, <1>2, FlagRows
<1>4. Linked(new)
  BY <1>1, <1>2, <1>3, AlikeLinked DEF SameLinks
<1>5. Alike(work.rows, new)
  BY <1>1, <1>3, AlikeChain
<1>6. Tail(scope).rows = new /\ Tail(scope) = [rows |-> Tail(scope).rows,
        lastOk |-> Tail(scope).lastOk]
  BY DEF Tail
<1>7. SameStatus(work.rows, new)
  <2> HIDE DEF mid, new
  <2> QED
    BY <1>1, <1>3 DEF SameStatus, Alike
<1> QED
  BY <1>3, <1>4, <1>5, <1>6, <1>7 DEF IsStore, Alike

-----------------------------------------------------------------------------
(* Nothing is lost or left unflagged: the invariant.                       *)

LEMMA EmptyIsStore ==
    /\ IsStore(Empty) /\ Empty.lastOk = Never
    /\ Loaded(Empty.rows) = {} /\ Linked(Empty.rows)
<1>1. Empty.rows = [f \in Filings |-> Absent]
  BY DEF Empty
<1>2. Loaded(Empty.rows) = {}
  BY <1>1 DEF Loaded
<1> QED
  BY <1>1, <1>2 DEF IsStore, Rows, Empty, Linked

LEMMA NoJobFields ==
    /\ IsJob(NoJob) /\ NoJob.step = "idle" /\ NoJob.by = "nightly"
    /\ NoJob.todo = {} /\ NoJob.index = {}
BY DEF NoJob, IsJob

LEMMA InitSound == Init => SoundInv
<1> SUFFICES ASSUME Init PROVE SoundInv
  OBVIOUS
<1>1. Shapes
  <2>1. \A d \in Primary : site[d] # None => Shown(site[d], day)
    BY CongressAssumption DEF Init, Shown, Document
  <2>2. site = [d \in Primary |-> site[d]]
    BY DEF Init
  <2> QED
    BY <2>1, <2>2, EmptyIsStore, NoJobFields, CongressAssumption DEF Init, Shapes, Steps
<1>2. Jobs
  BY NoJobFields DEF Init, Jobs, Late, Reading
<1>3. Links
  BY EmptyIsStore DEF Init, Links
<1> QED
  BY <1>1, <1>2, <1>3 DEF SoundInv

(* What one document becomes at its source.                                *)
LEMMA SourceSound ==
    ASSUME SoundInv,
           site' = [d \in Primary |-> site'[d]],
           \A d \in Primary : site'[d] # None => Shown(site'[d], day'),
           \A d \in Primary : site[d] # None => site'[d] # None,
           day' \in Nat, day' <= MaxDay,
           UNCHANGED <<release, local, work, baseline, job>>
    PROVE  SoundInv'
<1>1. Shapes'
  BY DEF SoundInv, Shapes, IsStore, IsJob
<1>2. Listed(Senate) \subseteq Listed(Senate)' /\ Listed(House) \subseteq Listed(House)'
  BY DEF Listed, Primary
<1>3. Jobs'
  BY <1>2 DEF SoundInv, Jobs
<1>4. Links'
  BY DEF SoundInv, Links
<1> QED
  BY <1>1, <1>3, <1>4 DEF SoundInv

LEMMA FileSound ==
    ASSUME SoundInv, NEW d \in Primary, NEW kind \in {"ptr", "paper"},
           FileDocument(d, kind)
    PROVE  SoundInv'
<1> DEFINE new == [kind |-> kind, filed |-> day, since |-> day]
<1>1. day \in Nat /\ day <= MaxDay /\ site = [e \in Primary |-> site[e]]
  BY DEF SoundInv, Shapes
<1>2. site' = [site EXCEPT ![d] = new] /\ day' = day
  BY DEF FileDocument
<1>3. \A e \in Primary : site'[e] = IF e = d THEN new ELSE site[e]
  BY <1>1, <1>2
<1>4. site' = [e \in Primary |-> site'[e]]
  BY <1>1, <1>2
<1>5. Shown(new, day')
  BY <1>1, <1>2 DEF Shown, Document
<1>6. new # None
  BY <1>5, CongressAssumption DEF Shown
<1> HIDE DEF new
<1>7. \A e \in Primary : site'[e] # None => Shown(site'[e], day')
  BY <1>2, <1>3, <1>5 DEF SoundInv, Shapes
<1> QED
  BY <1>1, <1>2, <1>3, <1>4, <1>6, <1>7, SourceSound DEF FileDocument

LEMMA ConvertSound ==
    ASSUME SoundInv, NEW d \in Senate, ConvertPaper(d)
    PROVE  SoundInv'
<1>1. day \in Nat /\ day <= MaxDay /\ site = [e \in Primary |-> site[e]] /\ d \in Primary
  BY DEF SoundInv, Shapes, Primary
<1> DEFINE new == [site[d] EXCEPT !.kind = "ptr", !.since = day]
<1>2. site' = [site EXCEPT ![d] = new] /\ day' = day
  BY <1>1 DEF ConvertPaper
<1>3. Shown(site[d], day)
  BY <1>1 DEF SoundInv, Shapes, ConvertPaper
<1>4. Shown(new, day')
  <2>1. new \in Document /\ new.filed = site[d].filed /\ new.since = day
    BY <1>1, <1>3 DEF Shown, Document
  <2>2. site[d].filed \in Nat /\ site[d].filed <= day
    BY <1>1, <1>3 DEF Shown, Document
  <2> HIDE DEF new
  <2> QED
    BY <1>1, <1>2, <2>1, <2>2 DEF Shown
<1>5. new # None
  BY <1>4, CongressAssumption DEF Shown
<1> HIDE DEF new
<1>6. \A e \in Primary : site'[e] = IF e = d THEN new ELSE site[e]
  BY <1>1, <1>2
<1>7. site' = [e \in Primary |-> site'[e]]
  BY <1>1, <1>2
<1>8. \A e \in Primary : site'[e] # None => Shown(site'[e], day')
  BY <1>2, <1>4, <1>6 DEF SoundInv, Shapes
<1> QED
  BY <1>1, <1>2, <1>5, <1>6, <1>7, <1>8, SourceSound DEF ConvertPaper

LEMMA ClockSound ==
    ASSUME SoundInv, NextDay \/ CalmDown
    PROVE  SoundInv'
<1>1. day \in Nat /\ day <= MaxDay /\ MaxDay \in Nat
  BY CongressAssumption DEF SoundInv, Shapes
<1>2. day' \in Nat /\ day <= day' /\ day' <= MaxDay
  BY <1>1 DEF NextDay, CalmDown
<1>3. UNCHANGED <<site, release, local, work, baseline, job>>
  BY DEF NextDay, CalmDown
<1>4. \A d \in Primary : site'[d] # None => Shown(site'[d], day')
  BY <1>1, <1>2, <1>3 DEF SoundInv, Shapes, Shown, Document
<1> QED
  BY <1>2, <1>3, <1>4, SourceSound DEF SoundInv, Shapes

LEMMA StopSound ==
    ASSUME SoundInv, Stop
    PROVE  SoundInv'
<1>1. Shapes'
  BY EmptyIsStore, NoJobFields DEF Stop, SoundInv, Shapes, IsStore, IsJob, Steps
<1>2. Jobs'
  BY NoJobFields DEF Stop, Jobs, Late, Reading
<1>3. Links'
  BY EmptyIsStore DEF Stop, SoundInv, Links, Linked, Loaded
<1> QED
  BY <1>1, <1>2, <1>3 DEF SoundInv

(* A step that only moves the job on.                                      *)
LEMMA GotoSound ==
    ASSUME SoundInv, NEW step \in Steps, Goto(step),
           job.step # "idle", step \notin Reading \cup {"house docs"},
           job.by = "operator" => step \notin Late,
           job.step \in Late => step \in Late,
           step \in {"members", "floor"} =>
              Flagged(work.rows)' \/ work'.lastOk = baseline.lastOk,
           UNCHANGED <<site, day, release, local, baseline>>,
           IsStore(work'), Linked(work'.rows),
           job.by = "nightly" /\ step \notin Late => work' = work
    PROVE  SoundInv'
<1>1. IsJob(job') /\ job'.step = step /\ job'.by = job.by /\ job'.todo = {}
  BY DEF Goto, IsJob, SoundInv, Shapes
<1>2. Shapes'
  BY <1>1 DEF SoundInv, Shapes, IsStore
<1>3. Jobs'
  BY <1>1 DEF SoundInv, Jobs
<1>4. Links'
  BY DEF SoundInv, Links
<1> QED
  BY <1>2, <1>3, <1>4 DEF SoundInv

LEMMA SeedSound ==
    ASSUME SoundInv, Seed
    PROVE  SoundInv'
<1>1. /\ IsJob(job') /\ job'.step = "house" /\ job'.by = "nightly" /\ job'.todo = {}
  BY DEF Seed, NoJob, IsJob
<1>2. /\ work' = baseline' /\ UNCHANGED <<site, day, release, local>>
      /\ work' = IF release # None THEN release ELSE local
  BY DEF Seed
<1>a. IsStore(work') /\ Linked(work'.rows)
  BY <1>2 DEF SoundInv, Shapes, Links
<1>3. Shapes'
  <2>1. IsStore(local') /\ IsStore(baseline') /\ (release' # None => IsStore(release'))
    BY <1>2, <1>a DEF SoundInv, Shapes
  <2> QED
    BY <1>1, <1>2, <1>a, <2>1 DEF SoundInv, Shapes, IsStore, Steps
<1>4. Jobs'
  <2>1. work'.lastOk = baseline'.lastOk /\ (release' # None => baseline' = release')
    BY <1>2
  <2> QED
    BY <1>1, <2>1 DEF Jobs, Reading
<1>5. Links'
  BY <1>2, <1>a DEF SoundInv, Links
<1> QED
  BY <1>3, <1>4, <1>5 DEF SoundInv

LEMMA OperatorSound ==
    ASSUME SoundInv, NEW step \in {"house", "senate"}, OperatorStarts(step)
    PROVE  SoundInv'
<1>1. /\ IsJob(job') /\ job'.step = step /\ job'.by = "operator" /\ job'.todo = {}
  BY DEF OperatorStarts, NoJob, IsJob
<1>2. /\ release = None /\ work' = local
      /\ UNCHANGED <<site, day, release, local, baseline>>
  BY DEF OperatorStarts, Bootstrapping
<1>3. Shapes'
  BY <1>1, <1>2 DEF SoundInv, Shapes, IsStore, Steps
<1>4. Jobs'
  BY <1>1, <1>2 DEF Jobs, Reading, Late
<1>5. Links'
  BY <1>2 DEF SoundInv, Links
<1> QED
  BY <1>3, <1>4, <1>5 DEF SoundInv

(* A listing, of the House or of the Senate.                               *)
LEMMA ListingSound ==
    ASSUME SoundInv, NEW step \in Reading \cup {"house docs"}, NEW index, NEW todo,
           job' = [job EXCEPT !.step = step, !.index = index, !.todo = todo],
           job.step # "idle", job.by = "operator" => step \notin Late,
           job.step \in Late => step \in Late,
           step = "house docs" => todo \subseteq Listed(House),
           step \in Reading => /\ todo \subseteq index /\ index \subseteq Listed(Senate)
                               /\ index \ todo \subseteq Loaded(work.rows),
           UNCHANGED <<site, day, release, local, work, baseline>>
    PROVE  SoundInv'
<1>1. IsJob(job') /\ job'.step = step /\ job'.by = job.by
      /\ job'.todo = todo /\ job'.index = index
  BY DEF IsJob, SoundInv, Shapes
<1>2. Shapes'
  BY <1>1 DEF SoundInv, Shapes, IsStore, Steps, Late, Reading
<1>3. Listed(Senate)' = Listed(Senate) /\ Listed(House)' = Listed(House)
  BY DEF Listed
<1>4. step \notin {"members", "floor"}
  BY DEF Reading
<1>5. Jobs'
  BY <1>1, <1>3, <1>4 DEF SoundInv, Jobs
<1>6. Links'
  BY DEF SoundInv, Links
<1> QED
  BY <1>2, <1>5, <1>6 DEF SoundInv

LEMMA DiscoverSound ==
    ASSUME SoundInv, HouseDiscovers \/ SenateDiscovers \/ EraDiscovers
    PROVE  SoundInv'
<1>1. work.rows \in Rows
  BY DEF SoundInv, Shapes, IsStore
<1>2. job.by = "operator" => job.step # "era"
  BY DEF SoundInv, Jobs, Late
<1>3. CASE HouseDiscovers
  <2>1. HouseTodo \subseteq Listed(House)
    BY DEF HouseTodo
  <2> QED
    BY <1>3, <2>1, ListingSound DEF HouseDiscovers, Late, Reading
<1>4. \A index : index \subseteq Listed(Senate) =>
         /\ Unsettled(work.rows, index) \subseteq index
         /\ index \ Unsettled(work.rows, index) \subseteq Loaded(work.rows)
  BY <1>1 DEF Unsettled, Loaded, Rows, Listed, Filings, Primary
<1>5. CASE SenateDiscovers
  <2> DEFINE index == Window(work.rows)
             todo == Unsettled(work.rows, index)
  <2>1. index \subseteq Listed(Senate)
    BY DEF Window
  <2>2. /\ todo \subseteq index /\ index \ todo \subseteq Loaded(work.rows)
    BY <1>4, <2>1
  <2>3. /\ job.step = "senate"
        /\ job' = [job EXCEPT !.step = "senate docs", !.index = index, !.todo = todo]
        /\ UNCHANGED <<site, day, release, local, work, baseline>>
    BY <1>5 DEF SenateDiscovers, Discover
  <2> HIDE DEF index, todo
  <2>4. /\ "senate docs" \in Reading \cup {"house docs"} /\ "senate docs" \notin Late
        /\ "senate" \notin Late /\ "senate docs" # "house docs" /\ "senate" # "idle"
    BY DEF Late, Reading
  <2> QED
    BY <2>1, <2>2, <2>3, <2>4, ListingSound
<1>6. CASE EraDiscovers
  <2>1. EraWindow \subseteq Listed(Senate)
    BY DEF EraWindow
  <2> QED
    BY <1>2, <1>4, <1>6, <2>1, ListingSound DEF EraDiscovers, Discover, Late, Reading
<1> QED
  BY <1>3, <1>5, <1>6

LEMMA FinishSound ==
    ASSUME SoundInv, HouseReconciles \/ SenateBlocked
    PROVE  SoundInv'
<1>1. work.rows \in Rows /\ IsStore(work) /\ Linked(work.rows)
  BY DEF SoundInv, Shapes, IsStore, Links
<1>2. CASE Stop
  BY <1>2, StopSound
<1>3. CASE HouseReconciles /\ ~Stop
  <2>1. Goto("senate") /\ UNCHANGED <<site, day, release, local, baseline, work>>
    BY <1>3 DEF HouseReconciles, Finish
  <2>2. job.step = "house docs"
    BY <1>3 DEF HouseReconciles
  <2> QED
    BY <1>1, <2>1, <2>2, GotoSound DEF Steps, Late, Reading
<1>4. CASE SenateBlocked /\ ~Stop
  <2>1. UNCHANGED <<site, day, release, local, baseline, work>>
    BY <1>4 DEF SenateBlocked
  <2>2. PICK step \in {"era", "members"} : Goto(step)
    BY <1>4 DEF SenateBlocked
  <2>3. job.step = "senate" /\ job.by = "nightly"
    BY <1>4 DEF SenateBlocked
  <2>4. work'.lastOk = baseline.lastOk
    BY <2>1, <2>3 DEF SoundInv, Jobs, Late
  <2> QED
    BY <1>1, <2>1, <2>2, <2>3, <2>4, GotoSound DEF Steps, Late, Reading
<1> QED
  BY <1>2, <1>3, <1>4

LEMMA ProcessSound ==
    ASSUME SoundInv, NEW d \in Primary, Process(d)
    PROVE  SoundInv'
<1>1. work.rows \in Rows /\ IsStore(work) /\ Linked(work.rows) /\ IsJob(job)
  BY DEF SoundInv, Shapes, IsStore, Links
<1>2. d \in Filings /\ d \in job.todo
  BY DEF Primary, Filings, Process
<1>3. job.step \in Reading \cup {"house docs"} /\ site[d] # None /\ Shown(site[d], day)
  BY <1>2 DEF SoundInv, Jobs, Listed, Shapes
<1>4. PICK page \in Evaluated(d) \cup FetchFailed(d) :
         work' = [work EXCEPT !.rows = Upsert(@, d, page, Standing(@, d))]
  BY DEF Process
<1> DEFINE new == Upsert(work.rows, d, page, Standing(work.rows, d))
<1>5. work' = [work EXCEPT !.rows = new]
  BY <1>4
<1>6. Upserted(work.rows, d, page, new)
  <2>1. Standing(work.rows, d) \in {"active", "retired"}
    BY <1>1, <1>2, RowFields DEF Standing
  <2>2. Page(page, d) /\ site[d].kind \in {"ptr", "paper"} /\ site[d].filed \in Nat
    BY <1>3, PageShape DEF Shown, Document
  <2>3. /\ page.status \in {"parsed", "needs_ocr", "failed"}
        /\ page.kind \in {"ptr", "paper"} /\ page.filed \in Nat
        /\ page.rows \in Nat /\ page.archived \in BOOLEAN
    BY <2>2 DEF Page
  <2> QED
    BY <1>1, <1>2, <2>1, <2>3, UpsertRow
<1> HIDE DEF new
<1>7. IsStore(work') /\ work'.rows = new /\ work'.lastOk = work.lastOk
  BY <1>1, <1>5, <1>6 DEF IsStore, Upserted
<1>8. Loaded(work.rows) \subseteq Loaded(new) /\ d \in Loaded(new)
  BY <1>1, <1>2, <1>6 DEF Loaded, Rows, Upserted
<1>9. Linked(new)
  <2> SUFFICES ASSUME NEW a \in Loaded(new), new[a].supersedes # None
               PROVE  new[a].supersedes \in Loaded(new)
    BY DEF Linked
  <2>1. a \in Filings
    BY <1>6 DEF Loaded, Rows, Upserted
  <2>2. work.rows[a] # Absent /\ new[a].supersedes = work.rows[a].supersedes
    BY <1>6, <2>1 DEF Loaded, Upserted
  <2>3. a \in Loaded(work.rows)
    BY <1>1, <2>1, <2>2 DEF Loaded, Rows
  <2> QED
    BY <1>1, <1>8, <2>2, <2>3 DEF Linked
<1>10. /\ IsJob(job') /\ job'.step = job.step /\ job'.by = job.by
       /\ job'.index = job.index /\ job'.todo = job.todo \ {d}
       /\ UNCHANGED <<site, day, release, local, baseline>>
  BY <1>1 DEF Process, IsJob
<1>11. Shapes'
  BY <1>7, <1>10 DEF SoundInv, Shapes, IsStore
<1>12. Jobs'
  <2>1. Listed(Senate)' = Listed(Senate) /\ Listed(House)' = Listed(House)
    BY <1>10 DEF Listed
  <2>2. job.step \notin {"members", "floor", "idle"}
    BY <1>3 DEF Reading
  <2> QED
    BY <1>3, <1>7, <1>8, <1>10, <2>1, <2>2 DEF SoundInv, Jobs
<1>13. Links'
  BY <1>7, <1>9, <1>10 DEF SoundInv, Links
<1> QED
  BY <1>11, <1>12, <1>13 DEF SoundInv

LEMMA TailSound ==
    ASSUME SoundInv, SenateReconciles \/ EraReconciles
    PROVE  SoundInv'
<1>1. job.step \in Reading /\ job.todo = {}
  BY DEF SenateReconciles, EraReconciles, TailThen, Reading
<1>2. work.rows \in Rows /\ Linked(work.rows) /\ job.index \subseteq Loaded(work.rows)
  BY <1>1 DEF SoundInv, Shapes, IsStore, Links, Jobs
<1>3. PICK scope \in {"nightly", "era"}, step \in {"era", "members"} : TailThen(scope, step)
  BY DEF SenateReconciles, EraReconciles
<1>4. /\ IsStore(Tail(scope)) /\ Linked(Tail(scope).rows) /\ Flagged(Tail(scope).rows)
  BY <1>2, TailStore
<1>5. CASE Reconciled(work.rows, job.index) /\ job.by = "nightly"
  <2>1. work' = Tail(scope) /\ Goto(step)
        /\ UNCHANGED <<site, day, release, local, baseline>>
    BY <1>3, <1>5 DEF TailThen
  <2>2. IsStore(work') /\ Linked(work'.rows) /\ Flagged(work.rows)'
    BY <1>4, <2>1 DEF Flagged, Loaded
  <2> QED
    BY <1>1, <1>5, <2>1, <2>2, GotoSound DEF Steps, Late, Reading
<1>6. CASE ~(Reconciled(work.rows, job.index) /\ job.by = "nightly")
  <2>1. /\ local' = IF job.by = "operator" THEN Tail(scope) ELSE local
        /\ job' = NoJob /\ work' = Empty /\ baseline' = Empty
        /\ UNCHANGED <<site, day, release>>
    BY <1>3, <1>6 DEF TailThen
  <2>2. Shapes'
    BY <1>4, <2>1, EmptyIsStore, NoJobFields DEF SoundInv, Shapes, IsStore, IsJob, Steps
  <2>3. Jobs'
    BY <2>1, NoJobFields DEF Jobs, Late, Reading
  <2>4. Links'
    BY <1>4, <2>1, EmptyIsStore DEF SoundInv, Links
  <2> QED
    BY <2>2, <2>3, <2>4 DEF SoundInv
<1> QED
  BY <1>5, <1>6

(* The operator's store.                                                   *)
LEMMA LocalSound ==
    ASSUME SoundInv, IsStore(local'), Linked(local'.rows),
           UNCHANGED <<site, day, release, work, baseline, job>>
    PROVE  SoundInv'
<1>1. Shapes'
  BY DEF SoundInv, Shapes, IsStore, IsJob
<1>2. Listed(Senate)' = Listed(Senate) /\ Listed(House)' = Listed(House)
  BY DEF Listed
<1>3. Jobs'
  BY <1>2 DEF SoundInv, Jobs
<1>4. Links'
  BY DEF SoundInv, Links
<1> QED
  BY <1>1, <1>3, <1>4 DEF SoundInv

LEMMA ImportSound ==
    ASSUME SoundInv, NEW k \in Kadoa, ImportSeed(k)
    PROVE  SoundInv'
<1> DEFINE page == Fetched(Twin[k], "parsed", 1, FALSE)
           new == Upsert(local.rows, k, page, "active")
<1>1. local.rows \in Rows /\ IsStore(local) /\ Linked(local.rows)
      /\ k \in Filings /\ Twin[k] \in Primary
  BY FilingAssumption DEF SoundInv, Shapes, IsStore, Links, Filings
<1>2. local' = [local EXCEPT !.rows = new]
      /\ UNCHANGED <<site, day, release, work, baseline, job>>
  BY DEF ImportSeed
<1>3. /\ page.status = "parsed" /\ page.kind \in {"ptr", "paper"} /\ page.filed \in Nat
      /\ page.rows \in Nat /\ page.archived \in BOOLEAN
  <2>1. Shown(site[Twin[k]], day)
    BY <1>1 DEF ImportSeed, SoundInv, Shapes
  <2> QED
    BY <2>1 DEF Fetched, Shown, Document
<1> HIDE DEF page
<1>4. Upserted(local.rows, k, page, new)
  <2>1. "active" \in {"active", "retired"} /\
          page.status \in {"parsed", "needs_ocr", "failed"}
    BY <1>3
  <2> QED
    BY <1>1, <1>3, <2>1, UpsertRow
<1> HIDE DEF new
<1>5. IsStore(local') /\ local'.rows = new
  BY <1>1, <1>2, <1>4 DEF IsStore, Upserted
<1>6. Loaded(local.rows) \subseteq Loaded(new)
  BY <1>1, <1>4 DEF Loaded, Rows, Upserted
<1>7. Linked(new)
  <2> SUFFICES ASSUME NEW a \in Loaded(new), new[a].supersedes # None
               PROVE  new[a].supersedes \in Loaded(new)
    BY DEF Linked
  <2>1. a \in Filings
    BY <1>4 DEF Loaded, Rows, Upserted
  <2>2. local.rows[a] # Absent /\ new[a].supersedes = local.rows[a].supersedes
    BY <1>4, <2>1 DEF Loaded, Upserted
  <2>3. a \in Loaded(local.rows)
    BY <1>1, <2>1, <2>2 DEF Loaded, Rows
  <2> QED
    BY <1>1, <1>6, <2>2, <2>3 DEF Linked
<1> QED
  BY <1>2, <1>5, <1>7, LocalSound

(* What a reparse or the crosswalk makes of the operator's store.          *)
LEMMA CurationRows ==
    ASSUME SoundInv, ApplyCrosswalk \/ \E d \in Primary : Reparse(d)
    PROVE  /\ Alike(local.rows, local'.rows) /\ SameLinks(local.rows, local'.rows)
           /\ local'.lastOk = local.lastOk /\ IsStore(local')
           /\ UNCHANGED <<site, day, calm, release, work, baseline, job>>
<1>1. local.rows \in Rows /\ IsStore(local)
  BY DEF SoundInv, Shapes, IsStore
<1>2. CASE ApplyCrosswalk
  <2> DEFINE new == Crosswalk(local.rows)
  <2>1. Alike(local.rows, new) /\ SameLinks(local.rows, new)
    BY <1>1, CrosswalkRows
  <2>2. local' = [local EXCEPT !.rows = new]
        /\ UNCHANGED <<site, day, calm, release, work, baseline, job>>
    BY <1>2 DEF ApplyCrosswalk
  <2> HIDE DEF new
  <2> QED
    BY <1>1, <2>1, <2>2 DEF IsStore, Alike
<1>3. ASSUME NEW d \in Primary, Reparse(d)
      PROVE  /\ Alike(local.rows, local'.rows) /\ SameLinks(local.rows, local'.rows)
             /\ local'.lastOk = local.lastOk /\ IsStore(local')
             /\ UNCHANGED <<site, day, calm, release, work, baseline, job>>
  <2>1. PICK page \in Evaluated(d) :
           local' = [local EXCEPT !.rows = FlagPairs(LoadFiling(@, d, page))]
    BY <1>3 DEF Reparse
  <2> DEFINE mid == LoadFiling(local.rows, d, page)
             new == FlagPairs(mid)
  <2>2. local' = [local EXCEPT !.rows = new]
        /\ UNCHANGED <<site, day, calm, release, work, baseline, job>>
    BY <1>3, <2>1 DEF Reparse
  <2>3. d \in Filings /\ local.rows[d] # Absent /\ local.rows[d].archived
    BY <1>1, <1>3 DEF Reparse, Loaded, Filings
  <2>4. Page(page, d)
    BY PageShape
  <2>5. Alike(local.rows, mid) /\ SameLinks(local.rows, mid)
    BY <1>1, <2>3, <2>4, LoadRow DEF Page
  <2>6. mid \in Rows
    BY <2>5 DEF Alike
  <2>7. Alike(mid, new) /\ SameLinks(mid, new)
    BY <2>6, FlagRows
  <2>8. Alike(local.rows, new) /\ SameLinks(local.rows, new)
    <3>1. Alike(local.rows, new)
      BY <2>5, <2>7, AlikeChain
    <3>2. SameLinks(local.rows, new)
      <4> HIDE DEF mid, new
      <4> QED
        BY <2>5, <2>7 DEF SameLinks, Alike
    <3> QED
      BY <3>1, <3>2
  <2> HIDE DEF new
  <2> QED
    BY <1>1, <2>2, <2>8 DEF IsStore, Alike
<1> QED
  BY <1>2, <1>3

LEMMA CurationSound ==
    ASSUME SoundInv, ApplyCrosswalk \/ \E d \in Primary : Reparse(d)
    PROVE  SoundInv'
<1>1. local.rows \in Rows /\ Linked(local.rows)
  BY DEF SoundInv, Shapes, IsStore, Links
<1>2. Linked(local'.rows)
  BY <1>1, CurationRows, AlikeLinked DEF SameLinks
<1> QED
  BY <1>2, CurationRows, LocalSound

LEMMA JoinSound ==
    ASSUME SoundInv, JoinStep
    PROVE  SoundInv'
<1>1. work.rows \in Rows /\ IsStore(work) /\ Linked(work.rows) /\ job.step = "members"
  BY DEF SoundInv, Shapes, IsStore, Links, JoinStep
<1>2. PICK roster \in Rosters : work' = [work EXCEPT !.rows = JoinMembers(@, roster)]
  BY DEF JoinStep
<1> DEFINE new == JoinMembers(work.rows, roster)
<1>3. work' = [work EXCEPT !.rows = new]
  BY <1>2
<1>4. /\ Alike(work.rows, new) /\ SameLinks(work.rows, new)
      /\ \A f \in Filings : work.rows[f] # Absent =>
            new[f].rows = work.rows[f].rows /\ new[f].flagged = work.rows[f].flagged
  BY <1>1, JoinRows
<1> HIDE DEF new
<1>5. IsStore(work') /\ work'.rows = new /\ work'.lastOk = work.lastOk
  BY <1>1, <1>3, <1>4 DEF IsStore, Alike
<1>6. Linked(new)
  BY <1>1, <1>4, AlikeLinked DEF SameLinks
<1>7. Loaded(new) = Loaded(work.rows) /\ Loaded(new) \subseteq Filings
  BY <1>1, <1>4 DEF Alike, Loaded, Rows
<1>8. Flagged(work.rows) => Flagged(new)
  <2> SUFFICES ASSUME Flagged(work.rows), NEW a \in Loaded(new), new[a].supersedes # None,
                      NEW f \in {a, new[a].supersedes}, new[f].rows > 0
               PROVE  new[f].flagged
    BY DEF Flagged
  <2>1. f \in Loaded(work.rows) /\ new[a].supersedes = work.rows[a].supersedes
    BY <1>4, <1>6, <1>7 DEF Linked, SameLinks, Loaded
  <2>2. new[f].rows = work.rows[f].rows /\ new[f].flagged = work.rows[f].flagged
    BY <1>4, <1>7, <2>1 DEF Loaded
  <2> QED
    BY <1>7, <2>1, <2>2 DEF Flagged
<1>9. Flagged(work.rows)' \/ work'.lastOk = baseline.lastOk
  <2>1. Flagged(work.rows)' <=> Flagged(new)
    BY <1>5 DEF Flagged, Loaded
  <2> QED
    BY <1>1, <1>5, <1>8, <2>1 DEF SoundInv, Jobs
<1>10. job.by # "operator" /\ job.step # "idle" /\ "floor" \in Steps /\ "floor" \in Late
       /\ "floor" \notin Reading \cup {"house docs"}
  BY <1>1 DEF SoundInv, Jobs, Late, Steps, Reading
<1>11. Goto("floor") /\ UNCHANGED <<site, day, release, local, baseline>>
  BY DEF JoinStep
<1> QED
  BY <1>5, <1>6, <1>9, <1>10, <1>11, GotoSound

LEMMA FloorSound ==
    ASSUME SoundInv, CorpusFloor
    PROVE  SoundInv'
<1>1. CASE Stop
  BY <1>1, StopSound
<1>2. CASE ~Stop
  <2>1. /\ release' = work /\ job' = NoJob
        /\ work' = Empty /\ baseline' = Empty /\ local' = Empty
        /\ UNCHANGED <<site, day>>
    BY <1>2 DEF CorpusFloor
  <2>2. Shapes'
    BY <2>1, EmptyIsStore, NoJobFields DEF SoundInv, Shapes, IsStore, IsJob, Steps
  <2>3. Jobs'
    BY <2>1, NoJobFields DEF Jobs, Late, Reading
  <2>4. Links'
    BY <2>1, EmptyIsStore DEF SoundInv, Links
  <2> QED
    BY <2>2, <2>3, <2>4 DEF SoundInv
<1> QED
  BY <1>1, <1>2

LEMMA NextSound ==
    ASSUME SoundInv, [Next]_vars
    PROVE  SoundInv'
<1>1. CASE Next
  <2>1. CASE \E d \in Primary, kind \in {"ptr", "paper"} : FileDocument(d, kind)
    BY <2>1, FileSound
  <2>2. CASE \E d \in Senate : ConvertPaper(d)
    BY <2>2, ConvertSound
  <2>3. CASE NextDay \/ CalmDown
    BY <2>3, ClockSound
  <2>4. CASE Seed
    BY <2>4, SeedSound
  <2>5. CASE \E step \in {"house", "senate"} : OperatorStarts(step)
    BY <2>5, OperatorSound
  <2>6. CASE Die
    BY <2>6, StopSound DEF Die
  <2>7. CASE HouseDiscovers \/ SenateDiscovers \/ EraDiscovers
    BY <2>7, DiscoverSound
  <2>8. CASE HouseReconciles \/ SenateBlocked
    BY <2>8, FinishSound
  <2>9. CASE \E d \in Primary : Process(d)
    BY <2>9, ProcessSound
  <2>10. CASE SenateReconciles \/ EraReconciles
    BY <2>10, TailSound
  <2>11. CASE \E k \in Kadoa : ImportSeed(k)
    BY <2>11, ImportSound
  <2>12. CASE ApplyCrosswalk \/ \E d \in Primary : Reparse(d)
    BY <2>12, CurationSound
  <2>13. CASE JoinStep
    BY <2>13, JoinSound
  <2>14. CASE CorpusFloor
    BY <2>14, FloorSound
  <2> QED
    BY <1>1, <2>1, <2>2, <2>3, <2>4, <2>5, <2>6, <2>7, <2>8, <2>9, <2>10,
       <2>11, <2>12, <2>13, <2>14, Zenon DEF Next
<1>2. CASE UNCHANGED vars
  <2>1. UNCHANGED <<site, day, release, local, work, baseline, job>>
    BY <1>2 DEF vars
  <2>2. day \in Nat /\ day <= MaxDay
        /\ site = [d \in Primary |-> site[d]]
        /\ \A d \in Primary : site[d] # None => Shown(site[d], day)
    BY DEF SoundInv, Shapes
  <2> QED
    BY <2>1, <2>2, SourceSound
<1> QED
  BY <1>1, <1>2

(* Every store has its shape, a nightly works from the release it read,    *)
(* and what a link names is in the store (the data job of publish.yml,     *)
(* amendments.py, load.py).                                                *)
THEOREM NightlyInvariant == NightlySpec => []SoundInv
<1>1. Init => SoundInv
  BY InitSound
<1>2. SoundInv /\ [Next]_vars => SoundInv'
  BY NextSound
<1> QED
  BY <1>1, <1>2, PTL DEF NightlySpec

(* Only the corpus floor publishes.                                        *)
LEMMA OnlyFloorPublishes ==
    ASSUME [Next]_vars, release' # release
    PROVE  CorpusFloor /\ release' = work
<1>1. ~Stop
  BY DEF Stop
<1>2. ~Die /\ ~(\E step \in {"senate", "era"} : Finish(step))
  BY <1>1 DEF Die, Finish
<1>3. ~HouseReconciles /\ ~SenateBlocked /\ ~SenateReconciles /\ ~EraReconciles
  BY <1>1, <1>2 DEF HouseReconciles, SenateBlocked, SenateReconciles,
       EraReconciles, TailThen
<1>4. CorpusFloor
  BY <1>1, <1>2, <1>3 DEF Next, vars, FileDocument, ConvertPaper, NextDay, CalmDown, Seed,
       OperatorStarts, HouseDiscovers, SenateDiscovers, EraDiscovers, Discover,
       Process, ImportSeed, ApplyCrosswalk, Reparse, JoinStep
<1> QED
  BY <1>1, <1>4 DEF CorpusFloor

LEMMA PublicationKeeps ==
    ASSUME SoundInv, [Next]_vars, release # None, release' # release
    PROVE  \A f \in Loaded(release.rows) :
              /\ release'.rows[f] # Absent
              /\ f \in job.allowed \/
                 /\ release'.rows[f].rows >= release.rows[f].rows
                 /\ release.rows[f].joined => release'.rows[f].joined
<1>1. CorpusFloor /\ release' = work
  BY OnlyFloorPublishes
<1>2. FloorHolds(baseline.rows, work.rows, job.allowed)
  BY <1>1 DEF CorpusFloor, Stop
<1>3. baseline = release
  BY <1>1 DEF CorpusFloor, SoundInv, Jobs, Shapes
<1> QED
  BY <1>1, <1>2, <1>3 DEF FloorHolds, Loaded

LEMMA PublicationFlags ==
    ASSUME SoundInv, [Next]_vars, release' # release, release'.lastOk # baseline.lastOk
    PROVE  Flagged(release'.rows)
<1>1. CorpusFloor /\ release' = work
  BY OnlyFloorPublishes
<1> QED
  BY <1>1 DEF CorpusFloor, SoundInv, Jobs

(* Rule R44 and the flags of an amendment pair: no release loses a filing, *)
(* a transaction or a join of the one before it, whatever the jobs between *)
(* them fetched, converted or left behind, and a night that heard the      *)
(* Senate publishes both sides of every pair with the flag (the floor of   *)
(* publish/seed.py, amendments.py).                                        *)
THEOREM ReleasesSound == NightlySpec => ReleasesAreSound
<1>1. SoundInv /\ [Next]_vars =>
        [release # None /\ release' # release =>
          \A f \in Loaded(release.rows) :
             /\ release'.rows[f] # Absent
             /\ f \in job.allowed \/
                /\ release'.rows[f].rows >= release.rows[f].rows
                /\ release.rows[f].joined => release'.rows[f].joined]_vars
  BY PublicationKeeps
<1>2. SoundInv /\ [Next]_vars =>
        [release' # release /\ release'.lastOk # baseline.lastOk =>
          \A a \in Loaded(release'.rows) :
             LET o == release'.rows[a].supersedes IN
             o # None => \A f \in {a, o} :
                 release'.rows[f].rows > 0 => release'.rows[f].flagged]_vars
  BY PublicationFlags DEF Flagged
<1>3. NightlySpec => ReleasesNeverLose
  BY <1>1, NightlyInvariant, PTL DEF NightlySpec, ReleasesNeverLose
<1>4. NightlySpec => PairsAreFlagged
  BY <1>2, NightlyInvariant, PTL DEF NightlySpec, PairsAreFlagged
<1> QED
  BY <1>3, <1>4 DEF ReleasesAreSound

-----------------------------------------------------------------------------
(* Nothing is older than the bound: the invariant.                         *)

LEMMA ListedShown ==
    ASSUME SoundInv, NEW d \in Listed(Senate) \cup Listed(House)
    PROVE  /\ d \in Primary /\ d \in Filings /\ site[d] # None /\ site[d] \in Document
           /\ site[d].filed \in Nat /\ site[d].since \in Nat
           /\ site[d].kind \in {"ptr", "paper"}
           /\ site[d].filed <= site[d].since /\ site[d].since <= day
BY DEF Listed, SoundInv, Shapes, Shown, Document, Filings, Primary

LEMMA DatedRows ==
    ASSUME NEW rows \in Rows, NEW f \in Dated(rows)
    PROVE  f \in Filings /\ f \in Loaded(rows) /\ rows[f] # Absent /\ rows[f].filed \in Nat
<1>1. f \in Filings /\ f \in Loaded(rows) /\ rows[f] # Absent
  BY DEF Dated, Loaded, Rows
<1> QED
  BY <1>1, RowFields

LEMMA DatesPast ==
    ASSUME SoundInv, NEW rows \in Rows, Plausible(rows), NEW f \in Dated(rows)
    PROVE  rows[f].filed \in Nat /\ rows[f].filed <= day
<1>1. Source(f) \in Listed(Senate) /\ rows[f].filed = site[Source(f)].filed
  BY DEF Plausible
<1>2. day \in Nat
  BY DEF SoundInv, Shapes
<1>3. /\ site[Source(f)].filed \in Nat /\ site[Source(f)].since \in Nat
      /\ site[Source(f)].filed <= site[Source(f)].since /\ site[Source(f)].since <= day
  BY <1>1, ListedShown
<1> QED
  BY <1>1, <1>2, <1>3

LEMMA RecentIsInWindow ==
    ASSUME SoundInv, NEW rows \in Rows, Plausible(rows),
           NEW d \in Listed(Senate), Recent(d)
    PROVE  ~Older(rows, d)
<1> SUFFICES ASSUME NEW f \in Dated(rows), site[d].filed + Rescan < rows[f].filed
             PROVE  FALSE
  BY DEF Older
<1>1. rows[f].filed \in Nat /\ rows[f].filed <= day
  BY DatesPast
<1>2. day \in Nat /\ Rescan \in Nat /\ site[d].filed \in Nat
  BY ListedShown, CongressAssumption DEF SoundInv, Shapes
<1> QED
  BY <1>1, <1>2 DEF Recent

LEMMA AlikeFresh ==
    ASSUME SoundInv, NEW rows \in Rows, NEW new, Alike(rows, new)
    PROVE  /\ Loaded(new) = Loaded(rows)
           /\ \A d \in Listed(Senate) : /\ Settled(rows, d) <=> Settled(new, d)
                                        /\ Older(rows, d) <=> Older(new, d)
           /\ Plausible(rows) => Plausible(new)
           /\ Swept(rows) => Swept(new)
           /\ \A base : Complete(rows, base) => Complete(new, base)
<1>1. Loaded(new) = Loaded(rows) /\ Loaded(rows) \subseteq Filings
  BY DEF Alike, Loaded, Rows
<1>2. Dated(new) = Dated(rows) /\ Dated(rows) \subseteq Loaded(rows)
  BY <1>1 DEF Dated
<1>3. \A f \in Loaded(rows) : /\ new[f].filed = rows[f].filed
                              /\ new[f].archived = rows[f].archived
                              /\ new[f].status = rows[f].status \/ rows[f].archived
  BY <1>1 DEF Alike, Loaded
<1>4. \A d \in Listed(Senate) : Settled(rows, d) <=> Settled(new, d)
  BY ListedShown DEF Alike, Settled
<1>5. \A d : Older(rows, d) <=> Older(new, d)
  BY <1>2, <1>3 DEF Older
<1>6. Plausible(rows) => Plausible(new)
  BY <1>1, <1>2, <1>3 DEF Plausible
<1>7. Swept(rows) => Swept(new)
  BY <1>4 DEF Swept
<1>8. \A base : Complete(rows, base) => Complete(new, base)
  BY <1>4, <1>5 DEF Complete, Missed
<1> QED
  BY <1>1, <1>4, <1>5, <1>6, <1>7, <1>8

LEMMA AlikeFine ==
    ASSUME SoundInv, NEW s, NEW t, s.rows \in Rows, Alike(s.rows, t.rows),
           t.lastOk = s.lastOk, Fine(s)
    PROVE  Fine(t)
BY AlikeFresh DEF Fine, Fresh

LEMMA SameSite ==
    ASSUME UNCHANGED <<site, day>>
    PROVE  /\ Fine(work)' <=> Fine(work')
           /\ Fine(local)' <=> Fine(local')
           /\ Fine(release)' <=> Fine(release')
           /\ Plausible(baseline.rows)' <=> Plausible(baseline'.rows)
           /\ Swept(work.rows)' <=> Swept(work'.rows)
           /\ Complete(work.rows, baseline.rows)' <=> Complete(work'.rows, baseline'.rows)
           /\ Listed(Senate)' = Listed(Senate)
<1>1. \A c : Listed(c)' = Listed(c)
  BY DEF Listed
<1>2. Fine(work)' <=> Fine(work')
  BY <1>1 DEF Fine, Fresh, Settled, Older, Dated, Loaded, Plausible
<1>3. Fine(local)' <=> Fine(local')
  BY <1>1 DEF Fine, Fresh, Settled, Older, Dated, Loaded, Plausible
<1>4. Fine(release)' <=> Fine(release')
  BY <1>1 DEF Fine, Fresh, Settled, Older, Dated, Loaded, Plausible
<1>5. Plausible(baseline.rows)' <=> Plausible(baseline'.rows)
  BY <1>1 DEF Plausible, Dated, Loaded
<1>6. Swept(work.rows)' <=> Swept(work'.rows)
  BY <1>1 DEF Swept, Settled, Recent
<1>7. Complete(work.rows, baseline.rows)' <=> Complete(work'.rows, baseline'.rows)
  BY <1>1 DEF Complete, Missed, Settled, Older, Dated, Loaded
<1>8. Listed(Senate)' = Listed(Senate)
  BY DEF Listed
<1> QED
  BY <1>2, <1>3, <1>4, <1>5, <1>6, <1>7, <1>8

LEMMA EmptyFresh ==
    Fine(Empty) /\ Plausible(Empty.rows) /\ \A base : Complete(Empty.rows, base)
BY EmptyIsStore DEF Fine, Fresh, Plausible, Complete, Missed, Older, Dated

LEMMA InitFresh == Init => FreshInv
<1> SUFFICES ASSUME Init PROVE FreshInv
  OBVIOUS
<1>1. FreshStores
  BY EmptyFresh DEF Init, FreshStores
<1>2. FreshJobs
  BY NoJobFields DEF Init, FreshJobs, Late, Reading
<1> QED
  BY <1>1, <1>2 DEF FreshInv

(* A document changes at its source, or a day passes.                      *)
LEMMA SourceFresh ==
    ASSUME SoundInv, FreshInv,
           UNCHANGED <<release, local, work, baseline, job>>,
           day' \in Nat, day <= day',
           day' = day \/ (job.step = "idle" /\ site' = site),
           \A d \in Listed(Senate) : d \in Listed(Senate)' /\
             site'[d].filed = site[d].filed,
           \A d \in Listed(Senate)' :
              \/ d \in Listed(Senate) /\ site'[d] = site[d]
              \/ /\ site'[d].filed \in Nat /\ site'[d].filed <= day
                 /\ site'[d].since = day /\ day <= site'[d].filed + Rescan
                 /\ day' = day
    PROVE  FreshInv'
<1>1. /\ day \in Nat /\ Rescan \in Nat /\ work.rows \in Rows /\ local.rows \in Rows
      /\ baseline.rows \in Rows /\ (release # None => release.rows \in Rows)
  BY CongressAssumption DEF SoundInv, Shapes, IsStore
<1> DEFINE New(d) == /\ site'[d].filed \in Nat /\ site'[d].filed <= day
                     /\ site'[d].since = day /\ day <= site'[d].filed + Rescan
                     /\ day' = day
           Same(d) == d \in Listed(Senate) /\ site'[d] = site[d]
           Has(rows, d) == rows[d] # Absent /\ rows[d].archived /\
                             rows[d].kind = site'[d].kind
           Past(rows, d) == \E f \in Dated(rows) : site'[d].filed + Rescan < rows[f].filed
<1>2. \A d \in Listed(Senate)' : Same(d) \/ New(d)
  OBVIOUS
<1>3. ASSUME NEW rows, NEW d, Same(d)
      PROVE  (Settled(rows, d) <=> Has(rows, d)) /\ (Older(rows, d) <=> Past(rows, d))
  BY <1>3 DEF Settled, Older
<1>4. ASSUME NEW rows \in Rows, Plausible(rows), NEW d, New(d)
      PROVE  ~Past(rows, d)
  <2> SUFFICES ASSUME NEW f \in Dated(rows), site'[d].filed + Rescan < rows[f].filed
               PROVE  FALSE
    OBVIOUS
  <2>1. rows[f].filed \in Nat /\ rows[f].filed <= day
    BY <1>4, DatesPast
  <2> QED
    BY <1>1, <1>4, <2>1
<1>5. ASSUME NEW s, Fresh(s)
      PROVE  s.lastOk # Never =>
               /\ s.lastOk \in Nat /\ s.lastOk <= day'
               /\ \A d \in Listed(Senate)' : site'[d].since < s.lastOk =>
                    Has(s.rows, d) \/ Past(s.rows, d)
  <2> SUFFICES ASSUME s.lastOk # Never
               PROVE  /\ s.lastOk \in Nat /\ s.lastOk <= day'
                      /\ \A d \in Listed(Senate)' : site'[d].since < s.lastOk =>
                           Has(s.rows, d) \/ Past(s.rows, d)
    OBVIOUS
  <2>1. s.lastOk \in Nat /\ s.lastOk <= day /\ s.lastOk <= day'
    BY <1>1, <1>5 DEF Fresh
  <2>2. ASSUME NEW d \in Listed(Senate)', site'[d].since < s.lastOk
        PROVE  Has(s.rows, d) \/ Past(s.rows, d)
    <3>1. Same(d)
      <4>1. ~New(d)
        BY <1>1, <2>1, <2>2
      <4> QED
        BY <1>2, <4>1
    <3>2. Settled(s.rows, d) \/ Older(s.rows, d)
      <4> HIDE DEF Has, Past
      <4> QED
        BY <1>5, <2>2, <3>1 DEF Fresh
    <3> QED
      BY <1>3, <3>1, <3>2
  <2> QED
    BY <2>1, <2>2
<1>6. ASSUME NEW rows, Plausible(rows)
      PROVE  /\ \A f \in Dated(rows) :
                  Source(f) \in Listed(Senate)' /\ rows[f].filed = site'[Source(f)].filed
             /\ \A f \in Loaded(rows) \cap Senate :
                  rows[f].archived \/ rows[f].status = "failed"
  BY <1>6 DEF Plausible
<1>7. Fine(local)' /\ Fine(work)' /\ Plausible(baseline.rows)' /\
        (release # None => Fine(release)')
  <2>1. Fresh(local)' /\ Fresh(work)' /\ (release # None => Fresh(release)')
    BY <1>5 DEF FreshInv, FreshStores, Fine, Fresh, Settled, Older, Dated, Loaded
  <2>2. /\ Plausible(local.rows)' /\ Plausible(work.rows)' /\ Plausible(baseline.rows)'
        /\ release # None => Plausible(release.rows)'
    BY <1>6 DEF FreshInv, FreshStores, Fine, Plausible, Dated, Loaded
  <2> QED
    BY <2>1, <2>2 DEF Fine
<1>8. Plausible(work.rows)
  BY DEF FreshInv, FreshStores, Fine
<1>9. ASSUME Complete(work.rows, baseline.rows)
      PROVE  Complete(work.rows, baseline.rows)'
  <2>1. ASSUME NEW d \in Listed(Senate)', ~Has(work.rows, d), Past(work.rows, d)
        PROVE  ~Has(baseline.rows, d) /\ Past(baseline.rows, d)
    <3>1. Same(d)
      <4> HIDE DEF Past
      <4> QED
        BY <1>1, <1>2, <1>4, <1>8, <2>1
    <3>2. Missed(work.rows, d)
      BY <1>3, <2>1, <3>1 DEF Missed
    <3>3. Missed(baseline.rows, d)
      <4> HIDE DEF Past, Has
      <4> QED
        BY <1>9, <3>1, <3>2 DEF Complete
    <3> QED
      BY <1>3, <3>1, <3>3 DEF Missed
  <2> QED
    BY <2>1 DEF Complete, Missed, Settled, Older, Dated, Loaded
<1>10. FreshStores'
  BY <1>7, <1>9 DEF FreshInv, FreshStores
<1>11. ASSUME job.step # "idle", Swept(work.rows)
       PROVE  Swept(work.rows)'
  <2>1. day' = day
    BY <1>11
  <2>2. ASSUME NEW d \in Listed(Senate)', site'[d].filed <= EraEnd
        PROVE  Has(work.rows, d) \/ day' <= site'[d].filed + Rescan
    <3>1. CASE Same(d)
      BY <1>3, <1>11, <2>1, <2>2, <3>1 DEF Swept, Recent
    <3>2. CASE New(d)
      BY <2>1, <3>2
    <3> QED
      BY <1>2, <3>1, <3>2
  <2> QED
    BY <2>2 DEF Swept, Settled, Recent
<1>12. ASSUME job.step \in Reading
       PROVE  /\ work.lastOk # Never => \A p \in job.todo :
                   work.lastOk <= site'[p].since \/ Past(work.rows, p)
              /\ \A d \in Listed(Senate)' \ job.index : Outside(d)'
              /\ \A d \in job.index \ job.todo : Inside(d)'
  <2>1. job.todo \subseteq job.index /\ job.index \subseteq Listed(Senate)
    BY <1>12 DEF SoundInv, Jobs
  <2>2. day' = day
    BY <1>12 DEF Reading
  <2>3. ASSUME work.lastOk # Never, NEW p \in job.todo
        PROVE  work.lastOk <= site'[p].since \/ Past(work.rows, p)
    <3>1. /\ work.lastOk <= site[p].since \/ Older(work.rows, p)
          /\ work.lastOk <= day
      BY <1>12, <2>3 DEF FreshInv, FreshJobs, FreshStores, Fine, Fresh
    <3>2. CASE Same(p)
      BY <1>3, <3>1, <3>2
    <3>3. CASE New(p)
      BY <3>1, <3>3
    <3> QED
      BY <1>2, <2>1, <3>2, <3>3
  <2>4. ASSUME NEW d \in Listed(Senate)' \ job.index
        PROVE  /\ job.by = "nightly" =>
                     \/ Has(work.rows, d) \/ (~Has(baseline.rows, d) /\ Past(baseline.rows, d))
                     \/ /\ ~Past(work.rows, d)
                        /\ \A p \in job.todo : ~(site'[d].filed + Rescan < site'[p].filed)
               /\ job.step = "senate docs" =>
                     Has(work.rows, d) \/ Past(work.rows, d) \/ site'[d].since = day'
               /\ job.step = "era docs" =>
                     day' <= site'[d].filed + Rescan \/ ~(site'[d].filed <= EraEnd)
    <3>1. \A p \in job.todo : site'[p].filed = site[p].filed
      BY <2>1
    <3>2. CASE Same(d)
      <4>1. Outside(d)
        <5> HIDE DEF Has, Past
        <5> QED
          BY <1>12, <2>4, <3>2 DEF FreshInv, FreshJobs
      <4> HIDE DEF Has, Past
      <4> QED
        BY <1>3, <2>2, <3>1, <3>2, <4>1 DEF Outside, Recent, Missed
    <3>3. CASE New(d)
      <4>1. ~Past(work.rows, d)
        <5> HIDE DEF Past
        <5> QED
          BY <1>1, <1>4, <1>8, <3>3
      <4>2. \A p \in job.todo : ~(site'[d].filed + Rescan < site'[p].filed)
        <5>1. \A p \in job.todo : /\ site[p].filed \in Nat /\ site[p].filed <= day
                                   /\ site'[p].filed = site[p].filed
          BY <1>1, <2>1, <3>1, ListedShown
        <5> QED
          BY <1>1, <3>3, <5>1
      <4> QED
        BY <2>2, <3>3, <4>1, <4>2
    <3> QED
      BY <1>2, <3>2, <3>3
  <2>5. \A d \in Listed(Senate)' \ job.index : Outside(d)'
    <3> HIDE DEF Same, New
    <3> QED
      BY <2>4 DEF Outside, Missed, Settled, Older, Dated, Loaded, Recent
  <2>6. ASSUME NEW d \in job.index \ job.todo PROVE Inside(d)'
    <3>1. d \in Listed(Senate)'
      BY <2>1
    <3>2. Inside(d)
      BY <1>12, <2>6 DEF FreshInv, FreshJobs
    <3> QED
      BY <2>2, <3>1, <3>2 DEF Inside, Recent
  <2> QED
    BY <2>3, <2>5, <2>6
<1>13. FreshJobs'
  <2>1. ASSUME job.step \in Reading, work.lastOk # Never, NEW p \in job.todo
        PROVE  work.lastOk <= site'[p].since \/ Older(work.rows, p)'
    BY <1>12, <2>1 DEF Older, Dated, Loaded
  <2>2. job.step # "idle" => day' = day
    OBVIOUS
  <2> HIDE DEF Same, New, Has, Past
  <2> QED
    BY <1>11, <1>12, <2>1, <2>2 DEF FreshInv, FreshJobs, Late, Reading
<1> QED
  BY <1>10, <1>13 DEF FreshInv

LEMMA FileFresh ==
    ASSUME SoundInv, FreshInv, NEW d \in Primary, NEW kind \in {"ptr", "paper"},
           FileDocument(d, kind)
    PROVE  FreshInv'
<1> DEFINE new == [kind |-> kind, filed |-> day, since |-> day]
<1>1. day \in Nat /\ site = [e \in Primary |-> site[e]] /\ Rescan \in Nat
  BY CongressAssumption DEF SoundInv, Shapes
<1>2. site' = [site EXCEPT ![d] = new] /\ day' = day /\ site[d] = None
      /\ UNCHANGED <<release, local, work, baseline, job>>
  BY DEF FileDocument
<1>3. \A e \in Primary : site'[e] = IF e = d THEN new ELSE site[e]
  BY <1>1, <1>2
<1>4. new \in Document
  BY <1>1 DEF Document
<1>5. new # None
  BY <1>4, CongressAssumption
<1>6. new.filed = day /\ new.since = day
  OBVIOUS
<1> HIDE DEF new
<1>7. \A e \in Listed(Senate) : e \in Listed(Senate)' /\ site'[e].filed = site[e].filed
  BY <1>2, <1>3 DEF Listed, Primary
<1>8. \A e \in Listed(Senate)' :
         \/ e \in Listed(Senate) /\ site'[e] = site[e]
         \/ /\ site'[e].filed \in Nat /\ site'[e].filed <= day
            /\ site'[e].since = day /\ day <= site'[e].filed + Rescan
            /\ day' = day
  BY <1>1, <1>2, <1>3, <1>6 DEF Listed, Primary
<1>9. day' \in Nat /\ day <= day' /\ day' = day
  BY <1>1, <1>2
<1> QED
  BY <1>2, <1>7, <1>8, <1>9, SourceFresh

LEMMA ConvertFresh ==
    ASSUME SoundInv, FreshInv, NEW d \in Senate, ConvertPaper(d)
    PROVE  FreshInv'
<1> DEFINE new == [site[d] EXCEPT !.kind = "ptr", !.since = day]
<1>1. day \in Nat /\ site = [e \in Primary |-> site[e]] /\ Rescan \in Nat /\ d \in Primary
  BY CongressAssumption DEF SoundInv, Shapes, Primary
<1>2. /\ site' = [site EXCEPT ![d] = new] /\ day' = day
      /\ site[d] # None /\ day <= site[d].filed + Rescan
      /\ UNCHANGED <<release, local, work, baseline, job>>
  BY <1>1 DEF ConvertPaper
<1>3. site[d] \in Document /\ site[d].filed \in Nat /\ site[d].filed <= day
  BY <1>1, <1>2, ListedShown DEF Listed
<1>4. new \in Document /\ new.filed = site[d].filed /\ new.since = day
  BY <1>1, <1>3 DEF Document
<1>5. new # None
  BY <1>4, CongressAssumption
<1> HIDE DEF new
<1>6. \A e \in Primary : site'[e] = IF e = d THEN new ELSE site[e]
  BY <1>1, <1>2
<1>7. \A e \in Listed(Senate) : e \in Listed(Senate)' /\ site'[e].filed = site[e].filed
  BY <1>4, <1>5, <1>6 DEF Listed, Primary
<1>8. \A e \in Listed(Senate)' :
         \/ e \in Listed(Senate) /\ site'[e] = site[e]
         \/ /\ site'[e].filed \in Nat /\ site'[e].filed <= day
            /\ site'[e].since = day /\ day <= site'[e].filed + Rescan
            /\ day' = day
  BY <1>1, <1>2, <1>3, <1>4, <1>6 DEF Listed, Primary
<1>9. day' \in Nat /\ day <= day' /\ day' = day
  BY <1>1, <1>2
<1> QED
  BY <1>2, <1>7, <1>8, <1>9, SourceFresh

LEMMA ClockFresh ==
    ASSUME SoundInv, FreshInv, NextDay \/ CalmDown \/ UNCHANGED vars
    PROVE  FreshInv'
<1>1. day \in Nat
  BY DEF SoundInv, Shapes
<1>2. /\ day' \in Nat /\ day <= day' /\ (day' = day \/ job.step = "idle")
      /\ UNCHANGED <<site, release, local, work, baseline, job>>
  BY <1>1 DEF NextDay, CalmDown, vars
<1>3. Listed(Senate)' = Listed(Senate)
  BY <1>2 DEF Listed
<1> QED
  BY <1>1, <1>2, <1>3, SourceFresh

(* A job that ends leaves the operator what it had.                        *)
LEMMA StopFresh ==
    ASSUME SoundInv, FreshInv, Stop
    PROVE  FreshInv'
<1>1. /\ job' = NoJob /\ work' = Empty /\ baseline' = Empty
      /\ local' = IF job.by = "operator" THEN work ELSE local
      /\ UNCHANGED <<site, day, release>>
  BY DEF Stop
<1>2. Fine(local') /\ (release # None => Fine(release'))
  BY <1>1 DEF FreshInv, FreshStores
<1>3. Fine(work') /\ Plausible(baseline'.rows) /\ Complete(work'.rows, baseline'.rows)
  BY <1>1, EmptyFresh
<1>4. FreshStores'
  BY <1>1, <1>2, <1>3, SameSite DEF FreshStores
<1>5. FreshJobs'
  BY <1>1, NoJobFields DEF FreshJobs, Late, Reading
<1> QED
  BY <1>4, <1>5 DEF FreshInv

(* A step of the job outside the listings.                                 *)
LEMMA WorkFresh ==
    ASSUME SoundInv, FreshInv, UNCHANGED <<site, day, release, local>>,
           Fine(work'), Plausible(baseline'.rows),
           job'.by = "nightly" => Complete(work'.rows, baseline'.rows),
           job'.step \notin Reading,
           job'.step \in Late => work'.lastOk # Never /\ day <= work'.lastOk + MaxStaleness,
           job'.era /\ job'.step \in {"members", "floor"} => Swept(work'.rows)
    PROVE  FreshInv'
<1>1. Fine(local') /\ (release # None => Fine(release'))
  BY DEF FreshInv, FreshStores
<1>2. FreshStores'
  BY <1>1, SameSite DEF FreshStores
<1>3. FreshJobs'
  BY SameSite DEF FreshJobs
<1> QED
  BY <1>2, <1>3 DEF FreshInv

LEMMA StartFresh ==
    ASSUME SoundInv, FreshInv,
           Seed \/ \E step \in {"house", "senate"} : OperatorStarts(step)
    PROVE  FreshInv'
<1>1. CASE Seed
  <2>1. /\ work' = IF release # None THEN release ELSE local
        /\ baseline' = work'
        /\ UNCHANGED <<site, day, release, local>>
        /\ job'.step = "house" /\ job'.by = "nightly"
    BY <1>1 DEF Seed, NoJob
  <2>2. Fine(work')
    BY <2>1 DEF FreshInv, FreshStores
  <2>3. Plausible(baseline'.rows) /\ Complete(work'.rows, baseline'.rows)
    BY <2>1, <2>2 DEF Fine, Complete
  <2> QED
    BY <2>1, <2>2, <2>3, WorkFresh DEF Late, Reading
<1>2. ASSUME NEW step \in {"house", "senate"}, OperatorStarts(step)
      PROVE  FreshInv'
  <2>1. /\ work' = local /\ UNCHANGED <<site, day, release, local, baseline>>
        /\ job'.step = step /\ job'.by = "operator"
    BY <1>2 DEF OperatorStarts, NoJob
  <2>2. Fine(work') /\ Plausible(baseline'.rows)
    BY <2>1 DEF FreshInv, FreshStores
  <2> QED
    BY <2>1, <2>2, WorkFresh DEF Late, Reading
<1> QED
  BY <1>1, <1>2

LEMMA HouseFresh ==
    ASSUME SoundInv, FreshInv, HouseDiscovers \/ HouseReconciles \/ SenateBlocked
    PROVE  FreshInv'
<1>1. job.step \in {"house", "house docs", "senate"}
  BY DEF HouseDiscovers, HouseReconciles, SenateBlocked
<1>2. /\ Fine(work) /\ Plausible(baseline.rows)
      /\ job.by = "nightly" => Complete(work.rows, baseline.rows)
  BY <1>1 DEF FreshInv, FreshStores, Reading
<1>3. IsJob(job)
  BY DEF SoundInv, Shapes
<1>4. CASE Stop
  BY <1>4, StopFresh
<1>5. CASE HouseDiscovers
  <2>1. job'.step = "house docs" /\ job'.by = job.by /\
          UNCHANGED <<site, day, release, local, work, baseline>>
    BY <1>3, <1>5 DEF HouseDiscovers, IsJob
  <2> QED
    BY <1>2, <2>1, WorkFresh DEF Late, Reading
<1>6. CASE HouseReconciles /\ ~Stop
  <2>1. job'.step = "senate" /\ job'.by = job.by /\
          UNCHANGED <<site, day, release, local, work, baseline>>
    BY <1>3, <1>6 DEF HouseReconciles, Finish, Goto, IsJob
  <2> QED
    BY <1>2, <2>1, WorkFresh DEF Late, Reading
<1>7. CASE SenateBlocked /\ ~Stop
  <2>1. /\ job'.step = (IF job.era THEN "era" ELSE "members")
        /\ job'.by = job.by /\ job'.era = job.era
        /\ UNCHANGED <<site, day, release, local, work, baseline>> /\ MayDegrade
    BY <1>3, <1>7 DEF SenateBlocked, Goto, IsJob
  <2>2. work.lastOk # Never /\ day <= work.lastOk + MaxStaleness
    <3>1. work.lastOk # Never /\ day - work.lastOk <= MaxStaleness
      BY <2>1 DEF MayDegrade
    <3>2. work.lastOk \in Nat /\ day \in Nat /\ MaxStaleness \in Nat
      BY <1>2, <3>1, CongressAssumption DEF Fine, Fresh, SoundInv, Shapes
    <3> QED
      BY <3>1, <3>2
  <2> QED
    BY <1>2, <2>1, <2>2, WorkFresh DEF Reading
<1> QED
  BY <1>4, <1>5, <1>6, <1>7

(* What an upsert of a listed document leaves of the store.                *)
LEMMA UpsertFresh ==
    ASSUME SoundInv, NEW rows \in Rows, Plausible(rows), NEW f \in Filings, NEW page, NEW new,
           Upserted(rows, f, page, new),
           f \in Senate \/ (f \in Kadoa /\ Twin[f] \in Senate) =>
             Source(f) \in Listed(Senate) /\ page.filed = site[Source(f)].filed,
           f \in Senate => page.archived \/ page.status = "failed"
    PROVE  /\ \A d \in Listed(Senate) : d # f => (Settled(new, d) <=> Settled(rows, d))
           /\ \A d : Older(rows, d) => Older(new, d)
           /\ \A d : Older(new, d) => Older(rows, d) \/
                (site[d].filed + Rescan < page.filed /\ f \in Dated(new))
           /\ Plausible(new)
<1>1. \A d \in Listed(Senate) : d # f => (Settled(new, d) <=> Settled(rows, d))
  BY ListedShown DEF Settled, Upserted
<1>2. Loaded(new) = Loaded(rows) \cup {f}
  BY DEF Loaded, Rows, Upserted
<1>3. \A g \in Dated(new) : g # f => g \in Dated(rows) /\ new[g] = rows[g]
  BY <1>2 DEF Dated, Loaded, Rows, Upserted
<1>4. \A g \in Dated(rows) : g \in Dated(new) /\ new[g].filed = rows[g].filed
  <2> SUFFICES ASSUME NEW g \in Dated(rows)
               PROVE  g \in Dated(new) /\ new[g].filed = rows[g].filed
    OBVIOUS
  <2>1. g \in Filings /\ g \in Dated(new)
    BY <1>2, DatedRows DEF Dated
  <2>2. CASE g = f
    <3>1. rows[f].filed = site[Source(f)].filed
      BY <2>2 DEF Plausible
    <3>2. new[f].filed = page.filed /\ page.filed = site[Source(f)].filed
      BY <2>2 DEF Upserted, Dated
    <3> QED
      BY <2>1, <2>2, <3>1, <3>2
  <2>3. CASE g # f
    BY <2>1, <2>3 DEF Upserted
  <2> QED
    BY <2>2, <2>3
<1>5. \A d : Older(rows, d) => Older(new, d)
  BY <1>4 DEF Older
<1>6. new[f].filed = page.filed
  BY DEF Upserted
<1>7. \A d : Older(new, d) => Older(rows, d) \/
               (site[d].filed + Rescan < page.filed /\ f \in Dated(new))
  <2> SUFFICES ASSUME NEW d, NEW g \in Dated(new), site[d].filed + Rescan < new[g].filed
               PROVE  Older(rows, d) \/
                        (site[d].filed + Rescan < page.filed /\ f \in Dated(new))
    BY DEF Older
  <2>1. CASE g = f
    BY <1>6, <2>1
  <2>2. CASE g # f
    BY <1>3, <2>2 DEF Older
  <2> QED
    BY <2>1, <2>2
<1>8. Plausible(new)
  <2>1. ASSUME NEW g \in Dated(new)
        PROVE  Source(g) \in Listed(Senate) /\ new[g].filed = site[Source(g)].filed
    <3>1. CASE g = f
      BY <1>6, <3>1 DEF Dated
    <3>2. CASE g # f
      BY <1>3, <3>2 DEF Plausible
    <3> QED
      BY <3>1, <3>2
  <2>2. ASSUME NEW g \in Loaded(new) \cap Senate
        PROVE  new[g].archived \/ new[g].status = "failed"
    <3>1. CASE g = f
      BY <3>1, <2>2 DEF Upserted
    <3>2. CASE g # f
      <4>1. g \in Loaded(rows) /\ new[g] = rows[g]
        BY <1>2, <2>2, <3>2 DEF Loaded, Rows, Upserted
      <4> QED
        BY <2>2, <4>1 DEF Plausible
    <3> QED
      BY <3>1, <3>2
  <2> QED
    BY <2>1, <2>2 DEF Plausible
<1> QED
  BY <1>1, <1>5, <1>7, <1>8

(* The upsert of one document.                                             *)
LEMMA ProcessRow ==
    ASSUME SoundInv, NEW d \in Primary, Process(d)
    PROVE  \E page : /\ Page(page, d) /\ Upserted(work.rows, d, page, work'.rows)
                     /\ work'.lastOk = work.lastOk
<1>1. work.rows \in Rows /\ IsStore(work) /\ d \in Filings /\ d \in job.todo
  BY DEF SoundInv, Shapes, IsStore, Primary, Filings, Process
<1>2. job.step \in Reading \cup {"house docs"} /\ Shown(site[d], day)
  BY <1>1 DEF SoundInv, Jobs, Listed, Shapes
<1>3. PICK page \in Evaluated(d) \cup FetchFailed(d) :
         work' = [work EXCEPT !.rows = Upsert(@, d, page, Standing(@, d))]
  BY DEF Process
<1> DEFINE new == Upsert(work.rows, d, page, Standing(work.rows, d))
<1>4. work' = [work EXCEPT !.rows = new]
  BY <1>3
<1>5. Standing(work.rows, d) \in {"active", "retired"}
  BY <1>1, RowFields DEF Standing
<1>6. Page(page, d)
  BY PageShape
<1>7. /\ page.status \in {"parsed", "needs_ocr", "failed"}
      /\ page.kind \in {"ptr", "paper"} /\ page.filed \in Nat
      /\ page.rows \in Nat /\ page.archived \in BOOLEAN
  BY <1>2, <1>6 DEF Page, Shown, Document
<1>8. Upserted(work.rows, d, page, new)
  BY <1>1, <1>5, <1>7, UpsertRow
<1> HIDE DEF new
<1> QED
  BY <1>1, <1>4, <1>6, <1>8 DEF IsStore

LEMMA ProcessFresh ==
    ASSUME SoundInv, FreshInv, NEW d \in Primary, Process(d)
    PROVE  FreshInv'
<1>1. work.rows \in Rows /\ d \in Filings /\ d \in job.todo /\ IsJob(job)
  BY DEF SoundInv, Shapes, IsStore, Primary, Filings, Process
<1>2. PICK page : /\ Page(page, d) /\ Upserted(work.rows, d, page, work'.rows)
                  /\ work'.lastOk = work.lastOk
  BY ProcessRow
<1> DEFINE new == work'.rows
<1>3. /\ IsJob(job') /\ job'.step = job.step /\ job'.by = job.by /\ job'.era = job.era
      /\ job'.index = job.index /\ job'.todo = job.todo \ {d}
      /\ UNCHANGED <<site, day, release, local, baseline>>
  BY <1>1 DEF Process, IsJob
<1>4. job.step \in Reading \cup {"house docs"}
  BY <1>1 DEF SoundInv, Jobs, Reading
<1>5. /\ new[d].kind = site[d].kind /\ page.filed = site[d].filed
      /\ d \in Listed(Senate) \cup Listed(House)
  BY <1>1, <1>2, <1>4 DEF Page, Upserted, SoundInv, Jobs
<1>6. /\ d \notin Kadoa
      /\ d \in Senate => d \in Listed(Senate) /\ Source(d) = d
  BY <1>5, ListedShown, FilingAssumption DEF Listed, Source
<1>7. /\ \A e \in Listed(Senate) : e # d => (Settled(new, e) <=> Settled(work.rows, e))
      /\ \A e : Older(work.rows, e) => Older(new, e)
      /\ \A e : Older(new, e) => Older(work.rows, e) \/
                   (site[e].filed + Rescan < site[d].filed /\ d \in Dated(new))
      /\ Plausible(new)
  <2>1. Plausible(work.rows)
    BY DEF FreshInv, FreshStores, Fine
  <2>2. page.archived \/ page.status = "failed"
    BY <1>2 DEF Page
  <2> HIDE DEF new
  <2>3. Upserted(work.rows, d, page, new)
    BY <1>2 DEF new
  <2> QED
    BY <1>1, <1>5, <1>6, <2>1, <2>2, <2>3, UpsertFresh
<1> HIDE DEF new
<1>8. Fine(work')
  <2> SUFFICES ASSUME work.lastOk # Never, NEW e \in Listed(Senate),
                      site[e].since < work.lastOk
               PROVE  Settled(new, e) \/ Older(new, e)
    BY <1>2, <1>7 DEF FreshInv, FreshStores, Fine, Fresh, new
  <2>1. Settled(work.rows, e) \/ Older(work.rows, e)
    BY DEF FreshInv, FreshStores, Fine, Fresh
  <2>2. CASE e # d
    BY <1>7, <2>1, <2>2
  <2>3. CASE e = d
    <3>1. job.step \in Reading
      BY <1>1, <1>4, <2>3, FilingAssumption DEF SoundInv, Jobs, Listed
    <3>2. work.lastOk <= site[d].since \/ Older(work.rows, d)
      BY <1>1, <3>1 DEF FreshInv, FreshJobs
    <3>3. work.lastOk \in Nat /\ site[e].since \in Nat
      BY ListedShown DEF FreshInv, FreshStores, Fine, Fresh
    <3> QED
      BY <1>7, <2>3, <3>2, <3>3
  <2> QED
    BY <2>2, <2>3
<1>9. CASE job.step = "house docs"
  <2>1. d \notin Senate
    BY <1>1, <1>9, FilingAssumption DEF SoundInv, Jobs, Listed
  <2>2. \A e : Older(new, e) => Older(work.rows, e)
    BY <1>6, <1>7, <2>1 DEF Dated
  <2>3. job.by = "nightly" => Complete(work.rows, baseline.rows)
    BY <1>9 DEF FreshInv, FreshStores, Reading
  <2>4. job.by = "nightly" => Complete(new, baseline.rows)
    BY <1>7, <2>1, <2>2, <2>3 DEF Complete, Missed, Listed
  <2>5. Plausible(baseline'.rows)
    BY <1>3 DEF FreshInv, FreshStores
  <2> QED
    BY <1>3, <1>8, <1>9, <2>4, <2>5, WorkFresh DEF Late, Reading, new
<1>10. CASE job.step \in Reading
  <2>1. job.todo \subseteq job.index /\ job.index \subseteq Listed(Senate) /\
          d \in job.index
    BY <1>1, <1>10 DEF SoundInv, Jobs
  <2>2. FreshStores'
    <3>1. Fine(local') /\ Plausible(baseline'.rows) /\ (release # None => Fine(release'))
      BY <1>3 DEF FreshInv, FreshStores
    <3> QED
      BY <1>3, <1>8, <1>10, <3>1, SameSite DEF FreshStores
  <2>3. ASSUME NEW e \in Listed(Senate) \ job.index
        PROVE  /\ job.by = "nightly" =>
                     \/ Settled(new, e) \/ Missed(baseline.rows, e)
                     \/ /\ ~Older(new, e)
                        /\ \A p \in job'.todo : ~(site[e].filed + Rescan < site[p].filed)
               /\ job.step = "senate docs" =>
                     Settled(new, e) \/ Older(new, e) \/ site[e].since = day
               /\ job.step = "era docs" => Recent(e) \/ ~(site[e].filed <= EraEnd)
    <3>1. Outside(e) /\ e # d
      BY <1>10, <2>1, <2>3 DEF FreshInv, FreshJobs
    <3>2. Settled(new, e) <=> Settled(work.rows, e)
      BY <1>7, <3>1
    <3> QED
      BY <1>1, <1>3, <1>7, <3>1, <3>2 DEF Outside
  <2>4. ASSUME NEW e \in job.index \ job'.todo
        PROVE  new[e].kind = site[e].kind \/ (site[e].since = day /\ Recent(e))
    <3>1. CASE e = d
      BY <1>5, <3>1
    <3>2. CASE e # d
      <4>1. e \in job.index \ job.todo /\ e \in Filings
        BY <1>3, <2>1, <2>4, <3>2, ListedShown
      <4>2. Inside(e) /\ new[e] = work.rows[e]
        BY <1>2, <1>10, <3>2, <4>1 DEF FreshInv, FreshJobs, Upserted, new
      <4> QED
        BY <4>2 DEF Inside
    <3> QED
      BY <3>1, <3>2
  <2>5. work.lastOk # Never =>
           \A p \in job'.todo : work.lastOk <= site[p].since \/ Older(new, p)
    BY <1>3, <1>7, <1>10 DEF FreshInv, FreshJobs
  <2>6. \A e \in Listed(Senate)' \ job'.index : Outside(e)'
    BY <1>3, <2>3, SameSite DEF Outside, Missed, Settled, Older, Recent, Dated, Loaded, new
  <2>7. \A e \in job'.index \ job'.todo : Inside(e)'
    BY <1>3, <2>4 DEF Inside, Recent, new
  <2>8. \A p : Older(work.rows, p)' <=> Older(new, p)
    BY <1>3 DEF Older, Dated, Loaded, new
  <2>9. job'.step \in Late => work'.lastOk # Never /\ day' <= work'.lastOk + MaxStaleness
    BY <1>2, <1>3 DEF FreshInv, FreshJobs
  <2>10. job'.step \notin {"members", "floor"}
    BY <1>3, <1>10 DEF Reading
  <2> QED
    BY <1>2, <1>3, <2>2, <2>5, <2>6, <2>7, <2>8, <2>9, <2>10 DEF FreshInv, FreshJobs
<1> QED
  BY <1>4, <1>9, <1>10

LEMMA NotLess == \A m, n \in Nat : ~(n < m) => m <= n
OBVIOUS

(* Every set of the naturals that is bounded and not empty has a maximum.  *)
LEMMA BoundedMax ==
    ASSUME NEW n \in Nat, NEW S \in SUBSET (0..n), S # {}
    PROVE  \E x \in S : \A y \in S : y <= x
<1> DEFINE T == {n - x : x \in S}
<1>1. T \subseteq Nat
  OBVIOUS
<1>2. T # {}
  <2>1. PICK x \in S : TRUE
    OBVIOUS
  <2>2. n - x \in T
    BY <2>1
  <2> QED
    BY <2>2
<1>3. PICK z \in T : \A y \in T : ~(<<y, z>> \in OpToRel(<, Nat))
  <2> HIDE DEF T
  <2> QED
    BY <1>1, <1>2, NatLessThanWellFounded, WFMin
<1>4. \A y \in T : ~(y < z)
  <2> HIDE DEF T
  <2> QED
    BY <1>1, <1>3, Zenon DEF OpToRel
<1>5. PICK x \in S : z = n - x
  <2> HIDE DEF T
  <2>1. z \in T
    BY <1>3
  <2> QED
    BY <2>1 DEF T
<1>6. \A y \in S : ~(n - y < z)
  BY <1>4
<1>7. \A y \in S : y <= x
  BY <1>5, <1>6
<1> QED
  BY <1>7

(* The start of the window.                                                *)
LEMMA NewestIsDate ==
    ASSUME SoundInv, NEW rows \in Rows, Plausible(rows)
    PROVE  /\ NewestFiled(rows) \in Nat
           /\ IF Dated(rows) = {} THEN NewestFiled(rows) = 0
              ELSE \E f \in Dated(rows) :
                      /\ NewestFiled(rows) = rows[f].filed
                      /\ \A g \in Dated(rows) : rows[g].filed <= rows[f].filed
<1> DEFINE dates == {rows[f].filed : f \in {g \in Loaded(rows) :
                      g \in Senate \/ (g \in Kadoa /\ Twin[g] \in Senate)}}
<1>1. day \in Nat
  BY DEF SoundInv, Shapes
<1>2. dates = {rows[f].filed : f \in Dated(rows)}
  BY DEF Dated
<1>3. \A f \in Dated(rows) : rows[f].filed \in 0..day
  <2>1. \A f \in Dated(rows) : rows[f].filed \in Nat /\ rows[f].filed <= day
    BY DatesPast
  <2> QED
    BY <1>1, <2>1
<1>4. dates \subseteq 0..day
  BY <1>2, <1>3
<1>5. NewestFiled(rows) = IF dates = {} THEN 0
                          ELSE CHOOSE n \in dates : \A m \in dates : m <= n
  BY DEF NewestFiled
<1>6. CASE dates = {}
  <2>1. Dated(rows) = {}
    BY <1>2, <1>6
  <2>2. NewestFiled(rows) = 0
    <3> HIDE DEF dates
    <3> QED
      BY <1>5, <1>6
  <2> QED
    BY <2>1, <2>2
<1>7. CASE dates # {}
  <2>1. NewestFiled(rows) \in dates /\ \A m \in dates : m <= NewestFiled(rows)
    <3> HIDE DEF dates
    <3>1. \E n \in dates : \A m \in dates : m <= n
      BY <1>1, <1>4, <1>7, BoundedMax
    <3> QED
      BY <1>5, <1>7, <3>1
  <2>2. PICK f \in Dated(rows) : NewestFiled(rows) = rows[f].filed
    BY <1>2, <2>1
  <2>3. \A g \in Dated(rows) : rows[g].filed <= NewestFiled(rows)
    BY <1>2, <2>1
  <2> HIDE DEF dates
  <2> QED
    BY <1>1, <1>3, <2>2, <2>3
<1> QED
  BY <1>6, <1>7

(* What the window leaves out was filed before some stored report.         *)
LEMMA BeforeWindow ==
    ASSUME SoundInv, NEW rows \in Rows, Plausible(rows), NEW d \in Listed(Senate)
    PROVE  site[d].filed + Rescan < NewestFiled(rows) <=> Older(rows, d)
<1>1. Rescan \in Nat /\ site[d].filed \in Nat
  BY ListedShown, CongressAssumption
<1>2. CASE Dated(rows) = {}
  BY <1>1, <1>2, NewestIsDate DEF Older
<1>3. CASE Dated(rows) # {}
  <2>1. PICK f \in Dated(rows) : /\ NewestFiled(rows) = rows[f].filed
                                 /\ \A g \in Dated(rows) : rows[g].filed <= rows[f].filed
    BY <1>3, NewestIsDate
  <2>2. \A g \in Dated(rows) : rows[g].filed \in Nat
    BY DatedRows
  <2> QED
    BY <1>1, <2>1, <2>2 DEF Older
<1> QED
  BY <1>2, <1>3

LEMMA BehindIsMissed ==
    ASSUME SoundInv, NEW rows \in Rows, Plausible(rows)
    PROVE  \A d \in Listed(Senate) : d \in Behind(rows) <=> Missed(rows, d)
BY BeforeWindow DEF Behind, Unsettled, Missed, Settled

(* What a listing of the Senate finds.                                     *)
LEMMA SenateListingFresh ==
    ASSUME SoundInv, FreshInv, NEW index, index \subseteq Listed(Senate),
           NEW step \in Reading, Discover(index, step),
           job.step = (IF step = "era docs" THEN "era" ELSE "senate"),
           \A d \in Listed(Senate) \ index :
              /\ job.by = "nightly" =>
                    \/ Settled(work.rows, d) \/ Missed(baseline.rows, d)
                    \/ /\ ~Older(work.rows, d)
                       /\ \A p \in index : ~(site[d].filed + Rescan < site[p].filed)
              /\ step = "senate docs" => Older(work.rows, d)
              /\ step = "era docs" => ~(site[d].filed <= EraEnd)
    PROVE  FreshInv'
<1> DEFINE todo == Unsettled(work.rows, index)
<1>1. /\ job' = [job EXCEPT !.step = step, !.index = index, !.todo = todo]
      /\ UNCHANGED <<site, day, calm, release, local, work, baseline>>
  BY DEF Discover
<1>2. todo \subseteq index
  BY DEF Unsettled
<1>3. \A d \in todo : ~Settled(work.rows, d)
  BY DEF Unsettled, Settled
<1>4. \A d \in index \ todo : work.rows[d].kind = site[d].kind
  BY DEF Unsettled
<1> HIDE DEF todo
<1>5. /\ job'.step = step /\ job'.by = job.by /\ job'.index = index /\ job'.todo = todo
      /\ job'.era = job.era
  BY <1>1 DEF SoundInv, Shapes, IsJob
<1>6. FreshStores'
  <2>1. /\ Fine(local') /\ Fine(work') /\ Plausible(baseline'.rows)
        /\ release # None => Fine(release')
    BY <1>1 DEF FreshInv, FreshStores
  <2> QED
    BY <1>1, <1>5, <2>1, SameSite DEF FreshStores
<1>7. work.lastOk # Never =>
         \A p \in todo : work.lastOk <= site[p].since \/ Older(work.rows, p)
  <2> SUFFICES ASSUME work.lastOk # Never, NEW p \in todo, ~Older(work.rows, p)
               PROVE  work.lastOk <= site[p].since
    OBVIOUS
  <2>1. ~(site[p].since < work.lastOk)
    BY <1>2, <1>3 DEF FreshInv, FreshStores, Fine, Fresh
  <2>2. work.lastOk \in Nat /\ site[p].since \in Nat
    BY <1>2, ListedShown DEF FreshInv, FreshStores, Fine, Fresh
  <2> QED
    BY <2>1, <2>2, NotLess, Zenon
<1>8. \A d \in Listed(Senate)' \ job'.index : Outside(d)'
  <2>1. ASSUME NEW d \in Listed(Senate) \ index
        PROVE  /\ job.by = "nightly" =>
                     \/ Settled(work.rows, d) \/ Missed(baseline.rows, d)
                     \/ /\ ~Older(work.rows, d)
                        /\ \A p \in todo : ~(site[d].filed + Rescan < site[p].filed)
               /\ step = "senate docs" => Older(work.rows, d)
               /\ step = "era docs" => ~(site[d].filed <= EraEnd)
    BY <1>2
  <2>2. ASSUME NEW d \in Listed(Senate) \ index PROVE Outside(d)'
    <3>1. /\ Settled(work.rows, d)' <=> Settled(work.rows, d)
          /\ Older(work.rows, d)' <=> Older(work.rows, d)
          /\ Missed(baseline.rows, d)' <=> Missed(baseline.rows, d)
          /\ site'[d] = site[d]
      BY <1>1 DEF Missed, Settled, Older, Dated, Loaded
    <3>2. \A p \in job'.todo : p \in todo /\ site'[p] = site[p]
      BY <1>1, <1>5
    <3>3. /\ job.by = "nightly" =>
                \/ Settled(work.rows, d) \/ Missed(baseline.rows, d)
                \/ /\ ~Older(work.rows, d)
                   /\ \A p \in todo : ~(site[d].filed + Rescan < site[p].filed)
          /\ step = "senate docs" => Older(work.rows, d)
          /\ step = "era docs" => ~(site[d].filed <= EraEnd)
      BY <2>1, <2>2
    <3>4. (\A p \in todo : ~(site[d].filed + Rescan < site[p].filed)) =>
            \A p \in job'.todo : ~(site'[d].filed + Rescan < site'[p].filed)
      BY <3>1, <3>2
    <3>5. site'[d].filed <= EraEnd <=> site[d].filed <= EraEnd
      BY <3>1
    <3> QED
      BY <1>5, <3>1, <3>3, <3>4, <3>5, Zenon DEF Outside
  <2> QED
    BY <1>1, <1>5, <2>2, SameSite
<1>9. \A d \in job'.index \ job'.todo : Inside(d)'
  BY <1>1, <1>4, <1>5 DEF Inside
<1>10. \A p : Older(work.rows, p)' <=> Older(work.rows, p)
  BY <1>1 DEF Older, Dated, Loaded
<1>11. step \notin {"members", "floor"} /\ (step \in Late => job.step \in Late)
  BY DEF Reading, Late
<1>12. job'.step \in Late => work'.lastOk # Never /\ day' <= work'.lastOk + MaxStaleness
  BY <1>1, <1>5, <1>11 DEF FreshInv, FreshJobs
<1> QED
  BY <1>1, <1>5, <1>6, <1>7, <1>8, <1>9, <1>10, <1>11, <1>12 DEF FreshInv, FreshJobs

LEMMA DiscoverFresh ==
    ASSUME SoundInv, FreshInv, SenateDiscovers \/ EraDiscovers
    PROVE  FreshInv'
<1>1. /\ job.by = "nightly" => Complete(work.rows, baseline.rows)
      /\ work.rows \in Rows /\ Plausible(work.rows)
  BY DEF FreshInv, FreshStores, Fine, SenateDiscovers, EraDiscovers, Reading,
         SoundInv, Shapes, IsStore
<1>2. \A d \in Listed(Senate) : job.by = "nightly" =>
         Settled(work.rows, d) \/ Missed(baseline.rows, d) \/ ~Older(work.rows, d)
  BY <1>1 DEF Complete, Missed
<1>3. CASE SenateDiscovers
  <2> DEFINE index == Window(work.rows)
  <2>1. index \subseteq Listed(Senate)
    BY DEF Window
  <2>2. ASSUME NEW d \in Listed(Senate) \ index PROVE Older(work.rows, d)
    <3>1. ~(site[d].filed + Rescan >= NewestFiled(work.rows))
      BY <2>2 DEF Window
    <3>2. NewestFiled(work.rows) \in Nat
      BY <1>1, NewestIsDate
    <3>3. site[d].filed \in Nat /\ Rescan \in Nat
      BY ListedShown, CongressAssumption
    <3> QED
      BY <1>1, <3>1, <3>2, <3>3, BeforeWindow
  <2>3. Discover(index, "senate docs") /\ job.step = "senate"
    BY <1>3 DEF SenateDiscovers
  <2>4. "senate docs" \in Reading
    BY DEF Reading
  <2> HIDE DEF index
  <2> QED
    BY <1>2, <2>1, <2>2, <2>3, <2>4, SenateListingFresh
<1>4. CASE EraDiscovers
  <2> DEFINE index == EraWindow
  <2>1. index \subseteq Listed(Senate)
    BY DEF EraWindow
  <2>2. ASSUME NEW d \in Listed(Senate) \ index
        PROVE  /\ ~(site[d].filed <= EraEnd)
               /\ \A p \in index : ~(site[d].filed + Rescan < site[p].filed)
    <3>1. site[d].filed \in Nat /\ Rescan \in Nat /\ EraEnd \in Nat
      BY ListedShown, CongressAssumption
    <3>2. ~(site[d].filed <= EraEnd)
      BY <2>2 DEF EraWindow
    <3>3. \A p \in index : site[p].filed \in Nat /\ site[p].filed <= EraEnd
      BY <2>1, ListedShown DEF EraWindow
    <3> QED
      BY <3>1, <3>2, <3>3
  <2>3. Discover(index, "era docs") /\ job.step = "era"
    BY <1>4 DEF EraDiscovers
  <2>4. "era docs" \in Reading
    BY DEF Reading
  <2> HIDE DEF index
  <2> QED
    BY <1>2, <2>1, <2>2, <2>3, <2>4, SenateListingFresh
<1> QED
  BY <1>3, <1>4

LEMMA LessDiffers == \A m, n \in Nat : m < n => m # n
OBVIOUS

LEMMA LeqReflexive == \A m \in Nat : m <= m
OBVIOUS

(* What the tail of a Senate run leaves.                                   *)
LEMMA TailFresh ==
    ASSUME SoundInv, FreshInv, NEW scope \in {"nightly", "era"}, job.todo = {},
           \/ job.step = "senate docs" /\ scope = "nightly"
           \/ job.step = "era docs" /\ scope = "era"
    PROVE  LET tail == Tail(scope) IN
           /\ Fine(tail)
           /\ Reconciled(work.rows, job.index) =>
                /\ job.by = "nightly" => Complete(tail.rows, baseline.rows)
                /\ scope = "era" => Swept(tail.rows)
                /\ tail.lastOk = IF scope = "nightly" THEN day ELSE work.lastOk
<1> DEFINE tail == Tail(scope)
<1>1. /\ work.rows \in Rows /\ Linked(work.rows) /\ job.index \subseteq Loaded(work.rows)
      /\ job.index \subseteq Listed(Senate) /\ job.step \in Reading
      /\ day \in Nat /\ day <= MaxDay /\ Plausible(work.rows)
  BY DEF SoundInv, Shapes, IsStore, Links, Jobs, Reading, FreshInv, FreshStores, Fine
<1>2. Alike(work.rows, tail.rows) /\ SameStatus(work.rows, tail.rows)
  BY <1>1, TailStore
<1>3. tail.lastOk = IF Reconciled(tail.rows, job.index) /\ scope = "nightly"
                      THEN day ELSE work.lastOk
  BY DEF Tail
<1> HIDE DEF tail
<1>4. Reconciled(work.rows, job.index) <=> Reconciled(tail.rows, job.index)
  <2>1. \A f \in job.index : f \in Filings /\ work.rows[f] # Absent
    BY <1>1 DEF Loaded, Rows
  <2> QED
    BY <1>2, <2>1 DEF Reconciled, Alike, SameStatus
<1>5. /\ \A d \in Listed(Senate) : /\ Settled(work.rows, d) <=> Settled(tail.rows, d)
                                   /\ Older(work.rows, d) <=> Older(tail.rows, d)
      /\ Plausible(tail.rows)
      /\ Swept(work.rows) => Swept(tail.rows)
      /\ \A base : Complete(work.rows, base) => Complete(tail.rows, base)
  BY <1>1, <1>2, AlikeFresh
<1>6. ASSUME Reconciled(work.rows, job.index), NEW d \in job.index
      PROVE  Settled(work.rows, d) \/ (site[d].since = day /\ Recent(d))
  <2>1. work.rows[d] # Absent /\ d \in Loaded(work.rows) /\
          work.rows[d].status # "failed" /\ d \in Senate
    BY <1>1, <1>6 DEF Reconciled, Listed
  <2>2. work.rows[d].archived
    BY <1>1, <2>1 DEF Plausible
  <2>3. Inside(d)
    BY <1>1, <1>6 DEF FreshInv, FreshJobs
  <2> QED
    BY <2>1, <2>2, <2>3 DEF Inside, Settled
<1>7. \A d \in Listed(Senate) \ job.index : Outside(d)
  BY <1>1 DEF FreshInv, FreshJobs
<1>8. \A d \in Listed(Senate) : Recent(d) => ~Older(work.rows, d)
  BY <1>1, RecentIsInWindow
<1>9. ASSUME Reconciled(work.rows, job.index), job.by = "nightly"
      PROVE  Complete(tail.rows, baseline.rows)
  <2>1. ASSUME NEW d \in Listed(Senate), Missed(work.rows, d)
        PROVE  Missed(baseline.rows, d)
    <3>1. CASE d \in job.index
      BY <1>6, <1>8, <1>9, <2>1, <3>1 DEF Missed
    <3>2. CASE d \notin job.index
      BY <1>7, <1>9, <2>1, <3>2 DEF Outside, Missed
    <3> QED
      BY <3>1, <3>2
  <2> QED
    BY <1>5, <2>1 DEF Complete
<1>10. ASSUME Reconciled(work.rows, job.index), scope = "era"
       PROVE  Swept(tail.rows)
  <2>1. ASSUME NEW d \in Listed(Senate), site[d].filed <= EraEnd
        PROVE  Settled(work.rows, d) \/ Recent(d)
    <3>1. CASE d \in job.index
      BY <1>6, <1>10, <3>1
    <3>2. CASE d \notin job.index
      BY <1>7, <1>10, <2>1, <3>2 DEF Outside
    <3> QED
      BY <3>1, <3>2
  <2> QED
    BY <1>5, <2>1 DEF Swept
<1>11. Fine(tail)
  <2>1. CASE tail.lastOk = work.lastOk
    BY <1>5, <2>1 DEF FreshInv, FreshStores, Fine, Fresh
  <2>2. CASE Reconciled(work.rows, job.index) /\ scope = "nightly"
    <3>1. tail.lastOk = day /\ job.step = "senate docs"
      BY <1>3, <1>4, <2>2
    <3>2. ASSUME NEW d \in Listed(Senate), site[d].since < day
          PROVE  Settled(work.rows, d) \/ Older(work.rows, d)
      <4>1. site[d].since # day
        <5>1. site[d].since \in Nat
          BY ListedShown
        <5> QED
          BY <1>1, <3>2, <5>1, LessDiffers, Zenon
      <4>2. CASE d \in job.index
        BY <1>6, <2>2, <4>1, <4>2
      <4>3. CASE d \notin job.index
        BY <1>7, <3>1, <4>1, <4>3 DEF Outside
      <4> QED
        BY <4>2, <4>3
    <3>3. \A d \in Listed(Senate) : site[d].since < tail.lastOk =>
             Settled(tail.rows, d) \/ Older(tail.rows, d)
      BY <1>5, <3>1, <3>2
    <3>4. tail.lastOk \in Nat /\ tail.lastOk <= day
      BY <1>1, <3>1, LeqReflexive, Zenon
    <3> QED
      BY <1>5, <3>3, <3>4 DEF Fine, Fresh
  <2> QED
    BY <1>3, <1>4, <2>1, <2>2
<1>12. Reconciled(work.rows, job.index) =>
          tail.lastOk = IF scope = "nightly" THEN day ELSE work.lastOk
  BY <1>3, <1>4
<1> QED
  BY <1>9, <1>10, <1>11, <1>12 DEF tail

LEMMA ReconcileFresh ==
    ASSUME SoundInv, FreshInv, SenateReconciles \/ EraReconciles
    PROVE  FreshInv'
<1>1. PICK scope \in {"nightly", "era"}, step \in {"era", "members"} :
        /\ TailThen(scope, step)
        /\ \/ job.step = "senate docs" /\ scope = "nightly"
           \/ job.step = "era docs" /\ scope = "era"
        /\ job.era /\ step = "members" => scope = "era"
  BY DEF SenateReconciles, EraReconciles
<1> DEFINE tail == Tail(scope)
<1>2. job.todo = {}
  BY <1>1 DEF TailThen
<1>3. /\ Fine(tail)
      /\ Reconciled(work.rows, job.index) =>
           /\ job.by = "nightly" => Complete(tail.rows, baseline.rows)
           /\ scope = "era" => Swept(tail.rows)
           /\ tail.lastOk = IF scope = "nightly" THEN day ELSE work.lastOk
  BY <1>1, <1>2, TailFresh
<1>4. CASE Reconciled(work.rows, job.index) /\ job.by = "nightly"
  <2>1. /\ work' = tail /\ Goto(step) /\ UNCHANGED <<site, day, release, local, baseline>>
    BY <1>1, <1>4 DEF TailThen
  <2>2. job'.step = step /\ job'.by = job.by /\ job'.era = job.era
    BY <2>1 DEF Goto, SoundInv, Shapes, IsJob
  <2>3. tail.lastOk # Never /\ day <= tail.lastOk + MaxStaleness
    <3>1. CASE scope = "nightly"
      BY <1>3, <1>4, <3>1, CongressAssumption DEF SoundInv, Shapes, Never
    <3>2. CASE scope = "era"
      <4>1. job.step \in Late
        BY <1>1, <3>2 DEF Late
      <4> QED
        BY <1>3, <1>4, <3>2, <4>1 DEF FreshInv, FreshJobs
    <3> QED
      BY <3>1, <3>2
  <2>4. Plausible(baseline.rows)
    BY DEF FreshInv, FreshStores
  <2>5. job'.era /\ job'.step \in {"members", "floor"} => Swept(tail.rows)
    BY <1>1, <1>3, <1>4, <2>2
  <2> HIDE DEF tail
  <2> QED
    BY <1>3, <1>4, <2>1, <2>2, <2>3, <2>4, <2>5, WorkFresh DEF Reading
<1>5. CASE ~(Reconciled(work.rows, job.index) /\ job.by = "nightly")
  <2>1. /\ local' = IF job.by = "operator" THEN tail ELSE local
        /\ job' = NoJob /\ work' = Empty /\ baseline' = Empty
        /\ UNCHANGED <<site, day, release>>
    BY <1>1, <1>5 DEF TailThen
  <2> HIDE DEF tail
  <2>2. Fine(local') /\ (release # None => Fine(release'))
    BY <1>3, <2>1 DEF FreshInv, FreshStores
  <2>3. Fine(work') /\ Plausible(baseline'.rows) /\ Complete(work'.rows, baseline'.rows)
    BY <2>1, EmptyFresh
  <2>4. FreshStores'
    BY <2>1, <2>2, <2>3, SameSite DEF FreshStores
  <2>5. FreshJobs'
    BY <2>1, NoJobFields DEF FreshJobs, Late, Reading
  <2> QED
    BY <2>4, <2>5 DEF FreshInv
<1> QED
  BY <1>4, <1>5

(* The operator's store.                                                   *)
LEMMA LocalFresh ==
    ASSUME SoundInv, FreshInv, UNCHANGED <<site, day, release, work, baseline, job>>,
           Fine(local')
    PROVE  FreshInv'
<1>1. /\ Fine(work') /\ Plausible(baseline'.rows)
      /\ release # None => Fine(release')
      /\ job.by = "nightly" /\ job.step \notin Reading =>
            Complete(work'.rows, baseline'.rows)
  BY DEF FreshInv, FreshStores
<1>2. FreshStores'
  BY <1>1, SameSite DEF FreshStores
<1>3. \A d : /\ (Outside(d)' <=> Outside(d)) /\ (Inside(d)' <=> Inside(d))
             /\ (Older(work.rows, d)' <=> Older(work.rows, d))
  BY DEF Outside, Inside, Recent, Missed, Settled, Older, Dated, Loaded
<1>4. Swept(work.rows)' <=> Swept(work.rows)
  BY SameSite DEF Swept, Settled, Recent
<1>5. FreshJobs'
  BY <1>3, <1>4, SameSite DEF FreshInv, FreshJobs
<1> QED
  BY <1>2, <1>5 DEF FreshInv

LEMMA CurateFresh ==
    ASSUME SoundInv, FreshInv,
           \/ \E k \in Kadoa : ImportSeed(k)
           \/ ApplyCrosswalk
           \/ \E d \in Primary : Reparse(d)
    PROVE  FreshInv'
<1>1. local.rows \in Rows /\ IsStore(local) /\ Fine(local)
  BY DEF SoundInv, Shapes, IsStore, FreshInv, FreshStores
<1>2. ASSUME NEW k \in Kadoa, ImportSeed(k)
      PROVE  FreshInv'
  <2> DEFINE page == Fetched(Twin[k], "parsed", 1, FALSE)
             new == Upsert(local.rows, k, page, "active")
  <2>1. /\ k \in Filings /\ k \notin Primary /\ k \notin Senate /\ Twin[k] \in Primary
        /\ Source(k) = Twin[k]
    BY FilingAssumption DEF Filings, Primary, Source
  <2>2. /\ local' = [local EXCEPT !.rows = new] /\ site[Twin[k]] # None
        /\ UNCHANGED <<site, day, release, work, baseline, job>>
    BY <1>2 DEF ImportSeed
  <2>3. Shown(site[Twin[k]], day)
    BY <2>1, <2>2 DEF SoundInv, Shapes
  <2>4. /\ page.status = "parsed" /\ page.kind \in {"ptr", "paper"} /\ page.filed \in Nat
        /\ page.rows \in Nat /\ page.archived \in BOOLEAN
        /\ page.filed = site[Twin[k]].filed
    BY <2>3 DEF Fetched, Shown, Document
  <2> HIDE DEF page
  <2>5. Upserted(local.rows, k, page, new)
    BY <1>1, <2>1, <2>4, UpsertRow
  <2> HIDE DEF new
  <2>6. local'.rows = new /\ local'.lastOk = local.lastOk
    BY <1>1, <2>2 DEF IsStore
  <2>7. Twin[k] \in Senate => Twin[k] \in Listed(Senate)
    BY <2>2 DEF Listed
  <2>8. /\ \A d \in Listed(Senate) : d # k => (Settled(new, d) <=> Settled(local.rows, d))
        /\ \A d : Older(local.rows, d) => Older(new, d)
        /\ Plausible(new)
    <3>1. Plausible(local.rows)
      BY <1>1 DEF Fine
    <3> QED
      BY <1>1, <2>1, <2>4, <2>5, <2>7, <3>1, UpsertFresh
  <2>9. \A d \in Listed(Senate) : d # k
    BY <2>1 DEF Listed
  <2>10. Fine(local')
    BY <1>1, <2>6, <2>8, <2>9 DEF Fine, Fresh
  <2> QED
    BY <2>2, <2>10, LocalFresh
<1>3. CASE ApplyCrosswalk \/ \E d \in Primary : Reparse(d)
  <2>1. /\ Alike(local.rows, local'.rows) /\ local'.lastOk = local.lastOk
        /\ UNCHANGED <<site, day, release, work, baseline, job>>
    BY <1>3, CurationRows
  <2>2. Fine(local')
    BY <1>1, <2>1, AlikeFine
  <2> QED
    BY <2>1, <2>2, LocalFresh
<1> QED
  BY <1>2, <1>3

LEMMA JoinFresh ==
    ASSUME SoundInv, FreshInv, JoinStep
    PROVE  FreshInv'
<1>1. work.rows \in Rows /\ IsStore(work) /\ job.step = "members" /\ IsJob(job)
  BY DEF SoundInv, Shapes, IsStore, JoinStep
<1>2. /\ Fine(work) /\ Plausible(baseline.rows)
      /\ job.by = "nightly" => Complete(work.rows, baseline.rows)
      /\ job.era => Swept(work.rows)
      /\ work.lastOk # Never /\ day <= work.lastOk + MaxStaleness
  BY <1>1 DEF FreshInv, FreshStores, FreshJobs, Late, Reading
<1>3. PICK roster \in Rosters : work' = [work EXCEPT !.rows = JoinMembers(@, roster)]
  BY DEF JoinStep
<1> DEFINE new == JoinMembers(work.rows, roster)
<1>4. work' = [work EXCEPT !.rows = new]
  BY <1>3
<1>5. Alike(work.rows, new)
  BY <1>1, JoinRows
<1> HIDE DEF new
<1>6. work'.rows = new /\ work'.lastOk = work.lastOk
  BY <1>1, <1>4 DEF IsStore
<1>7. /\ job.by = "nightly" => Complete(new, baseline.rows)
      /\ job.era => Swept(new)
  BY <1>1, <1>2, <1>5, AlikeFresh
<1>8. Fine(work')
  BY <1>1, <1>2, <1>5, <1>6, AlikeFine
<1>9. /\ job'.step = "floor" /\ job'.by = job.by /\ job'.era = job.era
      /\ UNCHANGED <<site, day, release, local, baseline>>
  BY <1>1 DEF JoinStep, Goto, IsJob
<1> QED
  BY <1>2, <1>6, <1>7, <1>8, <1>9, WorkFresh DEF Reading

LEMMA FloorFresh ==
    ASSUME SoundInv, FreshInv, CorpusFloor
    PROVE  FreshInv'
<1>1. CASE Stop
  BY <1>1, StopFresh
<1>2. CASE ~Stop
  <2>1. /\ release' = work /\ job' = NoJob /\ work' = Empty /\ local' = Empty
        /\ baseline' = Empty /\ UNCHANGED <<site, day>>
    BY <1>2 DEF CorpusFloor
  <2>2. /\ Fine(release') /\ Fine(work') /\ Fine(local') /\ Plausible(baseline'.rows)
        /\ Complete(work'.rows, baseline'.rows)
    BY <2>1, EmptyFresh DEF FreshInv, FreshStores
  <2>3. FreshStores'
    BY <2>1, <2>2, SameSite DEF FreshStores
  <2>4. FreshJobs'
    BY <2>1, NoJobFields DEF FreshJobs, Late, Reading
  <2> QED
    BY <2>3, <2>4 DEF FreshInv
<1> QED
  BY <1>1, <1>2

LEMMA NextFresh ==
    ASSUME SoundInv, FreshInv, [Next]_vars
    PROVE  FreshInv'
<1>1. CASE Next
  <2>1. CASE \E d \in Primary, kind \in {"ptr", "paper"} : FileDocument(d, kind)
    BY <2>1, FileFresh
  <2>2. CASE \E d \in Senate : ConvertPaper(d)
    BY <2>2, ConvertFresh
  <2>3. CASE NextDay \/ CalmDown
    BY <2>3, ClockFresh
  <2>4. CASE Seed \/ \E step \in {"house", "senate"} : OperatorStarts(step)
    BY <2>4, StartFresh
  <2>5. CASE Die
    BY <2>5, StopFresh DEF Die
  <2>6. CASE HouseDiscovers \/ HouseReconciles \/ SenateBlocked
    BY <2>6, HouseFresh
  <2>7. CASE \E d \in Primary : Process(d)
    BY <2>7, ProcessFresh
  <2>8. CASE SenateDiscovers \/ EraDiscovers
    BY <2>8, DiscoverFresh
  <2>9. CASE SenateReconciles \/ EraReconciles
    BY <2>9, ReconcileFresh
  <2>10. CASE \/ \E k \in Kadoa : ImportSeed(k)
              \/ ApplyCrosswalk
              \/ \E d \in Primary : Reparse(d)
    BY <2>10, CurateFresh
  <2>11. CASE JoinStep
    BY <2>11, JoinFresh
  <2>12. CASE CorpusFloor
    BY <2>12, FloorFresh
  <2> QED
    BY <1>1, <2>1, <2>2, <2>3, <2>4, <2>5, <2>6, <2>7, <2>8, <2>9, <2>10,
       <2>11, <2>12, Zenon DEF Next
<1>2. CASE UNCHANGED vars
  BY <1>2, ClockFresh
<1> QED
  BY <1>1, <1>2

(* What a release publishes is as old as the last Senate run it heard, and *)
(* that is within the bound; what it lacks from before the window, its     *)
(* seed lacked too.                                                        *)
LEMMA PublicationIsFresh ==
    ASSUME SoundInv, FreshInv, [Next]_vars, release' # release
    PROVE  LET left == Behind(baseline.rows) IN
           /\ \A d \in Listed(Senate) \ left :
                 site[d].since + MaxStaleness < day =>
                    d \notin Unsettled(release'.rows, Listed(Senate))
           /\ Behind(release'.rows) \subseteq left
           /\ job.era => \A d \in Behind(release'.rows) : site[d].filed > EraEnd
<1>1. CorpusFloor /\ release' = work /\ job.step = "floor"
  BY OnlyFloorPublishes DEF CorpusFloor
<1>2. /\ work.rows \in Rows /\ baseline.rows \in Rows /\ job.by = "nightly"
      /\ day \in Nat /\ MaxStaleness \in Nat /\ EraEnd \in Nat
  BY <1>1, CongressAssumption DEF SoundInv, Shapes, IsStore, Jobs, Late
<1>3. /\ Fresh(work) /\ Plausible(work.rows) /\ Plausible(baseline.rows)
      /\ Complete(work.rows, baseline.rows)
      /\ job.era => Swept(work.rows)
      /\ work.lastOk # Never /\ day <= work.lastOk + MaxStaleness
  BY <1>1, <1>2 DEF FreshInv, FreshStores, FreshJobs, Fine, Late, Reading
<1>4. \A d \in Listed(Senate) : /\ d \in Behind(work.rows) <=> Missed(work.rows, d)
                                /\ d \in Behind(baseline.rows) <=> Missed(baseline.rows, d)
  BY <1>2, <1>3, BehindIsMissed
<1>5. Behind(work.rows) \subseteq Listed(Senate)
  BY DEF Behind, Unsettled
<1>6. \A d \in Listed(Senate) :
         d \in Unsettled(work.rows, Listed(Senate)) <=> ~Settled(work.rows, d)
  BY DEF Unsettled, Settled
<1>7. Behind(work.rows) \subseteq Behind(baseline.rows)
  BY <1>3, <1>4, <1>5 DEF Complete
<1>8. ASSUME NEW d \in Listed(Senate) \ Behind(baseline.rows),
             site[d].since + MaxStaleness < day
      PROVE  Settled(work.rows, d)
  <2>1. site[d].since \in Nat /\ work.lastOk \in Nat
    BY <1>3, ListedShown DEF Fresh
  <2>2. site[d].since < work.lastOk
    BY <1>2, <1>3, <1>8, <2>1
  <2>3. Settled(work.rows, d) \/ Older(work.rows, d)
    BY <1>3, <2>2 DEF Fresh
  <2> QED
    BY <1>4, <1>7, <1>8, <2>3 DEF Missed
<1>9. ASSUME job.era, NEW d \in Behind(work.rows)
      PROVE  site[d].filed > EraEnd
  <2>1. d \in Listed(Senate) /\ ~Settled(work.rows, d) /\ Older(work.rows, d)
    BY <1>4, <1>5, <1>9 DEF Missed
  <2>2. ~Recent(d)
    BY <1>2, <1>3, <2>1, RecentIsInWindow
  <2>3. ~(site[d].filed <= EraEnd)
    BY <1>3, <1>9, <2>1, <2>2 DEF Swept
  <2>4. site[d].filed \in Nat
    BY <2>1, ListedShown
  <2> QED
    BY <1>2, <2>3, <2>4
<1> QED
  BY <1>1, <1>6, <1>7, <1>8, <1>9

(* However often eFD refuses and however long the bootstrap took, what a   *)
(* release publishes of the Senate is within the staleness bound, except   *)
(* what the seed already lacked from before the re-scan window: no night   *)
(* adds to that, and an era run takes it in up to its end (the window, the *)
(* settled rule and the degraded run of ingest/senate.py).                 *)
THEOREM ReleasesFresh == NightlySpec => ReleasesAreFresh
<1>1. Init => FreshInv
  BY InitFresh
<1>2. SoundInv /\ FreshInv /\ [Next]_vars => FreshInv'
  BY NextFresh
<1>3. SoundInv /\ FreshInv /\ [Next]_vars =>
        [release' # release =>
          LET left == Behind(baseline.rows) IN
          /\ \A d \in Listed(Senate) \ left :
                site[d].since + MaxStaleness < day =>
                   d \notin Unsettled(release'.rows, Listed(Senate))
          /\ Behind(release'.rows) \subseteq left
          /\ job.era =>
                \A d \in Behind(release'.rows) : site[d].filed > EraEnd]_vars
  BY PublicationIsFresh
<1> QED
  BY <1>1, <1>2, <1>3, NightlyInvariant, PTL DEF NightlySpec, ReleasesAreFresh

=============================================================================
