-------------------------------- MODULE InstBulk --------------------------------
(***************************************************************************)
(* The bulk ingest of one quarter of 13F filings.  "inst-bulk discover"    *)
(* reads the form index, fetches the cover of every holdings report and    *)
(* keeps the top filers as the universe; "inst-bulk ingest" loads the      *)
(* lineage of each of them from an archive that it fills on the way, and   *)
(* derives amendments, affiliations and coverage once at the end.  Both    *)
(* keep a journal and are run again after a crash, a refusal or a latched  *)
(* breaker.  The ingest of single managers writes to the same store.       *)
(***************************************************************************)
EXTENDS InstStore

CONSTANTS
    Worlds,         \* what EDGAR may hold: functions accession -> document
    Early,          \* accessions listed from the start
    Period,         \* the report period of the universe
    TopN,
    FlushEvery,     \* covers between two writes of the rank journal
    Singles,        \* managers that are ingested one by one
    MaxSingles,     \* bound: such ingests
    MaxFaults       \* bound: refusals, latches, crashes and damages

ASSUME InstBulkAssumption ==
    /\ Worlds \subseteq [Accessions -> Document]
    /\ Early \subseteq Accessions /\ Singles \subseteq Ciks
    /\ Period \in Nat /\ TopN \in Nat \ {0} /\ FlushEvery \in Nat \ {0}
    /\ MaxSingles \in Nat /\ MaxFaults \in Nat

(* What the rank journal holds, beside the accessions that it is about.    *)
RankJournal == [refs : SUBSET Accessions,
                facts : [Accessions -> {None, "read", "unreadable"}]]

ASSUME JournalAssumption ==
    /\ None \notin RankJournal
    /\ None \notin {"loaded", "document", "damaged"}

VARIABLES
    D,          \* the world of this behaviour
    listed,     \* what EDGAR lists now
    archive,    \* bytes and checkpoint of every document
    history,    \* the accessions in each archived submissions document
    rankJ,      \* the rank journal
    universe,   \* the universe file
    ingJ,       \* the ingest journal
    store,
    derived,    \* the passes have run since the last load
    run,        \* the running command
    singles, faults

vars == <<D, listed, archive, history, rankJ, universe, ingJ, store, derived,
          run, singles, faults>>

(***************************************************************************)
(* The archive.                                                            *)
(***************************************************************************)
Good == "document"
Bad == "damaged"


Subs(c) == <<"subs", c>>
Cover(a) == <<"cover", a>>
Table(a) == <<"table", a>>      \* the filing's index and the table it names
Docs == {Subs(c) : c \in Ciks} \cup {Cover(a) : a \in Accessions}
            \cup {Table(a) : a \in Accessions}

Absent == [bytes |-> None, check |-> None]

(* Bytes that match their checkpoint are read, bytes without one get one,  *)
(* both without a request.                                                 *)
OnDisk(f) == f.bytes # None /\ f.check \in {None, f.bytes}
Adopted(f) == [f EXCEPT !.check = f.bytes]

KeptAnyway(f, status) ==
    LET body == IF status = 200 THEN Good ELSE Bad
    IN [bytes |-> body, check |-> body]

(* A document is kept only when it came with status 200.                   *)
Kept(f, status) == IF status = 200 THEN [bytes |-> Good, check |-> Good] ELSE f

(* What obtaining a document may give: its file afterwards, and the body   *)
(* that the caller parses.                                                 *)
Obtained(d) ==
    LET f == archive[d] IN
    IF OnDisk(f) THEN {[file |-> Adopted(f), body |-> f.bytes, cost |-> 0]}
    ELSE {[file |-> Kept(f, 200), body |-> Good, cost |-> 0]} \cup
         (IF faults < MaxFaults
          THEN {[file |-> Kept(f, 403), body |-> Bad, cost |-> 1]} ELSE {})

(* The ingest of single managers has an archive of its own, which it never *)
(* reads.                                                                  *)
Fetched ==
    {[body |-> Good, cost |-> 0]} \cup
    (IF faults < MaxFaults THEN {[body |-> Bad, cost |-> 1]} ELSE {})

(***************************************************************************)
(* The ranking.                                                            *)
(***************************************************************************)
Refs == {a \in listed : D[a].form \notin Notices}

Fact(a) == IF D[a].readable = "nothing" THEN "unreadable" ELSE "read"

Lineage(refs, facts, c) ==
    {a \in refs : D[a].cik = c /\ facts[a] = "read" /\ D[a].period = Period}

Ranked(refs, facts) ==
    {c \in Ciks : /\ Lineage(refs, facts, c) # {}
                  /\ \A a \in refs : D[a].cik = c => facts[a] = "read"}

(* What a document says of itself, once its cover and table are read.      *)
Documented(as) ==
    Filings(D, [a \in Accessions |->
                  IF a \in as THEN [status |-> "parsed", amends |-> None,
                                    flags |-> {}] ELSE None])

Declared(f) == IF f.total = None THEN 0 ELSE f.total

Effective(refs, facts, c) ==
    MapThenSumSet(Declared, Survivors(Documented(Lineage(refs, facts, c))))

Above(refs, facts, c) ==
    {e \in Ranked(refs, facts) \ {c} :
        \/ Effective(refs, facts, e) > Effective(refs, facts, c)
        \/ Effective(refs, facts, e) = Effective(refs, facts, c) /\ e < c}

SelectTopN(refs, facts) ==
    [refs |-> refs,
     lineage |-> [c \in {e \in Ranked(refs, facts) :
                           Cardinality(Above(refs, facts, e)) < TopN} |->
                    Lineage(refs, facts, c)]]

(***************************************************************************)
(* Commands.                                                               *)
(***************************************************************************)
NoOutcomes == [a \in Accessions |-> "absent"]
NoFacts == [a \in Accessions |-> None]

Idle == [cmd |-> "none", refs |-> {}, facts |-> NoFacts, dirty |-> 0,
         left |-> {}, cik |-> None, todo |-> {}, at |-> None,
         seen |-> NoOutcomes]

Target == run.cik # None
Reading == run.at # None

(* A process that ends, well or not, leaves what it had written.           *)
End == run' = Idle

FileAtEdgar(a) ==
    /\ a \notin listed
    /\ listed' = listed \cup {a}
    /\ UNCHANGED <<D, archive, history, rankJ, universe, ingJ, store, derived,
                   run, singles, faults>>

Crash ==
    /\ run.cmd # "none" /\ faults < MaxFaults
    /\ faults' = faults + 1
    /\ End
    /\ UNCHANGED <<D, listed, archive, history, rankJ, universe, ingJ, store,
                   derived, singles>>

Damage(d) ==
    /\ archive[d].bytes = Good /\ faults < MaxFaults
    /\ archive' = [archive EXCEPT ![d].bytes = Bad]
    /\ faults' = faults + 1
    /\ UNCHANGED <<D, listed, history, rankJ, universe, ingJ, store, derived,
                   run, singles>>

(***************************************************************************)
(* inst-bulk discover.                                                     *)
(***************************************************************************)
Discover ==
    /\ run.cmd = "none"
    /\ universe # None => universe.refs # Refs
    /\ Refs # {}
    /\ rankJ # None => rankJ.refs = Refs        \* JournalError otherwise
    /\ run' = [Idle EXCEPT !.cmd = "discover", !.refs = Refs,
                  !.facts = IF rankJ = None THEN NoFacts ELSE rankJ.facts]
    /\ UNCHANGED <<D, listed, archive, history, rankJ, universe, ingJ, store,
                   derived, singles, faults>>

Unswept == {a \in run.refs : run.facts[a] = None}

WriteRank(facts) == rankJ' = [refs |-> run.refs, facts |-> facts]

SweepCover(a) ==
    /\ run.cmd = "discover" /\ a \in Unswept
    /\ LET facts == [run.facts EXCEPT ![a] = Fact(a)]
           flush == run.dirty + 1 >= FlushEvery
       IN /\ run' = [run EXCEPT !.facts = facts,
                                !.dirty = IF flush THEN 0 ELSE @ + 1]
          /\ IF flush THEN WriteRank(facts) ELSE UNCHANGED rankJ
    /\ UNCHANGED <<D, listed, archive, history, universe, ingJ, store,
                   derived, singles, faults>>

FrozenRefusal(facts, a) == [facts EXCEPT ![a] = "unreadable"]

(* A refused cover, or a latched breaker, is recorded for no accession:    *)
(* the covers read so far are kept and the sweep ends.                     *)
Refused(facts, a) == facts

SweepRefused(a) ==
    /\ run.cmd = "discover" /\ a \in Unswept
    /\ faults < MaxFaults
    /\ faults' = faults + 1
    /\ IF run.dirty > 0 \/ Refused(run.facts, a) # run.facts
       THEN WriteRank(Refused(run.facts, a)) ELSE UNCHANGED rankJ
    /\ End
    /\ UNCHANGED <<D, listed, archive, history, universe, ingJ, store,
                   derived, singles>>

FinishDiscover ==
    /\ run.cmd = "discover" /\ Unswept = {}
    /\ WriteRank(run.facts)
    /\ universe' = SelectTopN(run.refs, run.facts)
    /\ End
    /\ UNCHANGED <<D, listed, archive, history, ingJ, store, derived, singles,
                   faults>>

(* Both journals refuse a source that changed under them; the operator     *)
(* starts over with a fresh output directory and the same archive.         *)
StartOver ==
    /\ run.cmd = "none"
    /\ rankJ # None /\ rankJ.refs # Refs
    /\ rankJ' = None /\ universe' = None /\ ingJ' = None
    /\ UNCHANGED <<D, listed, archive, history, store, derived, run, singles,
                   faults>>

(***************************************************************************)
(* inst-bulk ingest.                                                       *)
(***************************************************************************)
Terminal == {"loaded", "failed"}

Unrecorded ==
    {c \in DOMAIN universe.lineage : ingJ = None \/ ingJ.disp[c] = None}

Pending ==
    {c \in DOMAIN universe.lineage :
        ingJ = None \/ ingJ.disp[c] \notin Terminal}

StartIngest ==
    /\ run.cmd = "none" /\ universe # None
    /\ ingJ # None => ingJ.bound = universe     \* JournalError otherwise
    /\ Pending # {} \/ ~derived
    /\ run' = [Idle EXCEPT !.cmd = "ingest", !.left = Pending]
    /\ UNCHANGED <<D, listed, archive, history, rankJ, universe, ingJ, store,
                   derived, singles, faults>>

Recorded(c, disposition) ==
    LET disp == IF ingJ = None THEN [e \in Ciks |-> None] ELSE ingJ.disp
    IN [bound |-> universe, disp |-> [disp EXCEPT ![c] = disposition]]

NextFiler == [run EXCEPT !.left = @ \ {run.cik}, !.cik = None, !.todo = {},
                         !.at = None, !.seen = NoOutcomes]

(* Discovery of one filer.  A body that is not its submissions document    *)
(* raises, which the coordinator records and passes over.                  *)
OpenFiler(c) ==
    /\ run.cmd = "ingest" /\ ~Target /\ c \in run.left
    /\ \E got \in Obtained(Subs(c)) :
          /\ archive' = [archive EXCEPT ![Subs(c)] = got.file]
          /\ faults' = faults + got.cost
          /\ LET entries == IF OnDisk(archive[Subs(c)]) THEN history[c]
                            ELSE {a \in listed : D[a].cik = c}
             IN IF got.body = Good
                THEN /\ history' = [history EXCEPT ![c] = entries]
                     /\ run' = [run EXCEPT !.cik = c,
                                   !.todo = entries \cap universe.lineage[c]]
                     /\ UNCHANGED ingJ
                ELSE /\ ingJ' = Recorded(c, "ingest_error")
                     /\ run' = [run EXCEPT !.left = @ \ {c}]
                     /\ UNCHANGED history
    /\ UNCHANGED <<D, listed, rankJ, universe, store, derived, singles>>

Evaluate(a, status) ==
    /\ store' = UpsertInstFiling(store, a, status)
    /\ derived' = FALSE
    /\ run' = [run EXCEPT !.todo = @ \ {a}, !.at = None,
                          !.seen = [@ EXCEPT ![a] = status]]

(* One accession: its cover, then its table, then one transaction.         *)
ObtainCover(a) ==
    /\ run.cmd = "ingest" /\ a \in run.todo /\ ~Reading
    /\ \E got \in Obtained(Cover(a)) :
          /\ archive' = [archive EXCEPT ![Cover(a)] = got.file]
          /\ faults' = faults + got.cost
          /\ IF got.body = Good /\ D[a].readable # "nothing"
             THEN /\ run' = [run EXCEPT !.at = a]
                  /\ UNCHANGED <<store, derived>>
             ELSE Evaluate(a, "failed cover")
    /\ UNCHANGED <<D, listed, history, rankJ, universe, ingJ, singles>>

ObtainTable ==
    /\ run.cmd = "ingest" /\ Reading
    /\ \E got \in Obtained(Table(run.at)) :
          /\ archive' = [archive EXCEPT ![Table(run.at)] = got.file]
          /\ faults' = faults + got.cost
          /\ Evaluate(run.at, IF got.body = Good /\ D[run.at].readable = "all"
                              THEN "parsed" ELSE "failed table")
    /\ UNCHANGED <<D, listed, history, rankJ, universe, ingJ, singles>>

Wanted ==
    IF Reading THEN {Table(run.at)}
    ELSE IF Target THEN {Cover(a) : a \in run.todo}
    ELSE {Subs(c) : c \in run.left}

(* The checkpoint is committed before the bytes are renamed into place; a  *)
(* crash may come between.                                                 *)
TornWrite(f) == [f EXCEPT !.check = Good]

CrashInWrite(d) ==
    /\ run.cmd = "ingest" /\ d \in Wanted
    /\ ~OnDisk(archive[d])
    /\ faults < MaxFaults
    /\ faults' = faults + 1
    /\ archive' = [archive EXCEPT ![d] = TornWrite(@)]
    /\ End
    /\ UNCHANGED <<D, listed, history, rankJ, universe, ingJ, store, derived,
                   singles>>

(* A latched breaker stops the run: the filer is retryable, the others are *)
(* pending, nothing is derived; the journal is written at the end.         *)
LatchInIngest ==
    /\ run.cmd = "ingest" /\ faults < MaxFaults
    /\ \E d \in Wanted :
          /\ ~OnDisk(archive[d])
          /\ ingJ' = Recorded(IF Target THEN run.cik ELSE d[2], "circuit_open")
    /\ faults' = faults + 1
    /\ End
    /\ UNCHANGED <<D, listed, archive, history, rankJ, universe, store,
                   derived, singles>>

(* Complete means every target was parsed; anything less has failed.       *)
Classify(targets, seen) ==
    IF targets # {} /\ \A a \in targets : seen[a] = "parsed"
    THEN "loaded" ELSE "failed"

CloseFiler ==
    /\ run.cmd = "ingest" /\ Target /\ run.todo = {}
    /\ ingJ' = Recorded(run.cik, Classify(universe.lineage[run.cik], run.seen))
    /\ run' = NextFiler
    /\ UNCHANGED <<D, listed, archive, history, rankJ, universe, store,
                   derived, singles, faults>>

FinishIngest ==
    /\ run.cmd = "ingest" /\ ~Target /\ run.left = {}
    /\ store' = FinalizeInstIngest(D, store)
    /\ derived' = TRUE
    /\ End
    /\ UNCHANGED <<D, listed, archive, history, rankJ, universe, ingJ,
                   singles, faults>>

(***************************************************************************)
(* The ingest of one manager: every listed filing, always fetched, with    *)
(* the passes at the end of the run.                                       *)
(***************************************************************************)
StartSingle(c) ==
    /\ run.cmd = "none" /\ singles < MaxSingles
    /\ singles' = singles + 1
    /\ run' = [Idle EXCEPT !.cmd = "single",
                           !.todo = {a \in listed : D[a].cik = c}]
    /\ UNCHANGED <<D, listed, archive, history, rankJ, universe, ingJ, store,
                   derived, faults>>

FetchSingle(a) ==
    /\ run.cmd = "single" /\ a \in run.todo
    /\ \E cover, table \in Fetched :
          /\ faults + cover.cost + table.cost <= MaxFaults
          /\ faults' = faults + cover.cost + table.cost
          /\ LET read == cover.body = Good /\ D[a].readable # "nothing"
                 rows == table.body = Good /\ D[a].readable = "all"
             IN Evaluate(a, IF ~read THEN "failed cover"
                            ELSE IF D[a].form \in Notices \/ rows THEN "parsed"
                            ELSE "failed table")
    /\ UNCHANGED <<D, listed, archive, history, rankJ, universe, ingJ, singles>>

FinishSingle ==
    /\ run.cmd = "single" /\ run.todo = {}
    /\ store' = FinalizeInstIngest(D, store)
    /\ derived' = TRUE
    /\ End
    /\ UNCHANGED <<D, listed, archive, history, rankJ, universe, ingJ,
                   singles, faults>>

Init ==
    /\ D \in Worlds
    /\ listed = Early
    /\ archive = [d \in Docs |-> Absent]
    /\ history = [c \in Ciks |-> {}]
    /\ rankJ = None /\ universe = None /\ ingJ = None
    /\ store = [a \in Accessions |-> None]
    /\ derived = TRUE
    /\ run = Idle
    /\ singles = 0 /\ faults = 0

Commands ==
    \/ Discover \/ FinishDiscover
    \/ \E a \in Accessions : SweepCover(a)
    \/ StartIngest \/ FinishIngest
    \/ \E c \in Ciks : OpenFiler(c)
    \/ \E a \in Accessions : ObtainCover(a)
    \/ ObtainTable \/ CloseFiler
    \/ \E a \in Accessions : FetchSingle(a)
    \/ FinishSingle

Next ==
    \/ \E a \in Accessions : FileAtEdgar(a)
    \/ \E c \in Singles : StartSingle(c)
    \/ Commands
    \/ StartOver
    \/ \E a \in Accessions : SweepRefused(a)
    \/ Crash \/ LatchInIngest
    \/ \E d \in Docs : Damage(d) \/ CrashInWrite(d)

BulkSpec == Init /\ [][Next]_vars

(* The operator runs the commands again until they have nothing to do.     *)
BulkFairSpec == BulkSpec /\ WF_vars(Commands)

(***************************************************************************)
(* Properties.                                                             *)
(***************************************************************************)

(* Whatever refusals and crashes the sweep went through, and whatever its  *)
(* journal carried over them: the universe is the ranking of the filings   *)
(* that the form index lists, as their covers say.                         *)
UniverseIsTheRanking ==
    [][universe' # universe /\ universe' # None =>
          universe' = SelectTopN(universe'.refs,
                         [a \in Accessions |->
                            IF a \in universe'.refs THEN Fact(a) ELSE None])]_vars

(* inst_bulk: the ranking's survivors are those of the view.  A filer that *)
(* is journaled as loaded stands in the store with the survivors that it   *)
(* was ranked by, each with its holdings, and the journal's word is not    *)
(* overtaken by a later run.                                               *)
LoadedIsWhatWasRanked ==
    ingJ # None =>
        \A c \in DOMAIN ingJ.bound.lineage :
            ingJ.disp[c] = "loaded" =>
                Survivors(Documented(ingJ.bound.lineage[c])) =
                {f \in Survivors(Filings(D, store)) :
                     f.cik = c /\ f.period = Period}

(* A file that the next run will read without a request is the document,   *)
(* never the body of a refusal or what damage or a torn write left.        *)
DurableIsTheDocument ==
    \A d \in Docs : OnDisk(archive[d]) => archive[d].bytes = Good

(* Both: the archive holds only SEC's documents, and the store only what     *)
(* the ranking and the ingest read from them.                                *)
StoreMatchesTheArchive == DurableIsTheDocument /\ LoadedIsWhatWasRanked

(* mark_affiliated_coverage: "an incremental selective-CIK run converges   *)
(* with a clean rebuild".  After the passes every link and every flag is   *)
(* what the same passes derive from freshly loaded rows, and no link       *)
(* breaks the pair invariants.                                             *)
Fresh(rows) ==
    [a \in Accessions |->
        IF rows[a] = None THEN None
        ELSE [status |-> rows[a].status, amends |-> None, flags |-> {}]]

DerivedLikeACleanRebuild ==
    derived => /\ store = FinalizeInstIngest(D, Fresh(store))
               /\ LinksHold(D, store)

(* No figure counts a dollar that its denominator does not hold, and the   *)
(* two populations differ by the covered notices alone.                    *)
CoverageNeverInflates ==
    LET F == Filings(D, store) IN
    /\ \A p \in {f.period : f \in F} :
          /\ Numerator(OfPeriod(F, p)) <= Denominator(OfPeriod(F, p))
          /\ Survivors(OfPeriod(F, p)) # {}
    /\ FilerReported(F) \ DefaultFilings(F) =
          {f \in FilerReported(F) : /\ f.form \in Notices
                                    /\ Coverers(Survivors(F), f) # {}}

(* Both: after every ingest run the derived columns are a clean rebuild's,   *)
(* and no figure built on them counts a dollar twice.                        *)
DerivationsHold == DerivedLikeACleanRebuild /\ CoverageNeverInflates

(* Once SEC answers and nothing crashes, running the commands again brings *)
(* the ingest to its end: every filer of the universe has an outcome and   *)
(* the passes have run over all of them.                                   *)
Finished ==
    /\ universe # None /\ ingJ # None /\ ingJ.bound = universe
    /\ \A c \in DOMAIN universe.lineage : ingJ.disp[c] \in Terminal
    /\ derived

BulkFinishes ==
    universe # None ~> \/ Finished
                       \/ universe = None
                       \/ DOMAIN universe.lineage = {}

=============================================================================
