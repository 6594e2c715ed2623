------------------------------- MODULE BarMemory -------------------------------
(***************************************************************************)
(* Two things the ingest handler of a primary bar remembers for one symbol: *)
(* the anchor bars (pipeline/features/anchor_bar.py), in memory, and the    *)
(* last CVD divergence of each type (pipeline/features/cvd_div_state.py),   *)
(* in memory and in a file that outlives the server.                        *)
(***************************************************************************)
EXTENDS Integers, Sequences, FiniteSets, FiniteSetsExt, SequencesExt

CONSTANTS
    Types,         \* types of divergence: bull, bear; nothing relates them
    Flows,         \* what trades in a bar: [vol, delta], delta signed
    LookBack,      \* bars the handler reads (10)
    MaxAnchors,    \* MAX_ANCHORS_PER_SESSION (5)
    StaleBars,     \* ANCHOR_STALE_BARS_15M (16)
    MaxFlows,      \* bound: bars that close
    MaxDeaths      \* bound: restarts

ASSUME MemoryAssumption == MaxAnchors \in Nat \ {0} /\ StaleBars \in Nat

VARIABLES
    flow,          \* the bars stored, [vol, delta]
    anchors,       \* the registry: [at, sign, age], oldest first
    lastDiv,       \* per type the bar of the remembered divergence, 0: none
    divFile,       \* the same as saved
    born,          \* bars stored when the server last started
    deaths         \* restarts so far

memoryVars == <<flow, anchors, lastDiv, divFile, born, deaths>>

NoDivs == [t \in Types |-> 0]
Magnitude(x) == IF x < 0 THEN -x ELSE x

MemoryInit ==
    /\ flow = <<>> /\ anchors = <<>> /\ lastDiv = NoDivs /\ divFile = NoDivs
    /\ born = 0 /\ deaths = 0

-----------------------------------------------------------------------------
(* Anchor bars *)
LastOnes(bars, n) == LET m == Max({0, Len(bars) - n}) IN SubSeq(bars, m + 1, Len(bars))
Total(f) == FoldSeq(LAMBDA x, acc : x + acc, 0, f)

\* detect(): twice the average volume, twice the average |delta|, and one-sided.
IsAnchor(bars) ==
    LET r == LastOnes(bars, LookBack)
        b == Last(r)
        n == Len(r)
        vols == Total([i \in 1..n |-> r[i].vol])
        deltas == Total([i \in 1..n |-> Magnitude(r[i].delta)])
    IN  /\ vols > 0 /\ deltas > 0
        /\ b.vol * n >= 2 * vols
        /\ Magnitude(b.delta) * n >= 2 * deltas
        /\ 100 * Magnitude(b.delta) >= 30 * b.vol

Anchor(bars) == [at |-> Len(bars), sign |-> IF Last(bars).delta > 0 THEN "bull" ELSE "bear",
                 age |-> 0]

\* The oldest goes first.
Registered(as, a) == LastOnes(Append(as, a), MaxAnchors)

\* An anchor a bar later, none when it is stale.
OneOlder(a) == IF a.age + 1 <= StaleBars THEN <<[a EXCEPT !.age = @ + 1]>> ELSE <<>>
Older(as) == FlattenSeq([i \in DOMAIN as |-> OneOlder(as[i])])

\* update(): the ages first, then this bar.
AnchorsAfter(as, bars) ==
    IF IsAnchor(bars) THEN Registered(Older(as), Anchor(bars)) ELSE Older(as)

-----------------------------------------------------------------------------
(* Divergences *)
Newest(old, new) == IF new >= old THEN new ELSE old

\* record_from_scan: found is what the scan reports, 0 for a type it does not.
Remembered(found) ==
    [t \in Types |-> IF found[t] = 0 THEN lastDiv[t] ELSE Newest(lastDiv[t], found[t])]

-----------------------------------------------------------------------------
\* A primary bar closes.  A scan reports any divergence of the bars it looks at: with
\* the live bar included, one it reported before may be gone.  Saving may fail.
FlowCloses ==
    /\ Len(flow) < MaxFlows
    /\ \E b \in Flows : flow' = Append(flow, b)
    /\ anchors' = AnchorsAfter(anchors, flow')
    /\ \E found \in [Types -> 0..Len(flow')] :
        /\ lastDiv' = Remembered(found)
        /\ divFile' \in (IF found = NoDivs THEN {divFile} ELSE {divFile, lastDiv'})
    /\ UNCHANGED <<born, deaths>>

\* Anchors are not rebuilt from the bars; the divergences are read from the file.
MemoryRestart ==
    /\ deaths < MaxDeaths
    /\ anchors' = <<>> /\ lastDiv' = divFile
    /\ born' = Len(flow) /\ deaths' = deaths + 1
    /\ UNCHANGED <<flow, divFile>>

MemoryNext == FlowCloses \/ MemoryRestart
MemorySpec == MemoryInit /\ [][MemoryNext]_memoryVars
-----------------------------------------------------------------------------
(* Properties *)
MemoryTypeOK ==
    /\ Len(anchors) <= MaxAnchors
    /\ \A i \in DOMAIN anchors : anchors[i].age \in 0..StaleBars
    /\ lastDiv \in [Types -> 0..Len(flow)] /\ divFile \in [Types -> 0..Len(flow)]

(* The registry is what a scan of the bars since the start would give: of the bars that      *)
(* were anchors when they closed, the newest MaxAnchors of the last StaleBars + 1, each      *)
(* with its age (anchor_bar.update against its module comment).                              *)
AnchorsAsScanned ==
    LET n == Len(flow)
        were == {i \in (born + 1)..n : n - i <= StaleBars /\ IsAnchor(SubSeq(flow, 1, i))}
        newest == {i \in were : Cardinality({j \in were : j >= i}) <= MaxAnchors}
    IN  /\ {anchors[k].at : k \in DOMAIN anchors} = newest
        /\ \A k \in DOMAIN anchors : anchors[k].age = n - anchors[k].at
        /\ \A k \in 1..(Len(anchors) - 1) : anchors[k].at < anchors[k + 1].at

(* The remembered divergence never goes back while the server runs, and a restart brings     *)
(* back nothing newer than what was known (record_from_scan, _load).                         *)
DivergenceNeverOlder ==
    lastDiv' # lastDiv =>
     \A t \in Types :
       IF deaths' = deaths THEN lastDiv'[t] >= lastDiv[t]
       ELSE lastDiv'[t] <= lastDiv[t]
=============================================================================
